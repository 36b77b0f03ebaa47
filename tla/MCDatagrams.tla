---------------------------- MODULE MCDatagrams ----------------------------
(* Two buffers for up to three datagrams: an empty one, one that fits and    *)
(* one that is longer than a buffer, of two senders.                         *)
EXTENDS Datagrams

MCMessages == {[from |-> "a", data |-> << >>], [from |-> "a", data |-> <<1, 2>>],
               [from |-> "b", data |-> <<3, 4, 5>>]}
MCProtocols == {"tcp", "udp", "quic"}
MCAddresses == {"IPv4", "IPv6", "unparsable"}
=============================================================================
