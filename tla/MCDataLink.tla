------------------------------ MODULE MCDataLink ------------------------------
(* Small instances of DataLink: each field is empty, full, or has one of   *)
(* its outermost bits.                                                     *)
EXTENDS DataLink

Edges(width) == {{}, {0}, {width - 1}, 0 .. width - 1}

MCHeaders ==
  [source : DataSource, server_address : Edges(8), server_port : Edges(3),
   frame_counter : {{}, {15}, 0 .. 15}]

(* From nothing to the most that a datagram of MIN_PACKET_SIZE bytes has   *)
(* room for.                                                               *)
MCPayloads == {[id |-> 1, len |-> 0], [id |-> 2, len |-> 9], [id |-> 3, len |-> 32]}

==============================================================================
