--------------------------- MODULE MCVideoStream ---------------------------
(* An instance of VideoStream for TLC.                                      *)
EXTENDS VideoStream

TwoShards == [g \in {0} |-> 2]

\* Data shards only: the loss of one of the two shards is the loss of the frame.
DataDatagrams ==
  {d \in [session : Sessions, id : Ids, key : BOOLEAN, group : Groups,
          shard : 0 .. 1, fits : {TRUE}] :
     d.key = Keyframe(d.id) /\ IsData(d)}
=============================================================================
