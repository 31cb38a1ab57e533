---------------------------- MODULE MCFramePipe ----------------------------
(* Instances of FramePipe for TLC.                                          *)
EXTENDS FramePipe, Fec, TLC


\* The datagrams of some frames of some sessions as a sender emits them: all
\* shards of a frame carry its flags; keys are the identifiers of keyframes.
SentBy(sessions, ids, keys) ==
  {d \in [session : sessions, id : ids, key : BOOLEAN, group : Groups,
          shard : 0 .. 3, fits : {TRUE}] :
     /\ d.key = (d.id \in keys)
     /\ d.shard < Shape[d.group] + 2}

DataOnly(D) == {d \in D : IsData(d)}
WithUnfit(D) == D \cup {[d EXCEPT !.fits = FALSE] : d \in D}

\* Two data shards and their parity; the frames of one session on both sides of
\* the wrap of the identifiers, a second session, shards that do not fit.
TwoShards == [g \in {0} |-> 2]
WrappingDatagrams ==
  WithUnfit(DataOnly(SentBy({1}, {IdMod - 1, 0, 1}, {IdMod - 1})))
    \cup SentBy({2}, {0, 2}, {0, 2})

\* The groups as Fec rebuilds them, one byte a shard.
Rebuilt(f, g) ==
  LET group == SubSeq(CHOOSE data \in Samples : TRUE, 1, Shape[g])
      missing == {i \in 1 .. Shape[g] : <<g, i - 1>> \notin f.present}
  IN AfterLoss(group, missing, <<g, 0>> \in f.parity, <<g, 1>> \in f.parity) = group

\* The recovery code rebuilds exactly what was sent or refuses, for every pattern
\* of loss in a group of up to ten shards, and FramePipe's Recoverable says
\* which of the two for every group the pipe can meet (stearlight_protocol.c:99-174).
FecExact ==
  /\ FieldSound
  /\ RecoveryExact
  /\ \A s \in Occupied, g \in Groups :
       Rebuilt(frames[s], g) <=> Missing(frames[s], g) = {} \/ Recoverable(frames[s], g)
=============================================================================
