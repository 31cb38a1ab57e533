---------------------------- MODULE ScanoutProofs ----------------------------
(***************************************************************************)
(* Proofs about Scanout for every size of the decoder's pool and of the    *)
(* presenter's table, every number of objects and planes, and every call   *)
(* of the kernel that may fail.                                            *)
(***************************************************************************)
EXTENDS Scanout, FunctionTheorems, FiniteSetTheorems, TLAPS

(* What holds at each place of the run thread, and why the properties of   *)
(* Scanout hold.  The plane is chosen before anything is committed to it,  *)
(* and only closing finds it still on, when it could not be turned off.    *)
PlaneInv ==
    /\ pc \in {"import", "commit"} => plane # None
    /\ plane = None \/ pc = "closed" \/ (pc = "release" /\ ~refused)
          => queued = None /\ screen = None

(* The loop holds a frame from the test in decode to the end of present,   *)
(* and what it commits has a framebuffer.                                  *)
HandInv ==
    /\ pc \in {"present", "import", "commit"} <=> hand # None
    /\ pc = "commit" => hand \in cache
    /\ pc = "import" => hand \notin cache /\ Room

(* An import that is under way has the handles of the first n objects.     *)
ImportInv ==
    pc = "import" =>
        /\ \E n \in 0 .. Objects :
              handles = HandlesOf(cache) \cup HudHandles \cup ({hand} \X (1 .. n))
        /\ fbs = cache \cup HudBuffers

(* Once stopping nothing new is presented, so that one commit is left.     *)
StopInv ==
    /\ ~stopping => late = 0
    /\ late # 0 => pc \notin {"present", "import", "commit"}

ScanoutInv == PlaneInv /\ HandInv /\ ImportInv /\ StopInv

Safety == TypeOK /\ ScanoutInv /\ NothingLeaks /\ StopShowsOne

-----------------------------------------------------------------------------
(* Sizes.                                                                  *)

LEMMA Sizes ==
    /\ PoolSize \in Nat /\ CacheSize \in Nat /\ Objects \in Nat /\ MaxRetry \in Nat
    /\ None \notin Surfaces /\ None \notin Planes /\ Hud \notin Surfaces
    /\ IsFiniteSet(Surfaces) /\ Cardinality(Surfaces) = CacheSize + PoolSize
<1>1. PoolSize \in Nat \ {0, 1} /\ CacheSize \in Nat \ {0}
  BY SizesAssumption
<1>2. IsFiniteSet(Surfaces) /\ Cardinality(Surfaces) = CacheSize + PoolSize
  BY <1>1, FS_Interval DEF Surfaces
<1> QED
  BY <1>1, <1>2, SizesAssumption

(* A finite set has subsets of every smaller size.                         *)
LEMMA SubsetOfSize ==
    ASSUME NEW S, IsFiniteSet(S), NEW k \in Nat, k <= Cardinality(S)
    PROVE  \E P \in SUBSET S : Cardinality(P) = k
<1> DEFINE n == Cardinality(S)
<1>1. n \in Nat /\ ExistsBijection(1 .. n, S)
  BY FS_CardinalityType
<1>2. PICK f \in Bijection(1 .. n, S) : TRUE
  BY <1>1 DEF ExistsBijection
<1> DEFINE P == {f[i] : i \in 1 .. k}
           g == [i \in 1 .. k |-> f[i]]
<1>3. 1 .. k \subseteq 1 .. n
  BY <1>1
<1>4. /\ f \in [1 .. n -> S]
      /\ \A i, j \in 1 .. n : f[i] = f[j] => i = j
  BY <1>2, Fun_BijectionProperties
<1>5. g \in Bijection(1 .. k, P)
  <2>1. g \in [1 .. k -> P] /\ \A i, j \in 1 .. k : g[i] = g[j] => i = j
    BY <1>3, <1>4
  <2>2. \A t \in P : \E i \in 1 .. k : g[i] = t
    OBVIOUS
  <2> QED
    BY <2>1, <2>2, Fun_IsBij
<1>6. ExistsBijection(1 .. k, P)
  BY <1>5 DEF ExistsBijection
<1>7. Cardinality(P) = k
  BY <1>6, FS_CountingElements
<1>8. P \in SUBSET S
  BY <1>3, <1>4
<1> QED
  BY <1>7, <1>8

(* A session finds surfaces that the table does not pin.                   *)
LEMMA FreshPoolType ==
    ASSUME NEW C \in SUBSET Surfaces, Cardinality(C) <= CacheSize
    PROVE  FreshPool(C) \subseteq Surfaces
<1> DEFINE F == Surfaces \ C
<1>1. IsFiniteSet(C) /\ Cardinality(C) \in Nat
  BY Sizes, FS_Subset, FS_CardinalityType
<1>2. Surfaces \cap C = C
  OBVIOUS
<1>3. IsFiniteSet(F) /\ Cardinality(F) = (CacheSize + PoolSize) - Cardinality(C)
  BY <1>2, Sizes, FS_Difference
<1>4. PoolSize <= Cardinality(F)
  <2> HIDE DEF F
  <2> QED
    BY <1>1, <1>3, Sizes
<1>5. \E P \in kSubset(PoolSize, F) : TRUE
  BY <1>3, <1>4, Sizes, SubsetOfSize DEF kSubset
<1>6. FreshPool(C) \in kSubset(PoolSize, F)
  BY <1>5 DEF FreshPool
<1> QED
  BY <1>6 DEF kSubset

(* n objects of one surface are n handles.                                 *)
LEMMA ObjectsOf ==
    ASSUME NEW s, NEW n \in 0 .. Objects
    PROVE  Cardinality({s} \X (1 .. n)) = n /\ {s} \X (1 .. n) \subseteq HandlesOf({s})
<1>1. n \in Nat /\ n <= Objects /\ Objects \in Nat
  BY Sizes
<1>2. IsFiniteSet({s}) /\ Cardinality({s}) = 1
  BY FS_Singleton
<1>3. IsFiniteSet(1 .. n) /\ Cardinality(1 .. n) = n
  BY <1>1, FS_Interval
<1>4. Cardinality({s} \X (1 .. n)) = 1 * n
  BY <1>2, <1>3, FS_Product
<1>5. 1 .. n \subseteq 1 .. Objects
  BY <1>1
<1> QED
  BY <1>1, <1>4, <1>5 DEF HandlesOf

(* What an import has so far are the handles of its own surface.           *)
LEMMA ImportedObjects ==
    ASSUME TypeOK, HandInv, pc = "import", NEW n \in 0 .. Objects,
           handles = HandlesOf(cache) \cup HudHandles \cup ({hand} \X (1 .. n))
    PROVE  Imported = {hand} \X (1 .. n) /\ Cardinality(Imported) = n
<1>1. hand \notin cache /\ hand # Hud
  BY Sizes DEF TypeOK, HandInv
<1>2. {hand} \X (1 .. n) \subseteq HandlesOf({hand})
  BY ObjectsOf
<1>3. HandlesOf(cache) \cap HandlesOf({hand}) = {} /\ HudHandles \cap HandlesOf({hand}) = {}
  BY <1>1 DEF HandlesOf, HudHandles
<1>4. Imported = {hand} \X (1 .. n)
  BY <1>2, <1>3 DEF Imported
<1> QED
  BY <1>4, ObjectsOf

(* The table is finite.                                                    *)
LEMMA TableType ==
    ASSUME cache \in SUBSET Surfaces
    PROVE  IsFiniteSet(cache) /\ Cardinality(cache) \in Nat
BY Sizes, FS_Subset, FS_CardinalityType

-----------------------------------------------------------------------------
(* Type correctness.                                                       *)

LEMMA InitTypeOK == Init => TypeOK
<1> SUFFICES ASSUME Init PROVE TypeOK
  OBVIOUS
<1>1. Cardinality(cache) <= CacheSize
  BY Sizes, FS_EmptySet DEF Init
<1>2. /\ pool \subseteq Surfaces /\ refs \subseteq pool /\ backlog \subseteq pool
      /\ hand \in pool \cup {None} /\ cache \subseteq Surfaces
      /\ handles \subseteq HandlesOf(Surfaces) \cup {<<Hud, 1>>}
      /\ fbs \subseteq Surfaces \cup {Hud} /\ hud \subseteq {"tried", "handle", "fb", "map"}
      /\ queued \in Surfaces \cup {None} /\ screen \in Surfaces \cup {None}
      /\ refused \in BOOLEAN
  BY DEF Init
<1>3. /\ pc = "closed" /\ stopping \in BOOLEAN /\ healthy \in BOOLEAN
      /\ format \in Formats /\ plane \in Planes \cup {None} /\ atomic = "unknown"
      /\ last = "none"
  BY DEF Init
<1>4. late \in 0 .. 2 /\ tries \in 0 .. MaxRetry
  BY Sizes DEF Init
<1> QED
  BY <1>1, <1>2, <1>3, <1>4 DEF TypeOK

LEMMA OpenTypeOK == ASSUME TypeOK, ScanoutInv, Open \/ NewSession PROVE TypeOK'
<1>1. FreshPool({}) \subseteq Surfaces /\ FreshPool(cache) \subseteq Surfaces
  BY FreshPoolType, FS_EmptySet, Sizes DEF TypeOK
<1>2. hand = None
  BY DEF Open, NewSession, ScanoutInv, HandInv
<1>3. CASE Open
  BY <1>1, <1>2, <1>3, Sizes DEF Open, TypeOK, outside, program, kernel
<1>4. CASE NewSession
  BY <1>1, <1>2, <1>4, Sizes DEF NewSession, TypeOK, outside, program, kernel
<1> QED
  BY <1>3, <1>4

LEMMA DecodeTypeOK ==
    ASSUME TypeOK, SendPacket \/ ReadStops \/ Receive \/ Drained
    PROVE  TypeOK'
<1>1. CASE SendPacket
  BY <1>1, Sizes DEF SendPacket, TypeOK, outside, program, kernel
<1>2. CASE ReadStops
  BY <1>2, Sizes DEF ReadStops, TypeOK, outside, program, kernel, decoder
<1>3. CASE Receive
  BY <1>3, Sizes DEF Receive, TypeOK, outside, kernel
<1>4. CASE Drained
  BY <1>4, Sizes DEF Drained, TypeOK, outside, program, kernel, decoder
<1> QED
  BY <1>1, <1>2, <1>3, <1>4

LEMMA ImportTypeOK ==
    ASSUME TypeOK, ScanoutInv,
           LookupFails \/ Lookup \/ ImportObject \/ AddFramebuffer \/ ImportFails
    PROVE  TypeOK'
<1>1. CASE Lookup
  BY <1>1, Sizes DEF Lookup, ChosenPlane, Proceed, Fail, TypeOK, outside, kernel, decoder
<1>2. CASE ImportObject
  <2>1. PICK n \in 0 .. Objects :
          handles = HandlesOf(cache) \cup HudHandles \cup ({hand} \X (1 .. n))
    BY <1>2 DEF ImportObject, ScanoutInv, ImportInv
  <2>2. Cardinality(Imported) = n
    BY <1>2, <2>1, ImportedObjects DEF ImportObject, ScanoutInv
  <2>3. n + 1 \in 1 .. Objects
    BY <1>2, <2>2, Sizes DEF ImportObject
  <2>4. <<hand, n + 1>> \in HandlesOf(Surfaces)
    BY <1>2, <2>3, Sizes DEF ImportObject, ScanoutInv, HandInv, TypeOK, HandlesOf
  <2> QED
    BY <1>2, <2>2, <2>4 DEF ImportObject, TypeOK, outside, program, decoder
<1>3. CASE AddFramebuffer
  <2>1. hand \in Surfaces /\ Cardinality(cache) < CacheSize
    BY <1>3, Sizes DEF AddFramebuffer, ScanoutInv, HandInv, TypeOK, Room
  <2>2. cache \cup {hand} \subseteq Surfaces /\ Cardinality(cache \cup {hand}) <= CacheSize
    <3>1. IsFiniteSet(cache) /\ Cardinality(cache) \in Nat /\ cache \subseteq Surfaces
      BY TableType DEF TypeOK
    <3>2. \/ Cardinality(cache \cup {hand}) = Cardinality(cache)
          \/ Cardinality(cache \cup {hand}) = Cardinality(cache) + 1
      BY <3>1, FS_AddElement
    <3> QED
      BY <2>1, <3>1, <3>2, Sizes
  <2> QED
    BY <1>3, <2>1, <2>2 DEF AddFramebuffer, Proceed, TypeOK, outside, decoder
<1>4. CASE ImportFails
  BY <1>4, Sizes DEF ImportFails, Fail, TypeOK, outside, program, decoder
<1>5. CASE LookupFails
  BY <1>5, Sizes DEF LookupFails, ChosenPlane, Fail, TypeOK, outside, kernel, decoder
<1> QED
  BY <1>1, <1>2, <1>3, <1>4, <1>5

LEMMA CommitTypeOK ==
    ASSUME TypeOK, ScanoutInv,
           PrepareAtomic \/ Retry \/ Skip \/ Commit \/ CommitFails
    PROVE  TypeOK'
<1>1. CASE PrepareAtomic
  BY <1>1 DEF PrepareAtomic, TypeOK, outside, kernel, decoder
<1>2. CASE Retry
  BY <1>2, Sizes DEF Retry, TypeOK, outside, kernel, decoder
<1>3. CASE Skip
  BY <1>3 DEF Skip, TypeOK, outside, program, kernel, decoder
<1>4. CASE Commit
  <2>1. /\ hud' \subseteq {"tried", "handle", "fb", "map"}
        /\ handles' \subseteq HandlesOf(Surfaces) \cup {<<Hud, 1>>}
        /\ fbs' \subseteq Surfaces \cup {Hud}
    BY <1>4 DEF Commit, OpenHud, HudStages, HudHandles, HudBuffers, TypeOK
  <2>2. queued' \in Surfaces \cup {None} /\ screen' \in Surfaces \cup {None}
    BY <1>4 DEF Commit, TypeOK
  <2>3. late' \in 0 .. 2 /\ hand' = None /\ pc' = "receive" /\ last' = "shown"
    BY <1>4 DEF Commit, TypeOK
  <2>4. /\ stopping' \in BOOLEAN /\ healthy' \in BOOLEAN /\ refused' \in BOOLEAN
        /\ plane' \in Planes \cup {None} /\ atomic' \in {"unknown", "ready", "refused"}
        /\ tries' \in 0 .. MaxRetry
        /\ cache' \subseteq Surfaces /\ Cardinality(cache') <= CacheSize
    BY <1>4 DEF Commit, TypeOK
  <2>5. /\ format' \in Formats /\ pool' \subseteq Surfaces
        /\ refs' \subseteq pool' /\ backlog' \subseteq pool'
    BY <1>4 DEF Commit, TypeOK, decoder
  <2> QED
    BY <2>1, <2>2, <2>3, <2>4, <2>5 DEF TypeOK
<1>5. CASE CommitFails
  BY <1>5 DEF CommitFails, Fail, TypeOK, outside, program, kernel, decoder
<1> QED
  BY <1>1, <1>2, <1>3, <1>4, <1>5

LEMMA CloseTypeOK ==
    ASSUME TypeOK, ScanoutInv, PlaneOff \/ Close \/ VBlank \/ Stop \/ Heal
    PROVE  TypeOK'
<1>1. CASE PlaneOff
  BY <1>1 DEF PlaneOff, TakenOff, TypeOK, outside, program, decoder
<1>2. CASE Close
  <2>1. hand = None
    BY <1>2 DEF Close, ScanoutInv, HandInv
  <2>2. /\ queued' = None /\ screen' = None /\ refused' = FALSE
        /\ Cardinality(cache') = 0 /\ tries' = 0
    BY <1>2, FS_EmptySet DEF Close, TakenOff
  <2>3. /\ fbs' \subseteq Surfaces \cup {Hud}
        /\ handles' \subseteq HandlesOf(Surfaces) \cup {<<Hud, 1>>}
    BY <1>2 DEF Close, TypeOK
  <2>4. Cardinality(cache') <= CacheSize /\ tries' \in 0 .. MaxRetry
    BY <2>2, Sizes
  <2>5. /\ pc' = "closed" /\ last' = "none" /\ plane' = None /\ atomic' = "unknown"
        /\ cache' = {} /\ hud' = {} /\ pool' = {} /\ refs' = {} /\ backlog' = {}
        /\ hand' = None
    BY <1>2, <2>1 DEF Close
  <2>6. /\ stopping' \in BOOLEAN /\ healthy' \in BOOLEAN /\ late' \in 0 .. 2
        /\ format' \in Formats
    BY <1>2 DEF Close, TypeOK, outside
  <2> QED
    BY <2>2, <2>3, <2>4, <2>5, <2>6 DEF TypeOK
<1>3. CASE VBlank
  BY <1>3 DEF VBlank, TypeOK, outside, program, decoder
<1>4. CASE Stop
  BY <1>4 DEF Stop, TypeOK, program, kernel, decoder
<1>5. CASE Heal
  BY <1>5 DEF Heal, TypeOK, program, kernel, decoder
<1> QED
  BY <1>1, <1>2, <1>3, <1>4, <1>5

-----------------------------------------------------------------------------
(* The strengthening, one component after the other.                       *)

LEMMA InitInv == Init => ScanoutInv /\ NothingLeaks /\ StopShowsOne
BY Sizes DEF Init, ScanoutInv, PlaneInv, HandInv, ImportInv, StopInv, NothingLeaks,
             StopShowsOne, HandlesOf, HudHandles, HudBuffers

(* Which actions touch the plane, the loop's frame and the commits.        *)
LEMMA NextPlane == ASSUME TypeOK, ScanoutInv, [Next]_vars PROVE PlaneInv'
<1> USE DEF ScanoutInv, PlaneInv
<1>1. CASE Lookup
  <2>1. plane' # None
    BY <1>1, Sizes DEF Lookup, ChosenPlane
  <2> QED
    BY <1>1, <2>1 DEF Lookup, Proceed, Fail, kernel
<1>2. CASE ImportObject \/ AddFramebuffer \/ ImportFails \/ LookupFails
  BY <1>2, Sizes DEF ImportObject, AddFramebuffer, ImportFails, LookupFails, ChosenPlane,
                     Proceed, Fail, program, kernel
<1>3. CASE PrepareAtomic \/ Retry \/ Skip \/ CommitFails
  BY <1>3 DEF PrepareAtomic, Retry, Skip, CommitFails, Fail, kernel, program
<1>4. CASE Commit
  BY <1>4 DEF Commit
<1>5. CASE PlaneOff \/ Close
  BY <1>5 DEF PlaneOff, Close, TakenOff, TypeOK, program
<1>6. CASE VBlank
  BY <1>6 DEF VBlank, program
<1>7. CASE Open \/ NewSession \/ SendPacket \/ ReadStops \/ Receive \/ Drained
  BY <1>7 DEF Open, NewSession, SendPacket, ReadStops, Receive, Drained, program, kernel
<1>8. CASE Stop \/ Heal \/ UNCHANGED vars
  BY <1>8 DEF Stop, Heal, vars, program, kernel
<1> QED
  BY <1>1, <1>2, <1>3, <1>4, <1>5, <1>6, <1>7, <1>8 DEF Next, Run

LEMMA NextHand == ASSUME TypeOK, ScanoutInv, [Next]_vars PROVE HandInv'
<1> USE DEF ScanoutInv, HandInv, Room
<1>1. CASE Lookup
  BY <1>1 DEF Lookup, Proceed, Fail
<1>2. CASE ImportObject \/ AddFramebuffer \/ ImportFails \/ LookupFails
  BY <1>2 DEF ImportObject, AddFramebuffer, ImportFails, LookupFails, Proceed, Fail, program
<1>3. CASE PrepareAtomic \/ Retry \/ Skip \/ Commit \/ CommitFails
  BY <1>3 DEF PrepareAtomic, Retry, Skip, Commit, CommitFails, Fail, program
<1>4. CASE PlaneOff \/ Close
  BY <1>4 DEF PlaneOff, Close, program
<1>5. CASE Receive
  BY <1>5, Sizes DEF Receive, TypeOK
<1>6. CASE Open \/ NewSession \/ SendPacket \/ ReadStops \/ Drained
  BY <1>6 DEF Open, NewSession, SendPacket, ReadStops, Drained, program
<1>7. CASE VBlank \/ Stop \/ Heal \/ UNCHANGED vars
  BY <1>7 DEF VBlank, Stop, Heal, vars, program
<1> QED
  BY <1>1, <1>2, <1>3, <1>4, <1>5, <1>6, <1>7 DEF Next, Run

LEMMA NextStop ==
    ASSUME TypeOK, ScanoutInv, StopShowsOne, [Next]_vars
    PROVE  StopInv' /\ StopShowsOne'
<1> USE DEF ScanoutInv, StopInv, StopShowsOne
<1>1. CASE LookupFails \/ Lookup \/ ImportObject \/ AddFramebuffer \/ ImportFails
  BY <1>1 DEF LookupFails, Lookup, ImportObject, AddFramebuffer, ImportFails, Proceed, Fail,
              outside
<1>2. CASE PrepareAtomic \/ Retry \/ Skip \/ CommitFails
  BY <1>2 DEF PrepareAtomic, Retry, Skip, CommitFails, Fail, outside
<1>3. CASE Commit
  BY <1>3 DEF Commit, TypeOK
<1>4. CASE PlaneOff \/ Close
  BY <1>4 DEF PlaneOff, Close, outside
<1>5. CASE Receive
  BY <1>5 DEF Receive, outside
<1>6. CASE Open \/ NewSession \/ SendPacket \/ ReadStops \/ Drained
  BY <1>6 DEF Open, NewSession, SendPacket, ReadStops, Drained, outside
<1>7. CASE VBlank \/ Stop \/ Heal \/ UNCHANGED vars
  BY <1>7 DEF VBlank, Stop, Heal, vars, outside
<1> QED
  BY <1>1, <1>2, <1>3, <1>4, <1>5, <1>6, <1>7 DEF Next, Run

(* What the kernel holds, and what the presenter's tables say it holds.    *)
LEMMA NextKernel ==
    ASSUME TypeOK, ScanoutInv, NothingLeaks, [Next]_vars
    PROVE  ImportInv' /\ NothingLeaks'
<1> USE DEF NothingLeaks, HudHandles, HudBuffers
<1>1. CASE Lookup
  <2>1. CASE pc' = "import"
    <3>1. {hand} \X (1 .. 0) = {}
      OBVIOUS
    <3>2. UNCHANGED <<cache, hud, handles, fbs, hand>>
      BY <1>1, <2>1 DEF Lookup, Proceed, Fail, kernel
    <3> QED
      BY <1>1, <2>1, <3>1, <3>2, Sizes DEF Lookup, ImportInv, HandlesOf
  <2>2. CASE pc' # "import"
    BY <1>1, <2>2 DEF Lookup, ImportInv, HandlesOf, kernel
  <2> QED
    BY <2>1, <2>2
<1>2. CASE ImportObject
  <2>1. PICK n \in 0 .. Objects :
          handles = HandlesOf(cache) \cup HudHandles \cup ({hand} \X (1 .. n))
    BY <1>2 DEF ImportObject, ScanoutInv, ImportInv
  <2>2. Cardinality(Imported) = n
    BY <1>2, <2>1, ImportedObjects DEF ImportObject, ScanoutInv
  <2>3. n + 1 \in 0 .. Objects /\ {hand} \X (1 .. n + 1) = ({hand} \X (1 .. n)) \cup {<<hand, n + 1>>}
    BY <1>2, <2>2, Sizes DEF ImportObject
  <2>4. handles' = HandlesOf(cache) \cup HudHandles \cup ({hand} \X (1 .. n + 1))
    BY <1>2, <2>1, <2>2, <2>3 DEF ImportObject
  <2> QED
    BY <1>2, <2>3, <2>4 DEF ImportObject, ScanoutInv, ImportInv, HandlesOf, program
<1>3. CASE AddFramebuffer
  <2>1. PICK n \in 0 .. Objects :
          handles = HandlesOf(cache) \cup HudHandles \cup ({hand} \X (1 .. n))
    BY <1>3 DEF AddFramebuffer, ScanoutInv, ImportInv
  <2>2. n = Objects
    BY <1>3, <2>1, ImportedObjects DEF AddFramebuffer, ScanoutInv
  <2>3. HandlesOf(cache \cup {hand}) = HandlesOf(cache) \cup ({hand} \X (1 .. Objects))
    BY DEF HandlesOf
  <2> QED
    BY <1>3, <2>1, <2>2, <2>3 DEF AddFramebuffer, Proceed, ScanoutInv, ImportInv
<1>4. CASE ImportFails
  <2>1. PICK n \in 0 .. Objects :
          handles = HandlesOf(cache) \cup HudHandles \cup ({hand} \X (1 .. n))
    BY <1>4 DEF ImportFails, ScanoutInv, ImportInv
  <2>2. Imported = {hand} \X (1 .. n)
    BY <1>4, <2>1, ImportedObjects DEF ImportFails, ScanoutInv
  <2>3. hand \notin cache /\ hand # Hud
    BY <1>4, Sizes DEF ImportFails, ScanoutInv, HandInv, TypeOK
  <2>4. handles' = HandlesOf(cache) \cup HudHandles
    BY <1>4, <2>1, <2>2, <2>3 DEF ImportFails, HandlesOf
  <2> QED
    BY <1>4, <2>4 DEF ImportFails, Fail, ScanoutInv, ImportInv, HandlesOf, program
<1>5. CASE Commit
  BY <1>5 DEF Commit, OpenHud, HudStages, ImportInv, HandlesOf
<1>6. CASE Close
  BY <1>6 DEF Close, ImportInv, HandlesOf
<1>7. CASE PrepareAtomic \/ Retry \/ Skip \/ CommitFails
  BY <1>7 DEF PrepareAtomic, Retry, Skip, CommitFails, Fail, ImportInv, HandlesOf, kernel, program
<1>8. CASE PlaneOff
  BY <1>8 DEF PlaneOff, ImportInv, HandlesOf, program
<1>9. CASE Open \/ NewSession \/ SendPacket \/ ReadStops \/ Receive \/ Drained
  BY <1>9 DEF Open, NewSession, SendPacket, ReadStops, Receive, Drained, ImportInv, HandlesOf, program, kernel
<1>11. CASE LookupFails
  BY <1>11 DEF LookupFails, Fail, ImportInv, HandlesOf, kernel
<1>10. CASE VBlank \/ Stop \/ Heal \/ UNCHANGED vars
  BY <1>10 DEF VBlank, Stop, Heal, vars, ScanoutInv, ImportInv, HandlesOf, program, kernel
<1> QED
  BY <1>1, <1>2, <1>3, <1>4, <1>5, <1>6, <1>7, <1>8, <1>9, <1>10, <1>11 DEF Next, Run

(* Framebuffers are removed when the context is closed, and only then.     *)
LEMMA NextBacked ==
    ASSUME TypeOK, ScanoutInv, [Next]_vars, {queued, screen} \cap (fbs \ fbs') # {}
    PROVE  refused
<1>1. CASE Close
  <2>1. None \notin fbs
    BY SizesAssumption DEF TypeOK
  <2> QED
    BY <1>1, <2>1 DEF Close, TypeOK, ScanoutInv, PlaneInv
<1>2. CASE Commit
  BY <1>2 DEF Commit, OpenHud
<1>3. CASE PlaneOff \/ VBlank
  BY <1>3 DEF PlaneOff, VBlank
<1>4. CASE LookupFails \/ Lookup \/ ImportObject \/ AddFramebuffer \/ ImportFails
  BY <1>4 DEF LookupFails, Lookup, ImportObject, AddFramebuffer, ImportFails, kernel
<1>5. CASE PrepareAtomic \/ Retry \/ Skip \/ CommitFails
  BY <1>5 DEF PrepareAtomic, Retry, Skip, CommitFails, kernel
<1>6. CASE Open \/ NewSession \/ SendPacket \/ ReadStops \/ Receive \/ Drained
  BY <1>6 DEF Open, NewSession, SendPacket, ReadStops, Receive, Drained, kernel
<1>7. CASE Stop \/ Heal \/ UNCHANGED vars
  BY <1>7 DEF Stop, Heal, vars, kernel
<1> QED
  BY <1>1, <1>2, <1>3, <1>4, <1>5, <1>6, <1>7 DEF Next, Run

LEMMA SafetyInductive ==
    /\ Init => Safety
    /\ Safety /\ [Next]_vars => Safety'
<1>1. Init => Safety
  BY InitTypeOK, InitInv DEF Safety
<1>2. ASSUME Safety, [Next]_vars PROVE TypeOK'
  <2>1. CASE UNCHANGED vars
    BY <1>2, <2>1 DEF Safety, TypeOK, vars, outside, program, kernel, decoder
  <2> QED
    BY <1>2, <2>1, OpenTypeOK, DecodeTypeOK, ImportTypeOK, CommitTypeOK, CloseTypeOK
    DEF Safety, Next, Run
<1>3. ASSUME Safety, [Next]_vars
      PROVE  ScanoutInv' /\ NothingLeaks' /\ StopShowsOne'
  BY <1>3, NextPlane, NextHand, NextKernel, NextStop DEF Safety, ScanoutInv
<1> QED
  BY <1>1, <1>2, <1>3 DEF Safety

LEMMA AlwaysSafety == Spec => []Safety
BY SafetyInductive, PTL DEF Spec

(* Every variable keeps its type; the table of framebuffers stays within   *)
(* its size, whatever formats and sessions the stream goes through.        *)
THEOREM TypeCorrect == Spec => []TypeOK
BY AlwaysSafety, PTL DEF Safety

(* No handle and no framebuffer is lost, whichever call of the kernel      *)
(* failed at whichever object.                                             *)
THEOREM Leakless == Spec => []NothingLeaks
BY AlwaysSafety, PTL DEF Safety

(* Closing removes the framebuffer on screen, or about to be, only where   *)
(* the kernel refused to turn the plane off; nothing else removes one.     *)
THEOREM Backed == Spec => ScanoutBacked
<1>1. Safety /\ [Next]_vars => [{queued, screen} \cap (fbs \ fbs') # {} => refused]_vars
  BY NextBacked DEF Safety
<1> QED
  BY <1>1, AlwaysSafety, PTL DEF Spec, ScanoutBacked

(* After svrt_stop at most the frame in hand is shown.                     *)
THEOREM StopsAfterOne == Spec => []StopShowsOne
BY AlwaysSafety, PTL DEF Safety
=============================================================================
