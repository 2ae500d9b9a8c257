--------------------------- MODULE ThreadTheorems ---------------------------
(***************************************************************************)
(* What is proved of the threads of Dthread, for every number of ranks,    *)
(* slots and calls and every set of faults: ThreadInv of DthreadInv is an  *)
(* invariant, the properties that rest on it hold, and Dthread implements  *)
(* ThreadLife. The steps of the single actions are those of the modules    *)
(* extended here.                                                          *)
(***************************************************************************)
EXTENDS DthreadProofs, CallProofs, ThreadProofs, BirthProofs, LifeRefined,
        FiniteSetTheorems

\* Leaves are for Zenon unless they name another prover.
USE Zenon

-----------------------------------------------------------------------------
(* The count that each manager keeps of its ltab *)

\* Any set of slots is finite.
LEMMA SlotsFinite ==
    ASSUME NEW S \in SUBSET Slots
    PROVE  IsFiniteSet(S) /\ Cardinality(S) \in Nat
<1>1. 0 \in Int /\ NMaxThread - 1 \in Int
  BY NMaxThreadAssumption, SMT
<1>2. IsFiniteSet(Slots)
  BY <1>1, FS_Interval DEF Slots
<1>3. IsFiniteSet(S)
  BY <1>2, FS_Subset
<1> QED
  BY <1>3, FS_CardinalityType

\* ltab_alloc only ever finds an entry without a thread.
LEMMA EntriesFree ==
    ASSUME TypeOK, LtabCounted
    PROVE  FreeEntries
<1> SUFFICES ASSUME NEW r \in Ranks, NEW l \in ltab_alloc(r)
             PROVE  l \in Slots /\ ~InUse(r, l)
  BY DEF FreeEntries
<1>1. CASE mgrstate[r].ltab_alloc = 0
  <2>1. IsFiniteSet(Used(r)) /\ Cardinality(Used(r)) = 0
    BY <1>1, SlotsFinite DEF LtabCounted, Used
  <2>2. Used(r) = {}
    BY <2>1, FS_EmptySet
  <2>3. l = 0
    BY <1>1, NMaxThreadAssumption DEF ltab_alloc
  <2> QED
    BY <2>2, <2>3, ZeroInRange DEF Used
<1>2. CASE mgrstate[r].ltab_alloc # 0
  BY <1>2 DEF ltab_alloc, InUse
<1> QED
  BY <1>1, <1>2

\* One entry is filled, given back or left free, and counted so.
LEMMA CountMove ==
    ASSUME LtabCounted, NEW r \in Ranks, NEW l \in Slots, EntryCounted(r, l)
    PROVE  LtabCounted'
<1>1. \A q \in Ranks : mgrstate[q].ltab_alloc = Cardinality(Used(q))
  BY DEF LtabCounted, Used
<1>2. \A q \in Ranks : q # r => /\ Used(q)' = Used(q)
                                /\ mgrstate'[q].ltab_alloc = mgrstate[q].ltab_alloc
  BY DEF Used, EntryCounted
<1>3. IsFiniteSet(Used(r)) /\ Cardinality(Used(r)) \in Nat
  BY SlotsFinite DEF Used
<1>4. CASE /\ ~InUse(r, l) /\ InUse(r, l)'
           /\ mgrstate'[r].ltab_alloc = mgrstate[r].ltab_alloc + 1
  <2>1. l \notin Used(r) /\ Used(r)' = Used(r) \cup {l}
    BY <1>4 DEF Used, EntryCounted
  <2>2. Cardinality(Used(r) \cup {l}) = Cardinality(Used(r)) + 1
    BY <1>3, <2>1, FS_AddElement
  <2> QED
    BY <1>1, <1>2, <1>4, <2>1, <2>2 DEF LtabCounted, Used
<1>5. CASE /\ InUse(r, l) /\ ~InUse(r, l)'
           /\ mgrstate'[r].ltab_alloc = mgrstate[r].ltab_alloc - 1
  <2>1. l \in Used(r) /\ Used(r)' = Used(r) \ {l}
    BY <1>5 DEF Used, EntryCounted
  <2>2. Cardinality(Used(r) \ {l}) = Cardinality(Used(r)) - 1
    BY <1>3, <2>1, FS_RemoveElement
  <2> QED
    BY <1>1, <1>2, <1>5, <2>1, <2>2, ZenonT(60) DEF LtabCounted, Used
<1>6. CASE /\ ~InUse(r, l) /\ ~InUse(r, l)'
           /\ mgrstate'[r].ltab_alloc = mgrstate[r].ltab_alloc
  <2>1. Used(r)' = Used(r)
    BY <1>6 DEF Used, EntryCounted
  <2> QED
    BY <1>1, <1>2, <1>6, <2>1 DEF LtabCounted, Used
<1> QED
  BY <1>4, <1>5, <1>6 DEF EntryCounted

-----------------------------------------------------------------------------
(* LifeInv is kept *)

\* Application threads.
LEMMA AppStepLife ==
    ASSUME TypeOK, TypeOK', LifeInv, AppKnown', NEW r \in Ranks, NEW l \in Slots,
           AppChoice(r, l) \/ AppStep(r, l)
    PROVE  LifeInv'
BY AppEffect, AppLife, WrapLife

\* Requests of the local threads.
LEMMA RequestLife ==
    ASSUME TypeOK, TypeOK', CallInv, LifeInv, AppKnown', NEW r \in Ranks, MgrRequest(r)
    PROVE  LifeInv'
<1>1. CASE process_req_forward(r)
  BY <1>1, ForwardLife
<1>2. CASE process_req_retclean(r)
  <2>1. \E l \in Slots : EntryCounted(r, l)
    BY <1>2, RetcleanHead, RetcleanCounted
  <2>2. LtabCounted'
    BY <2>1, CountMove DEF LifeInv
  <2> QED
    BY <1>2, <2>2, RetcleanLife
<1>3. CASE process_req_app0_ret(r)
  BY <1>3, ShutdownLife
<1> QED
  BY <1>1, <1>2, <1>3 DEF MgrRequest

\* Messages of other managers.
LEMMA MessageLife ==
    ASSUME TypeOK, TypeOK', HandleInv, CallInv, LifeInv, AppKnown', NEW s \in Ranks,
           NEW r \in Ranks, MgrMessage(s, r)
    PROVE  LifeInv'
<1>1. CASE create_thread(s)
  BY <1>1, CreateLife
<1>2. CASE start_thread(s, r)
  <2>1. FreeEntries
    BY EntriesFree DEF LifeInv
  <2>2. \E l \in Slots : EntryCounted(r, l)
    BY <1>2, <2>1, StartCounted
  <2>3. LtabCounted'
    BY <2>2, CountMove DEF LifeInv
  <2> QED
    BY <1>2, <2>1, <2>3, StartLife
<1>3. CASE ~create_thread(s) /\ ~start_thread(s, r)
  BY <1>3, OldThreadLife
<1> QED
  BY <1>1, <1>2, <1>3

\* Every step keeps LifeInv.
LEMMA LifeStep ==
    ASSUME TypeOK, TypeOK', HandleInv, CallInv, LifeInv, [Next]_vars
    PROVE  LifeInv'
<1>0. AppKnown' /\ 0 \in Ranks
  BY AppKnownStep, ZeroInRange DEF LifeInv
<1>1. ASSUME NEW r \in Ranks, NEW l \in Slots, AppChoice(r, l) \/ AppStep(r, l)
      PROVE  LifeInv'
  BY <1>0, <1>1, AppStepLife
<1>2. ASSUME NEW r \in Ranks, MgrRequest(r) \/ cancel_thread_act(r) \/ mgr_exit(r)
      PROVE  LifeInv'
  BY <1>0, <1>2, RequestLife, CancelActLife, ShutdownLife
<1>3. ASSUME NEW s \in Ranks, NEW r \in Ranks, MgrMessage(s, r)
      PROVE  LifeInv'
  BY <1>0, <1>3, MessageLife
<1>4. CASE idle_shutdown
  BY <1>0, <1>4, ShutdownLife
<1>5. CASE UNCHANGED vars
  BY <1>0, <1>5, StutterLife
<1> QED
  BY <1>1, <1>2, <1>3, <1>4, <1>5 DEF Next

-----------------------------------------------------------------------------
(* Theorems *)

\* HandleInv, the inductive invariant behind the next two theorems: rank 0
\* gives every thread a seq that nothing in the system carries yet, and a
\* joined thread's handle names no slot of gtab.
THEOREM HandlesUsedOnce == Spec => []HandleInv
<1>1. TypeOK /\ TypeOK' /\ HandleInv /\ [Next]_vars => HandleInv'
  BY HandleStep
<1> QED
  BY HandleInit, <1>1, TypeCorrect, PTL DEF Spec

\* A thread is joined with success at most once, however joins, the thread's
\* termination and the reuse of its slot interleave (join_thread,
\* terminated_thread and joinwait_search of dt_mgrthread.c).
THEOREM JoinedOnce == Spec => []JoinOnce
<1>1. HandleInv => JoinOnce
  BY DEF HandleInv
<1> QED
  BY <1>1, HandlesUsedOnce, PTL

\* A handle that has become invalid never becomes valid again: the seq check
\* of dthread_dt2gtab tells the thread it names from every later one that is
\* given the same slot.
THEOREM InvalidForever == Spec => NoHandleRevived
<1>1. TypeOK /\ TypeOK' /\ HandleInv /\ [Next]_vars =>
         [\A h \in known : ~dthread_dt2gtab(h) => ~dthread_dt2gtab(h)']_vars
  BY InvalidStep
<1> QED
  BY <1>1, TypeCorrect, HandlesUsedOnce, PTL DEF Spec, NoHandleRevived

\* Every thread that holds a slot is in at most one place (a START or failed
\* STARTED under way, an ltab entry with its pthread, or a TERMINATED under
\* way), every blocked call is queued or pending once, and handles are used
\* once, whatever the managers, threads and messages do.
THEOREM ThreadsInOnePlace == Spec => []ThreadInv
<1>1. Init => ThreadInv
  <2>1. Cardinality({}) = 0 /\ Cardinality({0}) = 1
    BY FS_EmptySet, FS_Singleton
  <2> QED
    BY <2>1, HandleInit, CallInit, LifeInit DEF ThreadInv
<1>2. TypeOK /\ TypeOK' /\ ThreadInv /\ [Next]_vars => ThreadInv'
  <2> SUFFICES ASSUME TypeOK, TypeOK', ThreadInv, [Next]_vars
               PROVE  ThreadInv'
    BY SMT
  <2>1. HandleInv /\ CallInv /\ LifeInv
    BY DEF ThreadInv
  <2>2. LiveInv /\ FreeEntries
    BY <2>1, EntriesFree DEF LifeInv
  <2>3. HandleInv'
    BY <2>1, HandleStep
  <2>4. CallInv'
    BY <2>1, <2>2, CallStep
  <2>5. LifeInv'
    BY <2>1, LifeStep
  <2> QED
    BY <2>3, <2>4, <2>5 DEF ThreadInv
<1> QED
  BY <1>1, <1>2, TypeCorrect, PTL DEF Spec

\* A pthread's ltab entry belongs to an allocated gtab entry of its own rank
\* and generation, and no two belong to the same one (dthreadwrap's sanity
\* checks of ltab against gtab never fail).
THEOREM TablesAgree == Spec => []LtabGtabAgree
<1>1. TypeOK /\ ThreadInv => LtabGtabAgree
  BY TablesFollow
<1> QED
  BY <1>1, TypeCorrect, ThreadsInOnePlace, PTL

\* A TERMINATED under way names a slot that still is that thread's and is tied
\* to no ltab entry or pthread (process_req_retclean unhooks before it sends).
THEOREM TerminatedIsUnhooked == Spec => []UnhookedBeforeTerminated
<1>1. ThreadInv => UnhookedBeforeTerminated
  BY UnhookedFollows
<1> QED
  BY <1>1, ThreadsInOnePlace, PTL

\* A join that waits has a thread to wait for, which is not detached and has
\* not ended, and is the only one to wait for it (join_thread, detach_thread,
\* terminated_thread and process_started together).
THEOREM WaitingJoinHasThread == Spec => []JoinWaitHasFuture
<1>1. ThreadInv => JoinWaitHasFuture
  BY DEF ThreadInv, LifeInv
<1> QED
  BY <1>1, ThreadsInOnePlace, PTL

\* gtab_free is only applied to a thread whose pthread is gone: "caller should
\* ensure that the thread is no longer running" (dt_mgrthread.c), and
\* process_started, join_thread and terminated_thread do.
THEOREM FreedThreadIsDead == Spec => FreeOnlyDead
<1>1. TypeOK /\ ThreadInv' /\ [Next]_vars =>
        [\A g \in Slots : gtab[g].allocated /\ ~gtab'[g].allocated =>
            \A r \in Ranks, l \in Slots :
                ~(Lives(r, l) /\ ltab[r][l].gtab_idx = g)]_vars
  BY FreedDead
<1> QED
  BY <1>1, TypeCorrect, ThreadsInOnePlace, PTL DEF Spec, FreeOnlyDead

\* dthreads keep what they promise: the managers, their tables and messages
\* implement ThreadLife, in which a thread has a new handle, ends once and is
\* released once.
THEOREM ThreadsLive == Spec => ThreadLives
<1>1. Init => Life!Init
  BY InitRefines
<1>2. TypeOK /\ TypeOK' /\ ThreadInv /\ [Next]_vars => [Life!Next]_(Life!vars)
  BY StepRefines DEF ThreadInv
<1> QED
  BY <1>1, <1>2, TypeCorrect, ThreadsInOnePlace, PTL DEF Spec, ThreadLives, Life!Spec
=============================================================================
