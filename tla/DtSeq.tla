-------------------------------- MODULE DtSeq -------------------------------
(***************************************************************************)
(* Sequence numbers (dt_mgrthread.c): how a rank's manager makes the       *)
(* transaction ids of requests and, on rank 0, the sequence numbers of     *)
(* thread handles from one counter of Width bits, and finds the request a  *)
(* reply belongs to.  The counter wraps, so the model runs for ever.       *)
(*                                                                         *)
(* A CREATE goes to manager 0, which sends a START and answers CREATED     *)
(* when STARTED comes back; a JOIN is answered at once or waits in         *)
(* manager 0's list as a JOINWAIT.  What these calls do to threads is      *)
(* module Dthread's subject.  Replies arrive in any order.                 *)
(***************************************************************************)
EXTENDS Integers, Sequences, FiniteSets, SequencesExt

CONSTANTS
    WSize,      \* MPI world size
    Width,      \* bits of the counter (32)
    Threads     \* application threads that make calls

ASSUME SeqConstants ==
    /\ WSize \in Nat \ {0} /\ Width \in Nat /\ 2^Width > 2 * WSize
    /\ IsFiniteSet(Threads)

Ranks == 0 .. WSize - 1

VARIABLES
    RankOf,     \* the rank each thread runs on
    seqsrc,     \* per rank: the next sequence number
    rpending,   \* per rank: the manager's list of pending requests
    net,        \* messages on their way
    handle      \* one thread handle: its sequence number, the numbers rank 0
                \* made since, whether a later handle got the same one

vars == <<RankOf, seqsrc, rpending, net, handle>>

\* The sequence numbers of a rank, and how many there are.
SeqsOf(r) == {s \in WSize .. 2^Width - 1 : s % WSize = r}
Period == Cardinality(SeqsOf(0))

\* Mutant: the counter is kept in a variable one bit too narrow.
NarrowNextSeq(r, s) ==
    LET n == (s + WSize) % 2^(Width - 1) IN IF n < s THEN r + WSize ELSE n

\* seqsrc advances by the world size; when that wraps it starts over.
NextSeq(r, s) ==
    LET n == (s + WSize) % 2^Width IN IF n < s THEN r + WSize ELSE n

\* find_pending_req: the place in the list of the first request with this key.
find_pending_req(r, op, seq) ==
    SelectInSeq(rpending[r], LAMBDA q : q.xidseq = seq /\ q.reqop = op)

\* Mutant: a number is given out without a look at the pending list.
AnySeq(r, src, op) == [seq |-> src, src |-> NextSeq(r, src)]

\* get_free_seq: the sequence number given, and the new seqsrc.
get_free_seq(r, src, op) ==
    LET at[k \in 0 .. Period] == IF k = 0 THEN src ELSE NextSeq(r, at[k - 1])
        free(k) == op = "NONE" \/ find_pending_req(r, op, at[k]) = 0
        k == CHOOSE i \in 0 .. Period - 1 : free(i) /\ \A j \in 0 .. i - 1 : ~free(j)
    IN  [seq |-> at[k], src |-> NextSeq(r, at[k])]

\* Rank 0 made n more sequence numbers since the handle that is followed.
Aged(n) ==
    [handle EXCEPT !.age = IF handle.seq = 0 THEN 0
                           ELSE IF @ + n > Period THEN Period ELSE @ + n]

Msg(op, to, seq, who) == [op |-> op, to |-> to, seq |-> seq, who |-> who]
Req(op, seq, who) == [reqop |-> op, xidseq |-> seq, who |-> who,
                      c_peer |-> 0, c_xidseq |-> 0]

Init ==
    /\ RankOf \in [Threads -> Ranks]
    /\ seqsrc = [r \in Ranks |-> r + WSize]     \* dthread_init
    /\ rpending = [r \in Ranks |-> << >>]
    /\ net = {}
    /\ handle = [seq |-> 0, age |-> 0, again |-> FALSE]

Busy(t) == \E i \in DOMAIN rpending[RankOf[t]] :
              /\ rpending[RankOf[t]][i].who = t
              /\ rpending[RankOf[t]][i].reqop \in {"CREATE", "JOIN"}

\* process_req: a request of a local thread gets an id, is sent to manager 0 and
\* waits for its reply.
process_req(t, op) ==
    LET r == RankOf[t]
        g == get_free_seq(r, seqsrc[r], op)
    IN  /\ ~Busy(t)
        /\ seqsrc' = [seqsrc EXCEPT ![r] = g.src]
        /\ rpending' = [rpending EXCEPT ![r] = Append(@, Req(op, g.seq, t))]
        /\ net' = net \cup {Msg(op, 0, g.seq, t)}
        /\ handle' = IF r = 0 THEN Aged(1) ELSE handle

\* CREATE at manager 0: a sequence number for the handle (gtab_alloc), one for
\* the START, which waits for STARTED.
create_thread(m) ==
    LET g == get_free_seq(0, seqsrc[0], "NONE")
        x == get_free_seq(0, g.src, "START")
        q == [Req("START", x.seq, m.who) EXCEPT !.c_peer = RankOf[m.who],
                                                !.c_xidseq = m.seq]
    IN  /\ m.op = "CREATE"
        /\ seqsrc' = [seqsrc EXCEPT ![0] = x.src]
        /\ rpending' = [rpending EXCEPT ![0] = Append(@, q)]
        /\ net' = (net \ {m}) \cup {Msg("STARTED", 0, x.seq, m.who)}
        /\ \/ handle' = IF g.seq = handle.seq THEN [handle EXCEPT !.again = TRUE]
                       ELSE Aged(2)
           \/ handle.seq = 0 /\ handle' = [seq |-> g.seq, age |-> 1, again |-> FALSE]

\* STARTED at manager 0: the CREATE is answered.
Started(m) ==
    LET i == find_pending_req(0, "START", m.seq)
        q == rpending[0][i]
    IN  /\ m.op = "STARTED"
        /\ rpending' = IF i = 0 THEN rpending
                       ELSE [rpending EXCEPT ![0] = RemoveAt(@, i)]
        /\ net' = (net \ {m}) \cup
                  (IF i = 0 THEN {} ELSE {Msg("CREATE_RE", q.c_peer, q.c_xidseq, q.who)})
        /\ UNCHANGED <<seqsrc, handle>>

\* JOIN at manager 0: answered, or the thread still runs and the JOINWAIT
\* keeps the id of the JOIN.
join_thread(m) ==
    /\ m.op = "JOIN"
    /\ \/ /\ net' = (net \ {m}) \cup {Msg("JOIN_RE", RankOf[m.who], m.seq, m.who)}
          /\ UNCHANGED rpending
       \/ /\ net' = net \ {m}
          /\ rpending' = [rpending EXCEPT ![0] = Append(@, Req("JOINWAIT", m.seq, m.who))]
    /\ UNCHANGED <<seqsrc, handle>>

\* The thread waited for terminates: joinwait_end_release.
joinwait_end(i) ==
    LET q == rpending[0][i] IN
    /\ q.reqop = "JOINWAIT"
    /\ rpending' = [rpending EXCEPT ![0] = RemoveAt(@, i)]
    /\ net' = net \cup {Msg("JOIN_RE", RankOf[q.who], q.xidseq, q.who)}
    /\ UNCHANGED <<seqsrc, handle>>

\* The request a reply is for, by its name here (CREATED, JOINED in the code).
Asked(m) == CASE m.op = "CREATE_RE" -> "CREATE" [] m.op = "JOIN_RE" -> "JOIN"
              [] m.op = "STARTED" -> "START" [] OTHER -> "NONE"

\* find_pending_msgreq: a reply releases the request it finds, or is dropped.
Reply(m) ==
    LET i == find_pending_req(m.to, Asked(m), m.seq)
    IN  /\ m.op \in {"CREATE_RE", "JOIN_RE"}
        /\ rpending' = IF i = 0 THEN rpending
                       ELSE [rpending EXCEPT ![m.to] = RemoveAt(@, i)]
        /\ net' = net \ {m}
        /\ UNCHANGED <<seqsrc, handle>>

Steps ==
    \/ \E t \in Threads, op \in {"CREATE", "JOIN"} : process_req(t, op)
    \/ \E m \in net : create_thread(m) \/ Started(m) \/ join_thread(m) \/ Reply(m)
    \/ \E i \in DOMAIN rpending[0] : joinwait_end(i)

Next == Steps /\ UNCHANGED RankOf

Spec == Init /\ [][Next]_vars

-----------------------------------------------------------------------------
\* Every reply finds its own request, however often the counters have wrapped
\* and whatever else is pending: find_pending_req, which stops at the first
\* request with the reply's operation and id, stops at the one that was asked.
ReplyMatches ==
    \A m \in net : Asked(m) # "NONE" =>
        LET i == find_pending_req(m.to, Asked(m), m.seq)
        IN  i # 0 /\ rpending[m.to][i].who = m.who

\* A handle's sequence number comes back only when rank 0 has made all the
\* others in between, less those get_free_seq skipped because a request of
\* another thread was pending under them for a whole lap (its CREATE or JOIN,
\* and its START): a stale handle is told from a new one that long.
HandleFresh ==
    handle.again => handle.age >= Period - 1 - 2 * (Cardinality(Threads) - 1)
=============================================================================
