----------------------------- MODULE LifeProofs ------------------------------
(***************************************************************************)
(* Proofs that a thread is in one place at a time, from create_thread to   *)
(* the moment its slot of gtab is freed: what a step may do to messages,   *)
(* requests, slots and pthreads so that LifeInv of DthreadInv is kept.     *)
(***************************************************************************)
EXTENDS DthreadLemmas

\* Leaves are for Zenon unless they name another prover.
USE Zenon

-----------------------------------------------------------------------------
(* What a step does to the messages under way *)

\* A message that says nothing of where a thread is or of which one is meant.
Quiet(m) ==
    \/ m.op \in {"CREATE", "BCASTSHUTDOWN", "DETACHED", "CANCELED", "JOINED"}
    \/ m.op = "CREATED" /\ m.errstatus # "OK"

\* n2 is n1 with messages added behind: quiet ones, and m last from a to b.
Extends(n1, n2, a, b, m) ==
    \A s, d \in Ranks :
        /\ Len(n1[s][d]) <= Len(n2[s][d])
        /\ \A i \in 1 .. Len(n2[s][d]) :
              \/ i <= Len(n1[s][d]) /\ n2[s][d][i] = n1[s][d][i]
              \/ /\ i > Len(n1[s][d])
                 /\ \/ Quiet(n2[s][d][i])
                    \/ s = a /\ d = b /\ i = Len(n2[s][d]) /\ n2[s][d][i] = m

NetMove(ts, tr, k, a, b, m) ==
    \A s, d \in Ranks :
        /\ Cut(ts, tr, k, s, d) <= Len(net[s][d])
        /\ Len(net[s][d]) - Cut(ts, tr, k, s, d) <= Len(net'[s][d])
        /\ \A i \in 1 .. Len(net'[s][d]) :
              \/ /\ i <= Len(net[s][d]) - Cut(ts, tr, k, s, d)
                 /\ net'[s][d][i] = net[s][d][i + Cut(ts, tr, k, s, d)]
              \/ /\ i > Len(net[s][d]) - Cut(ts, tr, k, s, d)
                 /\ \/ Quiet(net'[s][d][i])
                    \/ s = a /\ d = b /\ i = Len(net'[s][d]) /\ net'[s][d][i] = m

\* dtq_send_enqueue adds its message behind the others, or nothing.
LEMMA SendExtends ==
    ASSUME NEW n \in Net, NEW r \in Ranks, NEW to \in Ranks, NEW m \in Msg
    PROVE  Extends(n, dtq_send_enqueue(n, r, to, m), r, to, m)
<1> DEFINE n2 == dtq_send_enqueue(n, r, to, m)
<1>1. CASE draining(r)
  BY <1>1, SMT DEF dtq_send_enqueue, Extends, Net
<1>2. CASE ~draining(r)
  <2> SUFFICES ASSUME NEW s \in Ranks, NEW d \in Ranks
               PROVE  /\ Len(n[s][d]) <= Len(n2[s][d])
                      /\ \A i \in 1 .. Len(n2[s][d]) :
                            \/ i <= Len(n[s][d]) /\ n2[s][d][i] = n[s][d][i]
                            \/ /\ i > Len(n[s][d])
                               /\ s = r /\ d = to /\ i = Len(n2[s][d])
                               /\ n2[s][d][i] = m
    BY SMT DEF Extends
  <2> n[s][d] \in Seq(Msg)
    BY SMT DEF Net
  <2>1. CASE s = r /\ d = to
    <3>1. n2[s][d] = Append(n[s][d], m)
      BY <1>2, <2>1, SMT DEF dtq_send_enqueue, Net
    <3> HIDE DEF n2
    <3> QED
      BY <2>1, <3>1, SMT
  <2>2. CASE ~(s = r /\ d = to)
    <3>1. n2[s][d] = n[s][d]
      BY <1>2, <2>2, SMT DEF dtq_send_enqueue, Net
    <3> HIDE DEF n2
    <3> QED
      BY <3>1, SMT
  <2> QED
    BY <2>1, <2>2
<1> QED
  BY <1>1, <1>2

\* Only sends.
LEMMA SentMove ==
    ASSUME net \in Net, NEW a, NEW b, NEW m, Extends(net, net', a, b, m)
    PROVE  NetMove(0, 0, 0, a, b, m)
BY SMT DEF Extends, NetMove, Cut, Net

\* Taking a message, then sends.
LEMMA TakenMove ==
    ASSUME net \in Net, NEW s \in Ranks, NEW r \in Ranks, net[s][r] # <<>>,
           NEW a, NEW b, NEW m, Extends(Received(s, r), net', a, b, m)
    PROVE  NetMove(s, r, 1, a, b, m)
<1> DEFINE n == Received(s, r)
<1> SUFFICES ASSUME NEW t \in Ranks, NEW d \in Ranks
             PROVE  /\ Cut(s, r, 1, t, d) <= Len(net[t][d])
                    /\ Len(net[t][d]) - Cut(s, r, 1, t, d) <= Len(net'[t][d])
                    /\ \A i \in 1 .. Len(net'[t][d]) :
                          \/ /\ i <= Len(net[t][d]) - Cut(s, r, 1, t, d)
                             /\ net'[t][d][i] = net[t][d][i + Cut(s, r, 1, t, d)]
                          \/ /\ i > Len(net[t][d]) - Cut(s, r, 1, t, d)
                             /\ \/ Quiet(net'[t][d][i])
                                \/ /\ t = a /\ d = b /\ i = Len(net'[t][d])
                                   /\ net'[t][d][i] = m
  BY DEF NetMove
<1>1. /\ net[t][d] \in Seq(Msg)
      /\ Len(n[t][d]) <= Len(net'[t][d])
      /\ \A i \in 1 .. Len(net'[t][d]) :
            \/ i <= Len(n[t][d]) /\ net'[t][d][i] = n[t][d][i]
            \/ /\ i > Len(n[t][d])
               /\ \/ Quiet(net'[t][d][i])
                  \/ t = a /\ d = b /\ i = Len(net'[t][d]) /\ net'[t][d][i] = m
  BY DEF Extends, Net
<1>2. CASE t = s /\ d = r
  <2>1. n[t][d] = Tail(net[t][d])
    BY <1>2, SMT DEF Received, Net
  <2>2. Len(net[t][d]) >= 1 /\ Len(n[t][d]) = Len(net[t][d]) - 1
    BY <1>1, <1>2, <2>1, SMT
  <2>3. \A i \in 1 .. Len(n[t][d]) : n[t][d][i] = net[t][d][i + 1]
    BY <1>1, <1>2, <2>1, <2>2, SMT
  <2> HIDE DEF n
  <2> QED
    BY <1>1, <1>2, <2>2, <2>3, SMT DEF Cut
<1>3. CASE ~(t = s /\ d = r)
  <2>1. n[t][d] = net[t][d] /\ Cut(s, r, 1, t, d) = 0
    BY <1>3, SMT DEF Received, Net, Cut
  <2>2. Len(net[t][d]) \in Nat /\ \A i \in Int : i + 0 = i
    BY <1>1, SMT
  <2> HIDE DEF n
  <2> QED
    BY <1>1, <2>1, <2>2, SMT
<1> QED
  BY <1>2, <1>3

-----------------------------------------------------------------------------
(* What is left of the invariants when messages come and go *)

\* Quiet messages say nothing of where a thread is.
LEMMA QuietAlone ==
    ASSUME NEW m, NEW n, Quiet(m)
    PROVE  ~Exclusive(m, n) /\ ~Exclusive(n, m)
BY SMT DEF Quiet, Exclusive

\* A message of net' at i remains from net, or is quiet, or is m.
Moved(ts, tr, k, a, b, m) ==
    \A s, d \in Ranks : \A i \in 1 .. Len(net'[s][d]) :
        \/ /\ i + Cut(ts, tr, k, s, d) \in 1 .. Len(net[s][d])
           /\ net'[s][d][i] = net[s][d][i + Cut(ts, tr, k, s, d)]
           /\ Remains(ts, tr, k, s, d, net'[s][d][i])
        \/ Quiet(net'[s][d][i])
        \/ s = a /\ d = b /\ i = Len(net'[s][d]) /\ net'[s][d][i] = m

\* Every message of net' is one of these.
LEMMA MovedMessage ==
    ASSUME net \in Net, net' \in Net, NEW ts, NEW tr, NEW k \in {0, 1},
           NEW a, NEW b, NEW m, NetMove(ts, tr, k, a, b, m)
    PROVE  Moved(ts, tr, k, a, b, m)
<1> SUFFICES ASSUME NEW s \in Ranks, NEW d \in Ranks, NEW i \in 1 .. Len(net'[s][d])
             PROVE  \/ /\ i + Cut(ts, tr, k, s, d) \in 1 .. Len(net[s][d])
                       /\ net'[s][d][i] = net[s][d][i + Cut(ts, tr, k, s, d)]
                       /\ Remains(ts, tr, k, s, d, net'[s][d][i])
                    \/ Quiet(net'[s][d][i])
                    \/ s = a /\ d = b /\ i = Len(net'[s][d]) /\ net'[s][d][i] = m
  BY DEF Moved
<1>x. PICK x : x = net'[s][d][i]
  BY SMT
<1>0. PICK c : c = Cut(ts, tr, k, s, d)
  BY SMT
<1>1. c \in {0, 1} /\ Len(net[s][d]) \in Nat /\ Len(net'[s][d]) \in Nat
  BY <1>0, SMT DEF Cut, Net
<1>2. /\ c <= Len(net[s][d]) /\ Len(net[s][d]) - c <= Len(net'[s][d])
      /\ \/ i <= Len(net[s][d]) - c /\ x = net[s][d][i + c]
         \/ /\ i > Len(net[s][d]) - c
            /\ \/ Quiet(x)
               \/ s = a /\ d = b /\ i = Len(net'[s][d]) /\ x = m
  BY <1>0, <1>x DEF NetMove
<1>3. CASE i <= Len(net[s][d]) - c /\ x = net[s][d][i + c]
  <2>1. i + c \in 1 .. Len(net[s][d]) /\ i + c > c
    BY <1>1, <1>2, <1>3, SMT
  <2>2. Remains(ts, tr, k, s, d, x)
    BY <1>0, <1>3, <2>1 DEF Remains
  <2> QED
    BY <1>0, <1>x, <1>3, <2>1, <2>2
<1> QED
  BY <1>x, <1>2, <1>3

\* A step that adds nothing that excludes a message which remains keeps OnePlace.
LEMMA OnePlaceMove ==
    ASSUME net \in Net, net' \in Net, OnePlace, NEW ts, NEW tr, NEW k \in {0, 1},
           NEW a, NEW b, NEW m, NetMove(ts, tr, k, a, b, m),
           \A s, d \in Ranks : \A n : Remains(ts, tr, k, s, d, n)
               => ~Exclusive(m, n) /\ ~Exclusive(n, m)
    PROVE  OnePlace'
<1> SUFFICES ASSUME NEW s \in Ranks, NEW d \in Ranks, NEW t \in Ranks, NEW e \in Ranks,
                    NEW i \in 1 .. Len(net'[s][d]), NEW j \in 1 .. Len(net'[t][e]),
                    Exclusive(net'[s][d][i], net'[t][e][j])
             PROVE  s = t /\ d = e /\ i = j
  BY DEF OnePlace, Exclusive
<1>m. Moved(ts, tr, k, a, b, m)
  BY MovedMessage
<1>0. PICK x, y : x = net'[s][d][i] /\ y = net'[t][e][j] /\ Exclusive(x, y)
  OBVIOUS
<1> DEFINE c == Cut(ts, tr, k, s, d)
           f == Cut(ts, tr, k, t, e)
<1>1. \/ /\ i + c \in 1 .. Len(net[s][d]) /\ x = net[s][d][i + c]
         /\ Remains(ts, tr, k, s, d, x)
      \/ Quiet(x)
      \/ s = a /\ d = b /\ i = Len(net'[s][d]) /\ x = m
  BY <1>0, <1>m, SMT DEF Moved
<1>2. \/ /\ j + f \in 1 .. Len(net[t][e]) /\ y = net[t][e][j + f]
         /\ Remains(ts, tr, k, t, e, y)
      \/ Quiet(y)
      \/ t = a /\ e = b /\ j = Len(net'[t][e]) /\ y = m
  BY <1>0, <1>m, SMT DEF Moved
<1>3. ~Quiet(x) /\ ~Quiet(y)
  BY <1>0, QuietAlone
<1>4. c \in {0, 1} /\ f \in {0, 1} /\ (s = t /\ d = e => c = f)
  BY DEF Cut
<1>5. CASE /\ i + c \in 1 .. Len(net[s][d]) /\ x = net[s][d][i + c]
           /\ j + f \in 1 .. Len(net[t][e]) /\ y = net[t][e][j + f]
  <2>1. Exclusive(net[s][d][i + c], net[t][e][j + f])
    BY <1>0, <1>5
  <2> HIDE DEF c, f
  <2>2. s = t /\ d = e /\ i + c = j + f
    BY <1>5, <2>1, SMTT(20) DEF OnePlace
  <2> QED
    BY <1>4, <2>2, SMT
<1>6. CASE x = m /\ y = m /\ s = a /\ d = b /\ t = a /\ e = b
           /\ i = Len(net'[s][d]) /\ j = Len(net'[t][e])
  BY <1>6
<1>7. CASE Remains(ts, tr, k, s, d, x) /\ y = m
  BY <1>0, <1>7
<1>8. CASE x = m /\ Remains(ts, tr, k, t, e, y)
  BY <1>0, <1>8, SMT
<1> HIDE DEF c, f
<1> QED
  BY <1>1, <1>2, <1>3, <1>5, <1>6, <1>7, <1>8

\* A message that says nothing of where a thread is before its end.
Still(m) == m.op \notin {"START", "STARTED", "TERMINATED"}

\* What remains, and what is new, says where its thread is.
LEMMA TransitMove ==
    ASSUME net \in Net, net' \in Net, NEW ts, NEW tr, NEW k \in {0, 1},
           NEW a, NEW b, NEW m, NetMove(ts, tr, k, a, b, m),
           \A s, d \in Ranks : \A n : Remains(ts, tr, k, s, d, n) => InTransit(s, d, n)',
           Still(m) \/ InTransit(a, b, m)'
    PROVE  TransitInv'
<1> SUFFICES ASSUME NEW s \in Ranks, NEW d \in Ranks, NEW i \in 1 .. Len(net'[s][d]),
                    NEW x, x = net'[s][d][i]
             PROVE  InTransit(s, d, x)'
  BY SMT DEF TransitInv
<1>1. Still(x) => InTransit(s, d, x)'
  BY DEF Still, InTransit
<1>2. Quiet(x) => Still(x)
  BY DEF Still, Quiet
<1>3. Remains(ts, tr, k, s, d, x) \/ Quiet(x) \/ (s = a /\ d = b /\ x = m)
  <2>1. Moved(ts, tr, k, a, b, m)
    BY MovedMessage
  <2> QED
    BY <2>1, SMT DEF Moved
<1> QED
  BY <1>1, <1>2, <1>3

\* A message that is not taken moves up by the cut.
Shifts(ts, tr, k) ==
    \A s, d \in Ranks : \A i \in 1 .. Len(net[s][d]) :
        ~(k = 1 /\ ts = s /\ tr = d /\ i = 1) =>
            /\ i - Cut(ts, tr, k, s, d) \in 1 .. Len(net'[s][d])
            /\ net'[s][d][i - Cut(ts, tr, k, s, d)] = net[s][d][i]

\* A step that takes at most the first message of a queue shifts the others.
LEMMA MessageShift ==
    ASSUME net \in Net, net' \in Net, NEW ts, NEW tr, NEW k \in {0, 1}, NEW a, NEW b,
           NEW m, NetMove(ts, tr, k, a, b, m)
    PROVE  Shifts(ts, tr, k)
<1> SUFFICES ASSUME NEW s \in Ranks, NEW d \in Ranks, NEW i \in 1 .. Len(net[s][d]),
                    ~(k = 1 /\ ts = s /\ tr = d /\ i = 1)
             PROVE  /\ i - Cut(ts, tr, k, s, d) \in 1 .. Len(net'[s][d])
                    /\ net'[s][d][i - Cut(ts, tr, k, s, d)] = net[s][d][i]
  BY DEF Shifts
<1> DEFINE c == Cut(ts, tr, k, s, d)
<1>1. c \in {0, 1} /\ Len(net[s][d]) \in Nat /\ Len(net'[s][d]) \in Nat
  BY SMT DEF Cut, Net
<1>2. ~(c = 1 /\ i = 1)
  BY <1>1, SMT DEF Cut
<1>3. /\ c <= Len(net[s][d]) /\ Len(net[s][d]) - c <= Len(net'[s][d])
      /\ \A j \in 1 .. Len(net'[s][d]) :
            j <= Len(net[s][d]) - c => net'[s][d][j] = net[s][d][j + c]
  BY <1>1, SMT DEF NetMove
<1> HIDE DEF c
<1>4. i - c \in 1 .. Len(net'[s][d]) /\ i - c <= Len(net[s][d]) - c /\ (i - c) + c = i
  BY <1>1, <1>2, <1>3, SMTT(20)
<1> QED
  BY <1>3, <1>4 DEF c

\* StartedFirst for the START request p.
StartedFor(p) ==
    /\ \A s \in Ranks : \A j \in 1 .. Len(net[s][0]) :
          net[s][0][j].op = "TERMINATED" /\ net[s][0][j].thread = p.thread
              => \E i \in 1 .. j - 1 : /\ net[s][0][i].op = "STARTED"
                                       /\ net[s][0][i].xid = p.xid
    /\ \A r \in Ranks, l \in Slots :
          Lives(r, l) /\ HandleOf(r, l) = p.thread /\ ~draining(r)
              => \E i \in 1 .. Len(net[r][0]) :
                    net[r][0][i].op = "STARTED" /\ net[r][0][i].xid = p.xid

\* A step that takes no STARTED for p keeps the order of messages about p.
LEMMA StartedForMove ==
    ASSUME net \in Net, net' \in Net, NEW p, StartedFor(p), NEW ts, NEW tr,
           NEW k \in {0, 1}, NEW a, NEW b, NEW m, NetMove(ts, tr, k, a, b, m),
           m.op = "TERMINATED" /\ m.thread = p.thread /\ b = 0
               => \E i \in 1 .. Len(net'[a][0]) - 1 :
                     net'[a][0][i].op = "STARTED" /\ net'[a][0][i].xid = p.xid,
           k = 1 /\ tr = 0 =>
               ~(net[ts][tr][1].op = "STARTED" /\ net[ts][tr][1].xid = p.xid),
           \A r \in Ranks, l \in Slots :
               Lives(r, l)' /\ HandleOf(r, l)' = p.thread /\ ~draining(r)' =>
                   \/ Lives(r, l) /\ HandleOf(r, l) = p.thread /\ ~draining(r)
                   \/ \E i \in 1 .. Len(net'[r][0]) :
                         net'[r][0][i].op = "STARTED" /\ net'[r][0][i].xid = p.xid
    PROVE  StartedFor(p)'
<1> 0 \in Ranks
  BY ZeroInRange
<1>m. Moved(ts, tr, k, a, b, m)
  BY MovedMessage
<1>s. Shifts(ts, tr, k)
  BY MessageShift
<1>2. ASSUME NEW s \in Ranks, NEW i \in 1 .. Len(net[s][0]),
             net[s][0][i].op = "STARTED", net[s][0][i].xid = p.xid
      PROVE  /\ i - Cut(ts, tr, k, s, 0) \in 1 .. Len(net'[s][0])
             /\ net'[s][0][i - Cut(ts, tr, k, s, 0)] = net[s][0][i]
  <2>1. ~(k = 1 /\ ts = s /\ tr = 0 /\ i = 1)
    BY <1>2
  <2> QED
    BY <1>s, <2>1 DEF Shifts
<1>3. ASSUME NEW s \in Ranks, NEW j \in 1 .. Len(net'[s][0]),
             net'[s][0][j].op = "TERMINATED", net'[s][0][j].thread = p.thread
      PROVE  \E i \in 1 .. j - 1 : /\ net'[s][0][i].op = "STARTED"
                                   /\ net'[s][0][i].xid = p.xid
  <2> DEFINE c == Cut(ts, tr, k, s, 0)
  <2>0. c \in {0, 1}
    BY DEF Cut
  <2>1. \/ j + c \in 1 .. Len(net[s][0]) /\ net'[s][0][j] = net[s][0][j + c]
        \/ s = a /\ 0 = b /\ j = Len(net'[s][0]) /\ net'[s][0][j] = m
    <3>1. ~Quiet(net'[s][0][j])
      BY <1>3 DEF Quiet
    <3> QED
      BY <1>3, <1>m, <3>1 DEF Moved
  <2>2. CASE s = a /\ 0 = b /\ j = Len(net'[s][0]) /\ net'[s][0][j] = m
    BY <1>3, <2>2, SMT
  <2>3. CASE j + c \in 1 .. Len(net[s][0]) /\ net'[s][0][j] = net[s][0][j + c]
    <3> HIDE DEF c
    <3>2. PICK i \in 1 .. (j + c) - 1 : /\ net[s][0][i].op = "STARTED"
                                        /\ net[s][0][i].xid = p.xid
      <4>1. net[s][0][j + c].op = "TERMINATED" /\ net[s][0][j + c].thread = p.thread
        BY <1>3, <2>3
      <4> QED
        BY <2>3, <4>1 DEF StartedFor
    <3>3. i \in 1 .. Len(net[s][0])
      BY <2>0, <2>3, <3>2, SMT DEF Net
    <3>4. i - c \in 1 .. Len(net'[s][0]) /\ net'[s][0][i - c] = net[s][0][i]
      BY <1>2, <3>2, <3>3 DEF c
    <3>5. i - c \in 1 .. j - 1
      BY <2>0, <3>2, <3>4, SMT DEF Net
    <3> QED
      BY <3>2, <3>4, <3>5
  <2> QED
    BY <2>1, <2>2, <2>3
<1>4. ASSUME NEW r \in Ranks, NEW l \in Slots, Lives(r, l)', HandleOf(r, l)' = p.thread,
             ~draining(r)'
      PROVE  \E i \in 1 .. Len(net'[r][0]) :
                net'[r][0][i].op = "STARTED" /\ net'[r][0][i].xid = p.xid
  <2> SUFFICES ASSUME Lives(r, l), HandleOf(r, l) = p.thread, ~draining(r)
               PROVE  \E i \in 1 .. Len(net'[r][0]) :
                         net'[r][0][i].op = "STARTED" /\ net'[r][0][i].xid = p.xid
    BY <1>4
  <2>1. PICK i \in 1 .. Len(net[r][0]) :
              net[r][0][i].op = "STARTED" /\ net[r][0][i].xid = p.xid
    BY DEF StartedFor
  <2> QED
    BY <1>2, <2>1, SMTT(20)
<1> QED
  BY <1>3, <1>4 DEF StartedFor

\* A step that starts nobody and takes no STARTED that someone waits for.
LEMMA StartedMove ==
    ASSUME net \in Net, net' \in Net, StartedFirst, NEW ts, NEW tr, NEW k \in {0, 1},
           NEW a, NEW b, NEW m, NetMove(ts, tr, k, a, b, m), m.op # "TERMINATED",
           \A p : StartPending(p)' =>
               /\ StartPending(p)
               /\ k = 1 /\ tr = 0 =>
                     ~(net[ts][tr][1].op = "STARTED" /\ net[ts][tr][1].xid = p.xid),
           \A r \in Ranks, l \in Slots : Lives(r, l)' =>
               /\ Lives(r, l)
               /\ ltab'[r][l].gtab_idx = ltab[r][l].gtab_idx
               /\ ltab'[r][l].seq = ltab[r][l].seq,
           \A r \in Ranks : draining(r) => draining(r)'
    PROVE  StartedFirst'
<1> SUFFICES ASSUME NEW p, StartPending(p)'
             PROVE  StartedFor(p)'
  BY DEF StartedFirst, StartPending, StartedFor
<1>1. StartedFor(p)
  BY DEF StartedFirst, StartPending, StartedFor
<1>2. \A r \in Ranks, l \in Slots :
          Lives(r, l)' /\ HandleOf(r, l)' = p.thread /\ ~draining(r)' =>
              Lives(r, l) /\ HandleOf(r, l) = p.thread /\ ~draining(r)
  BY DEF HandleOf
<1>3. k = 1 /\ tr = 0 =>
          ~(net[ts][tr][1].op = "STARTED" /\ net[ts][tr][1].xid = p.xid)
  OBVIOUS
<1> QED
  BY <1>1, <1>2, <1>3, StartedForMove

-----------------------------------------------------------------------------
(* What is under way, when a slot is freed or a thread gets its pthread *)

Traffic == StartInv /\ TransitInv /\ OnePlace /\ StartedFirst

\* No slot but w gets an ltab entry or a pthread.
SameHooks(w) ==
    /\ \A g \in Slots : g # w /\ gtab'[g].has_ltab => gtab[g].has_ltab
    /\ \A r \in Ranks, l \in Slots : Lives(r, l)' =>
          \/ ltab'[r][l].gtab_idx = w
          \/ Lives(r, l) /\ ltab'[r][l].gtab_idx = ltab[r][l].gtab_idx

\* Every pthread was there before.
SameLives ==
    \A r \in Ranks, l \in Slots : Lives(r, l)' =>
        /\ Lives(r, l)
        /\ ltab'[r][l].gtab_idx = ltab[r][l].gtab_idx
        /\ ltab'[r][l].seq = ltab[r][l].seq

\* The START requests stay, except those of x.
StartsKept(x) == \A p : StartPending(p) /\ p.xid # x => StartPending(p)'

DrainsOn == \A r \in Ranks : draining(r) => draining(r)'

\* What remains is not about slot f, slot w, START x or a newly known thread.
Clear(ts, tr, k, f, w, x) ==
    \A s, d \in Ranks : \A n : Remains(ts, tr, k, s, d, n) =>
        /\ n.op \in {"START", "TERMINATED"} => n.thread.idx \notin {f, w}
        /\ n.op \in {"START", "STARTED"} => n.xid # x
        /\ Waiting(n) => /\ \A p : StartPending(p) /\ p.xid = n.xid
                                     => p.thread.idx \notin {f, w}
                         /\ \A h \in known' : h \in known \/ n.xid # h.seq + NRanks

\* A thread without a pthread stays so when its slot is neither f nor w.
LEMMA UnhookedKept ==
    ASSUME NEW f, NEW w, SameSlots(f), SameHooks(w), NEW h, h.idx \notin {f, w},
           Unhooked(h)
    PROVE  Unhooked(h)' /\ gtab'[h.idx].rank = gtab[h.idx].rank
<1> h.idx \in Slots
  BY SMT DEF Unhooked, Unended, dthread_dt2gtab
<1>2. Unended(h)' /\ gtab'[h.idx].rank = gtab[h.idx].rank
  BY DEF Unhooked, Unended, dthread_dt2gtab, SameSlots
<1>3. ~gtab'[h.idx].has_ltab
  BY DEF Unhooked, SameHooks
<1>4. \A r \in Ranks, l \in Slots : Lives(r, l)' => ltab'[r][l].gtab_idx # h.idx
  BY SMT DEF Unhooked, SameHooks
<1> QED
  BY <1>2, <1>3, <1>4 DEF Unhooked

\* What remains still says where its thread is.
LEMMA TransitKept ==
    ASSUME StartInv, TransitInv, NEW ts, NEW tr, NEW k, NEW f, NEW w, NEW x,
           SameSlots(f), SameHooks(w), StartsKept(x), Clear(ts, tr, k, f, w, x)
    PROVE  \A s, d \in Ranks : \A n : Remains(ts, tr, k, s, d, n) => InTransit(s, d, n)'
<1> SUFFICES ASSUME NEW s \in Ranks, NEW d \in Ranks, NEW n, Remains(ts, tr, k, s, d, n)
             PROVE  InTransit(s, d, n)'
  BY SMT
<1>1. InTransit(s, d, n)
  BY RemainsInTransit, SMT
<1>2. /\ n.op \in {"START", "TERMINATED"} => n.thread.idx \notin {f, w}
      /\ n.op \in {"START", "STARTED"} => n.xid # x
      /\ Waiting(n) => /\ \A p : StartPending(p) /\ p.xid = n.xid
                                   => p.thread.idx \notin {f, w}
                       /\ \A h \in known' : h \in known \/ n.xid # h.seq + NRanks
  BY DEF Clear
<1>3. ASSUME NEW p, StartPending(p), p.xid = n.xid, n.op \in {"START", "STARTED"}
      PROVE  /\ StartPending(p)'
             /\ Waiting(n) /\ p.thread \notin known => p.thread \notin known'
  <2>1. p.xid = p.thread.seq + NRanks
    BY <1>3 DEF StartInv, StartPending
  <2> QED
    BY <1>2, <1>3, <2>1 DEF StartsKept
<1>4. CASE n.op = "START"
  <2>1. PICK p \in rpending[0] : p.op = "START" /\ p.xid = n.xid /\ p.thread = n.thread
    BY <1>1, <1>4 DEF InTransit
  <2>2. /\ s = 0 /\ Unhooked(n.thread) /\ gtab[n.thread.idx].rank = d
        /\ n.thread \notin known
    BY <1>1, <1>4 DEF InTransit
  <2>3. StartPending(p)' /\ n.thread \notin known'
    BY <1>3, <1>4, <2>1, <2>2 DEF StartPending, Waiting
  <2>4. Unhooked(n.thread)' /\ gtab'[n.thread.idx].rank = d
    BY <1>2, <1>4, <2>2, UnhookedKept, SMT
  <2> QED
    BY <1>4, <2>1, <2>2, <2>3, <2>4 DEF InTransit, StartPending
<1>5. CASE n.op = "STARTED"
  <2>1. PICK p \in rpending[0] :
            /\ p.op = "START" /\ p.xid = n.xid
            /\ n.errstatus # "OK" => Unhooked(p.thread) /\ p.thread \notin known
    BY <1>1, <1>5 DEF InTransit
  <2>2. StartPending(p)'
    BY <1>3, <1>5, <2>1 DEF StartPending
  <2>3. n.errstatus # "OK" => p.thread.idx \notin {f, w} /\ p.thread \notin known'
    BY <1>2, <1>3, <1>5, <2>1 DEF Waiting, StartPending
  <2>4. n.errstatus # "OK" => Unhooked(p.thread)'
    BY <2>1, <2>3, UnhookedKept
  <2>5. d = 0
    BY <1>1, <1>5 DEF InTransit
  <2> QED
    BY <1>5, <2>1, <2>2, <2>3, <2>4, <2>5 DEF InTransit, StartPending
<1>6. CASE n.op = "TERMINATED"
  <2>1. d = 0 /\ Unhooked(n.thread) /\ gtab[n.thread.idx].rank = s
        /\ n.finalstate \in FinalStates
    BY <1>1, <1>6 DEF InTransit
  <2>2. Unhooked(n.thread)' /\ gtab'[n.thread.idx].rank = s
    BY <1>2, <1>6, <2>1, UnhookedKept, SMT
  <2> QED
    BY <1>6, <2>1, <2>2 DEF InTransit
<1> QED
  BY <1>4, <1>5, <1>6 DEF InTransit

\* The START requests that are left are those of threads that have not ended.
LEMMA StartsMove ==
    ASSUME StartInv, NEW f, SameSlots(f),
           \A p : StartPending(p)' => StartPending(p) /\ p.thread.idx # f
    PROVE  StartInv'
<1> SUFFICES ASSUME NEW p, StartPending(p)'
             PROVE  /\ p.xid = p.thread.seq + NRanks
                    /\ Unended(p.thread)'
                    /\ \A q : StartPending(q)' /\ q.xid = p.xid => q = p
  BY DEF StartInv, StartPending
<1>1. /\ StartPending(p) /\ p.thread.idx # f
      /\ p.xid = p.thread.seq + NRanks /\ Unended(p.thread)
      /\ \A q : StartPending(q) /\ q.xid = p.xid => q = p
  BY SMT DEF StartInv, StartPending
<1>2. Unended(p.thread)'
  BY <1>1 DEF SameSlots, Unended, dthread_dt2gtab
<1> QED
  BY <1>1, <1>2, SMT

\* A step that ends or frees slot f, hooks slot w, and starts nobody.
LEMMA TrafficMove ==
    ASSUME net \in Net, net' \in Net, Traffic, NEW ts, NEW tr, NEW k \in {0, 1},
           NEW a, NEW b, NEW m, NetMove(ts, tr, k, a, b, m), Still(m),
           \A s, d \in Ranks : \A n : Remains(ts, tr, k, s, d, n)
               => ~Exclusive(m, n) /\ ~Exclusive(n, m),
           NEW f, NEW w, NEW x, SameSlots(f), SameHooks(w), SameLives, StartsKept(x),
           Clear(ts, tr, k, f, w, x), DrainsOn,
           \A p : StartPending(p)' =>
               /\ StartPending(p) /\ p.thread.idx # f
               /\ k = 1 /\ tr = 0 =>
                     ~(net[ts][tr][1].op = "STARTED" /\ net[ts][tr][1].xid = p.xid)
    PROVE  Traffic'
<1>1. StartInv'
  BY StartsMove DEF Traffic
<1>2. TransitInv'
  <2>1. \A s, d \in Ranks : \A n : Remains(ts, tr, k, s, d, n) => InTransit(s, d, n)'
    BY TransitKept DEF Traffic
  <2> QED
    BY <2>1, TransitMove, ZenonT(60)
<1>3. OnePlace'
  BY OnePlaceMove DEF Traffic
<1>4. StartedFirst'
  <2>1. m.op # "TERMINATED"
    BY DEF Still
  <2> QED
    BY <2>1, StartedMove DEF Traffic, SameLives, DrainsOn
<1> QED
  BY <1>1, <1>2, <1>3, <1>4 DEF Traffic

\* A message that no other excludes.
Mute(m) == Still(m) /\ ~(m.op = "CREATED" /\ m.errstatus = "OK")

\* No message excludes a mute one.
LEMMA MuteAlone ==
    ASSUME NEW m, NEW n, Mute(m)
    PROVE  ~Exclusive(m, n) /\ ~Exclusive(n, m)
BY DEF Mute, Still, Exclusive

NoHook == \A g \in Slots : gtab'[g].has_ltab => gtab[g].has_ltab

\* A step that leaves the slots, the pthreads and the START requests as they are.
LEMMA QuietTraffic ==
    ASSUME TypeOK, TypeOK', Traffic, NEW ts \in Ranks, NEW tr \in Ranks,
           NEW k \in {0, 1}, NEW a, NEW b, NEW m, NetMove(ts, tr, k, a, b, m), Mute(m),
           SameSlots(NMaxThread), NoHook, SameLives, known' = known, DrainsOn,
           \A p : StartPending(p)' <=> StartPending(p),
           k = 1 => net[ts][tr][1].op # "STARTED"
    PROVE  Traffic'
<1>a. net \in Net /\ net' \in Net
  BY DEF TypeOK, Net
<1>b. NMaxThread \notin Slots
  BY NMaxThreadAssumption, SMT DEF Slots
<1> net \in Net /\ net' \in Net /\ NMaxThread \notin Slots
  BY <1>a, <1>b, SMT
<1>1. \A s, d \in Ranks : \A n : Remains(ts, tr, k, s, d, n)
          => ~Exclusive(m, n) /\ ~Exclusive(n, m)
  BY MuteAlone
<1>2. SameHooks(NMaxThread)
  BY DEF SameHooks, SameLives, NoHook
<1>3. StartsKept(-1)
  BY DEF StartsKept
<1>4. Clear(ts, tr, k, NMaxThread, NMaxThread, -1)
  <2> SUFFICES ASSUME NEW s \in Ranks, NEW d \in Ranks, NEW n,
                      Remains(ts, tr, k, s, d, n)
               PROVE  /\ n.op \in {"START", "TERMINATED"} => n.thread.idx \in Slots
                      /\ n.xid # -1
                      /\ \A p : StartPending(p) => p.thread.idx \in Slots
    BY DEF Clear
  <2>1. InTransit(s, d, n)
    BY RemainsInTransit DEF Traffic
  <2>2. n \in Msg
    BY RemainsTyped
  <2>3. n.xid # -1
    BY <2>2, SMT DEF Msg
  <2>4. \A p : StartPending(p) => p.thread.idx \in Slots
    BY DEF StartPending, Traffic, StartInv, Unended, dthread_dt2gtab
  <2>5. \A h : Unhooked(h) => h.idx \in Slots
    BY DEF Unhooked, Unended, dthread_dt2gtab
  <2> QED
    BY <2>1, <2>3, <2>4, <2>5 DEF InTransit
<1>5. \A p : StartPending(p)' =>
         /\ StartPending(p) /\ p.thread.idx # NMaxThread
         /\ k = 1 /\ tr = 0 =>
               ~(net[ts][tr][1].op = "STARTED" /\ net[ts][tr][1].xid = p.xid)
  BY DEF StartPending, Traffic, StartInv, Unended, dthread_dt2gtab
<1>6. Still(m)
  BY DEF Mute
<1> QED
  BY <1>1, <1>2, <1>3, <1>4, <1>5, <1>6, TrafficMove

-----------------------------------------------------------------------------
(* Pthreads and their entries *)

\* What a pthread's place in its code says of its entries.
LiveState(r, l) ==
    LET lt == ltab[r][l]
        gt == gtab[lt.gtab_idx]
        pc == app[r][l].pc
    IN
    /\ pc = "wrap" => lt.pth_state = "STARTING" /\ ~gt.has_ltab
    /\ pc \in Running => /\ lt.pth_state \in {"RUNNING", "CANCELED"}
                         /\ gt.has_ltab /\ gt.ltab_idx = l
    /\ pc = "clean" => /\ lt.pth_state \in FinalStates
                       /\ gt.has_ltab => gt.ltab_idx = l

\* A step that starts no pthread and leaves the slots of those there are.
LEMMA LiveMove ==
    ASSUME LiveInv, NEW f, SameSlots(f), SameLives,
           \A r \in Ranks, l \in Slots : Lives(r, l)' =>
               /\ ltab[r][l].gtab_idx # f
               /\ LiveState(r, l)'
    PROVE  LiveInv'
<1> SUFFICES ASSUME NEW r \in Ranks, NEW l \in Slots, Lives(r, l)'
             PROVE  /\ Unended(HandleOf(r, l))'
                    /\ gtab'[ltab'[r][l].gtab_idx].rank = r
                    /\ \A k \in Slots :
                          Lives(r, k)' /\ ltab'[r][k].gtab_idx = ltab'[r][l].gtab_idx
                              => k = l
  BY ZenonT(60) DEF LiveInv, LiveState
<1>1. /\ Lives(r, l) /\ HandleOf(r, l)' = HandleOf(r, l)
      /\ ltab'[r][l].gtab_idx = ltab[r][l].gtab_idx /\ ltab[r][l].gtab_idx # f
  BY DEF SameLives, HandleOf
<1>2. /\ Unended(HandleOf(r, l)) /\ gtab[ltab[r][l].gtab_idx].rank = r
      /\ \A k \in Slots : Lives(r, k) /\ ltab[r][k].gtab_idx = ltab[r][l].gtab_idx
                             => k = l
  BY <1>1 DEF LiveInv
<1>3. ltab[r][l].gtab_idx \in Slots
  BY <1>2 DEF Unended, dthread_dt2gtab, HandleOf
<1>4. Unended(HandleOf(r, l))' /\ gtab'[ltab'[r][l].gtab_idx].rank = r
  <2> DEFINE h == HandleOf(r, l)
  <2>1. h.idx = ltab[r][l].gtab_idx
    BY SMT DEF HandleOf
  <2>2. /\ gtab'[h.idx].allocated = gtab[h.idx].allocated
        /\ gtab'[h.idx].seq = gtab[h.idx].seq
        /\ gtab'[h.idx].rank = gtab[h.idx].rank
        /\ gtab'[h.idx].terminated = gtab[h.idx].terminated
    BY <1>1, <1>3, <2>1 DEF SameSlots
  <2>3. Unended(h)
    BY <1>2
  <2> HIDE DEF h
  <2>4. \A x : x = h => Unended(x)'
    BY <2>2, <2>3 DEF Unended, dthread_dt2gtab
  <2>5. Unended(HandleOf(r, l))'
    BY <1>1, <2>4 DEF h, Unended, dthread_dt2gtab
  <2> QED
    BY <1>1, <1>2, <2>1, <2>2, <2>5
<1> QED
  BY <1>1, <1>2, <1>4, ZenonT(60) DEF SameLives

\* What LiveInv says of one pthread.
LEMMA LiveFacts ==
    ASSUME LiveInv, NEW r \in Ranks, NEW l \in Slots, Lives(r, l)
    PROVE  /\ Unended(HandleOf(r, l)) /\ gtab[ltab[r][l].gtab_idx].rank = r
           /\ ltab[r][l].gtab_idx \in Slots
           /\ gtab[ltab[r][l].gtab_idx].allocated
           /\ gtab[ltab[r][l].gtab_idx].terminated = "NONE"
           /\ gtab[ltab[r][l].gtab_idx].seq = ltab[r][l].seq
           /\ \A k \in Slots :
                 Lives(r, k) /\ ltab[r][k].gtab_idx = ltab[r][l].gtab_idx => k = l
           /\ LiveState(r, l)
<1>1. Unended(HandleOf(r, l)) /\ gtab[ltab[r][l].gtab_idx].rank = r
      /\ \A k \in Slots :
            Lives(r, k) /\ ltab[r][k].gtab_idx = ltab[r][l].gtab_idx => k = l
  BY DEF LiveInv
<1>2. LiveState(r, l)
  BY DEF LiveInv, LiveState
<1> QED
  BY <1>1, <1>2 DEF Unended, dthread_dt2gtab, HandleOf

\* The slot that ltab entry l of rank r names is that of its thread.
OwnSlot(r, l) ==
    LET g == ltab[r][l].gtab_idx IN
    /\ g \in Slots /\ gtab[g].rank = r /\ gtab[g].allocated
    /\ gtab[g].terminated = "NONE" /\ gtab[g].seq = ltab[r][l].seq
    /\ \A k \in Slots : Lives(r, k) /\ ltab[r][k].gtab_idx = g => k = l

\* The same in two predicates.
LEMMA LiveOwns ==
    ASSUME LifeInv, NEW r \in Ranks, NEW l \in Slots, Lives(r, l)
    PROVE  OwnSlot(r, l) /\ LiveState(r, l)
<1>1. /\ Unended(HandleOf(r, l)) /\ gtab[ltab[r][l].gtab_idx].rank = r
      /\ \A k \in Slots :
            Lives(r, k) /\ ltab[r][k].gtab_idx = ltab[r][l].gtab_idx => k = l
  BY DEF LifeInv, LiveInv
<1>2. LiveState(r, l)
  BY LiveFacts DEF LifeInv
<1> QED
  BY <1>1, <1>2 DEF OwnSlot, Unended, dthread_dt2gtab, HandleOf

\* The count of ltab entries is kept with the entries.
LEMMA CountedKept ==
    ASSUME LtabCounted,
           \A r \in Ranks : mgrstate'[r].ltab_alloc = mgrstate[r].ltab_alloc,
           \A r \in Ranks, l \in Slots : InUse(r, l)' <=> InUse(r, l)
    PROVE  LtabCounted'
<1>1. \A r \in Ranks : {l \in Slots : InUse(r, l)}' = {l \in Slots : InUse(r, l)}
  OBVIOUS
<1> QED
  BY <1>1 DEF LtabCounted

-----------------------------------------------------------------------------
(* Handles the application knows, and joins that wait *)

\* Slots that are kept keep SlotInv.
LEMMA SlotsMove ==
    ASSUME SlotInv, NEW f, SameSlots(f), f \in Slots => SlotFreed(f)
    PROVE  SlotInv'
BY SMT DEF SlotInv, SameSlots, SlotFreed

\* Joins that are left wait for slots that are kept.
LEMMA JoinWaitMove ==
    ASSUME JoinWaitHasFuture, NEW f, SameSlots(f), SameDetached(f),
           \A p : JoinWaiting(p)' => JoinWaiting(p) /\ p.thread.idx # f
    PROVE  JoinWaitHasFuture'
<1> SUFFICES ASSUME NEW p, JoinWaiting(p)'
             PROVE  /\ dthread_dt2gtab(p.thread)'
                    /\ ~gtab'[p.thread.idx].detached
                    /\ LT_NEED_FINALSTATE(gtab'[p.thread.idx].terminated)
                    /\ joinwait_search(p.thread)' = {p}
  BY DEF JoinWaitHasFuture, JoinWaiting, LT_NEED_FINALSTATE
<1>1. /\ JoinWaiting(p) /\ p.thread.idx # f
      /\ dthread_dt2gtab(p.thread) /\ ~gtab[p.thread.idx].detached
      /\ LT_NEED_FINALSTATE(gtab[p.thread.idx].terminated)
      /\ joinwait_search(p.thread) = {p}
  BY DEF JoinWaitHasFuture, JoinWaiting
<1>2. p.thread.idx \in Slots
  BY <1>1 DEF dthread_dt2gtab
<1>3. \A q : JoinWaiting(q)' /\ q.thread = p.thread => q = p
  <2> TAKE q
  <2> HAVE JoinWaiting(q)' /\ q.thread = p.thread
  <2>1. q \in joinwait_search(p.thread)
    BY SMT DEF joinwait_search, JoinWaiting
  <2> QED
    BY <1>1, <2>1
<1>4. joinwait_search(p.thread)' = {p}
  BY <1>3, SMT DEF joinwait_search, JoinWaiting
<1> QED
  BY <1>1, <1>2, <1>4 DEF SameSlots, SameDetached, dthread_dt2gtab

AppKnown == \A r \in Ranks, l \in Slots : app[r][l].thread \in known \cup {NoThread}

\* Messages, joins and detached slots name known threads.
LEMMA KnownMove ==
    ASSUME net \in Net, net' \in Net, KnownInv, known \subseteq known', AppKnown',
           NEW ts, NEW tr, NEW k \in {0, 1}, NEW a, NEW b, NEW m,
           NetMove(ts, tr, k, a, b, m),
           m.op \in {"DETACH", "CANCEL", "JOIN"} => m.thread \in known \cup {NoThread},
           \A p : JoinWaiting(p)' => JoinWaiting(p) \/ p.thread \in known,
           \A g \in Slots : gtab'[g].allocated /\ gtab'[g].detached =>
               \/ /\ gtab[g].allocated /\ gtab[g].detached
                  /\ gtab'[g].seq = gtab[g].seq
               \/ [idx |-> g, seq |-> gtab'[g].seq] \in known
    PROVE  KnownInv'
<1> DEFINE asks == {"DETACH", "CANCEL", "JOIN"}
<1>1. ASSUME NEW s \in Ranks, NEW d \in Ranks, NEW i \in 1 .. Len(net'[s][d]),
             net'[s][d][i].op \in asks
      PROVE  net'[s][d][i].thread \in known' \cup {NoThread}
  <2>1. Moved(ts, tr, k, a, b, m)
    BY MovedMessage
  <2>2. ~Quiet(net'[s][d][i])
    BY <1>1 DEF Quiet
  <2>3. CASE net'[s][d][i] = m
    BY <1>1, <2>3
  <2>4. CASE /\ i + Cut(ts, tr, k, s, d) \in 1 .. Len(net[s][d])
             /\ net'[s][d][i] = net[s][d][i + Cut(ts, tr, k, s, d)]
    <3>1. PICK j \in 1 .. Len(net[s][d]) : net'[s][d][i] = net[s][d][j]
      BY <2>4
    <3>2. net[s][d][j].thread \in known \cup {NoThread}
      BY <1>1, <3>1 DEF KnownInv
    <3> QED
      BY <3>1, <3>2
  <2> QED
    BY <2>1, <2>2, <2>3, <2>4 DEF Moved
<1>2. \A p \in rpending'[0] : p.op = "JOINWAIT" => p.thread \in known'
  BY DEF JoinWaiting, KnownInv
<1>3. \A g \in Slots : gtab'[g].allocated /\ gtab'[g].detached
                          => [idx |-> g, seq |-> gtab'[g].seq] \in known'
  BY DEF KnownInv
<1> QED
  BY <1>1, <1>2, <1>3 DEF KnownInv, AppKnown

\* A step that leaves the slots, the pthreads, the START requests and the known
\* handles as they are keeps LifeInv.
LEMMA QuietLife ==
    ASSUME TypeOK, TypeOK', LifeInv, NEW ts \in Ranks, NEW tr \in Ranks,
           NEW k \in {0, 1}, NEW a, NEW b, NEW m, NetMove(ts, tr, k, a, b, m), Mute(m),
           m.op \in {"DETACH", "CANCEL", "JOIN"} => m.thread \in known \cup {NoThread},
           SameSlots(NMaxThread), SameDetached(NMaxThread), NoHook, SameLives,
           known' = known, AppKnown', DrainsOn,
           \A p : StartPending(p)' <=> StartPending(p),
           \A p : JoinWaiting(p)' => JoinWaiting(p),
           k = 1 => net[ts][tr][1].op # "STARTED",
           \A r \in Ranks, l \in Slots : Lives(r, l)' => LiveState(r, l)',
           LtabCounted'
    PROVE  LifeInv'
<1>1. net \in Net /\ net' \in Net
  BY DEF TypeOK, Net
<1> NMaxThread \notin Slots
  BY NMaxThreadAssumption, SMT DEF Slots
<1>3. SlotInv'
  BY SlotsMove DEF LifeInv
<1>4. LiveInv'
  <2>1. \A r \in Ranks, l \in Slots : Lives(r, l)' =>
            ltab[r][l].gtab_idx # NMaxThread /\ LiveState(r, l)'
    <3>1. LiveInv
      BY DEF LifeInv
    <3>2. \A r \in Ranks, l \in Slots : Lives(r, l)' => ltab[r][l].gtab_idx \in Slots
      BY <3>1, LiveFacts DEF SameLives
    <3> QED
      BY <3>2
  <2> QED
    BY <2>1, LiveMove DEF LifeInv
<1>5. Traffic'
  <2>1. Traffic
    BY DEF LifeInv, Traffic
  <2> QED
    BY <2>1, QuietTraffic
<1>6. KnownInv'
  <2>1. \A g \in Slots : gtab'[g].allocated /\ gtab'[g].detached =>
            gtab[g].allocated /\ gtab[g].detached /\ gtab'[g].seq = gtab[g].seq
    BY DEF SameSlots, SameDetached
  <2> QED
    BY <1>1, <2>1, KnownMove DEF LifeInv
<1>7. JoinWaitHasFuture'
  <2>1. \A p : JoinWaiting(p)' => JoinWaiting(p) /\ p.thread.idx # NMaxThread
    BY DEF LifeInv, JoinWaiting, JoinWaitHasFuture, dthread_dt2gtab
  <2> QED
    BY <2>1, JoinWaitMove DEF LifeInv
<1> QED
  BY <1>3, <1>4, <1>5, <1>6, <1>7 DEF LifeInv, Traffic

\* Nothing is sent.
LEMMA NetStays ==
    ASSUME net \in Net, UNCHANGED net
    PROVE  \E m : Mute(m) /\ Quiet(m) /\ NetMove(0, 0, 0, 0, 0, m)
<1> DEFINE m == message("CREATE", 0, NoThread, "OK", NoData)
<1>1. Quiet(m) /\ Mute(m)
  BY DEF Quiet, Mute, Still, message
<1>2. \A s, d \in Ranks : Len(net[s][d]) \in Nat
  BY SMT DEF Net
<1>3. \A i \in Int : i + 0 = i /\ i - 0 = i
  BY SMT
<1>4. NetMove(0, 0, 0, 0, 0, m)
  BY <1>2, <1>3, SMT DEF NetMove, Cut
<1> QED
  BY <1>1, <1>4, SMT

\* The START request of a thread that has yet to get its pthread.
LEMMA WaitingUnhooked ==
    ASSUME Traffic, NEW ts, NEW tr, NEW k, NEW s \in Ranks, NEW d \in Ranks, NEW n,
           Remains(ts, tr, k, s, d, n), Waiting(n)
    PROVE  \E p : /\ StartPending(p) /\ p.xid = n.xid
                  /\ p.xid = p.thread.seq + NRanks
                  /\ Unhooked(p.thread)
                  /\ \A q : StartPending(q) /\ q.xid = n.xid => q = p
<1>1. InTransit(s, d, n)
  BY RemainsInTransit, SMT DEF Traffic
<1>2. PICK p \in rpending[0] : p.op = "START" /\ p.xid = n.xid /\ Unhooked(p.thread)
  <2>1. CASE n.op = "START"
    BY <1>1, <2>1 DEF InTransit
  <2>2. CASE n.op = "STARTED" /\ n.errstatus # "OK"
    BY <1>1, <2>2 DEF InTransit
  <2> QED
    BY <2>1, <2>2 DEF Waiting
<1>3. StartPending(p)
  BY <1>2 DEF StartPending
<1> QED
  BY <1>2, <1>3 DEF StartPending, Traffic, StartInv

\* A handle's slot and generation are those of its entry.
LEMMA SameGeneration ==
    ASSUME SlotInv, NEW h, NEW g \in Slots, dthread_dt2gtab(h), gtab[g].allocated,
           gtab[g].seq = h.seq
    PROVE  h.idx = g
BY DEF SlotInv, dthread_dt2gtab

\* dthreadwrap keeps LifeInv.
LEMMA WrapLife ==
    ASSUME TypeOK, TypeOK', LifeInv, AppKnown', NEW r \in Ranks, NEW l \in Slots,
           dthreadwrap(r, l)
    PROVE  LifeInv'
<1> DEFINE g == ltab[r][l].gtab_idx
<1> /\ net \in Net /\ net' \in Net /\ NMaxThread \notin Slots /\ 0 \in Ranks
      /\ gtab \in Gtab /\ ltab \in Ltab /\ app \in App
  <2>1. net \in Net /\ net' \in Net /\ gtab \in Gtab /\ ltab \in Ltab /\ app \in App
    BY DEF TypeOK, Net, Gtab, Ltab, App
  <2> QED
    BY <2>1, NMaxThreadAssumption, ZeroInRange, SMT DEF Slots
<1>1. /\ app' = WithPc(r, l, "run") /\ ltab' = WithState(r, l, "RUNNING")
      /\ gtab' = [gtab EXCEPT ![g].ltab_idx = l, ![g].has_ltab = TRUE]
      /\ known' = known \cup {HandleOf(r, l)}
      /\ UNCHANGED <<net, rpending, mgrstate>> /\ app[r][l].pc = "wrap"
  BY DEF dthreadwrap, Alive, WithPc, WithState, HandleOf
<1>2. Lives(r, l)
  BY <1>1 DEF Lives
<1>3. /\ g \in Slots /\ gtab[g].allocated /\ gtab[g].rank = r
      /\ gtab[g].seq = ltab[r][l].seq
      /\ \A k \in Slots : Lives(r, k) /\ ltab[r][k].gtab_idx = g => k = l
      /\ ltab[r][l].pth_state = "STARTING" /\ ~gtab[g].has_ltab
  <2>1. OwnSlot(r, l) /\ LiveState(r, l)
    BY <1>2, LiveOwns
  <2>2. ltab[r][l].pth_state = "STARTING" /\ ~gtab[g].has_ltab
    BY <1>1, <2>1 DEF LiveState
  <2> QED
    BY <2>1, <2>2 DEF OwnSlot
<1>4. Hooked(g, l)
  BY <1>1, <1>3, HookTable
<1>5. OnlyState(r, l) /\ ltab'[r][l].pth_state = "RUNNING"
  <2>1. ltab' = WithState(r, l, "RUNNING")
    BY <1>1
  <2> QED
    BY <2>1, StateSet
<1>6. PICK e : Sets(r, l, e) /\ e.pc = "run"
  <2>1. app' = WithPc(r, l, "run")
    BY <1>1
  <2> QED
    BY <2>1, AppSetPc, SMT
<1>7. HandleOf(r, l).seq = gtab[g].seq
  BY <1>3 DEF HandleOf
<1> HIDE DEF g
<1>8. \A q \in Ranks, k \in Slots : Lives(q, k)' <=> Lives(q, k)
  BY <1>2, <1>6 DEF Sets, Lives
<1>9. SameLives
  BY <1>5, <1>8 DEF SameLives, OnlyState
<1>10. LiveInv'
  <2>1. ASSUME NEW q \in Ranks, NEW k \in Slots, Lives(q, k)'
        PROVE  ltab[q][k].gtab_idx # NMaxThread /\ LiveState(q, k)'
    <3>1. /\ LiveState(q, k) /\ ltab[q][k].gtab_idx \in Slots
          /\ gtab[ltab[q][k].gtab_idx].rank = q
      BY <1>8, <2>1, LiveFacts DEF LifeInv
    <3>2. CASE q = r /\ k = l
      <4>1. ltab'[q][k].gtab_idx = g
        BY <1>5, <3>2 DEF OnlyState, g
      <4> QED
        BY <1>3, <1>4, <1>5, <1>6, <3>2, <4>1
           DEF LiveState, Hooked, Sets, Running, g
    <3>3. CASE ~(q = r /\ k = l)
      <4>1. ltab[q][k].gtab_idx # g
        BY <1>3, <1>8, <2>1, <3>1, <3>3
      <4>2. /\ ltab'[q][k] .gtab_idx = ltab[q][k].gtab_idx
            /\ ltab'[q][k].pth_state = ltab[q][k].pth_state
            /\ app'[q][k] = app[q][k]
        BY <1>5, <1>6, <3>3 DEF OnlyState, Sets
      <4> QED
        BY <1>4, <3>1, <4>1, <4>2, ZenonT(60) DEF LiveState, Hooked
    <3> QED
      BY <3>2, <3>3
  <2> QED
    BY <1>4, <1>9, <2>1, LiveMove DEF LifeInv, Hooked
<1>11. LtabCounted'
  <2>1. \A q \in Ranks, k \in Slots : InUse(q, k)' <=> InUse(q, k)
    BY <1>3, <1>5 DEF InUse, OnlyState
  <2> QED
    BY <1>1, <2>1, CountedKept DEF LifeInv
<1>12. PICK m : Mute(m) /\ Quiet(m) /\ NetMove(0, 0, 0, 0, 0, m)
  BY <1>1, NetStays
<1>13. Traffic'
  <2>0. Traffic
    BY DEF LifeInv, Traffic
  <2>1. SameHooks(g) /\ StartsKept(-1) /\ DrainsOn
    <3>1. SameHooks(g)
      BY <1>4, <1>9 DEF Hooked, SameHooks, SameLives
    <3> QED
      BY <1>1, <3>1, SMT DEF StartsKept, StartPending, DrainsOn, draining
  <2>2. Clear(0, 0, 0, NMaxThread, g, -1)
    <3> SUFFICES ASSUME NEW s \in Ranks, NEW d \in Ranks, NEW n,
                        Remains(0, 0, 0, s, d, n)
                 PROVE  /\ n.op \in {"START", "TERMINATED"}
                               => n.thread.idx \notin {NMaxThread, g}
                        /\ n.xid # -1
                        /\ Waiting(n) =>
                              /\ \A p : StartPending(p) /\ p.xid = n.xid
                                     => p.thread.idx \notin {NMaxThread, g}
                              /\ \A h \in known' :
                                    h \in known \/ n.xid # h.seq + NRanks
      BY DEF Clear
    <3>1. InTransit(s, d, n)
      BY RemainsInTransit DEF LifeInv
    <3>2. \A h : Unhooked(h) => h.idx \notin {NMaxThread, g}
      BY <1>2 DEF Unhooked, Unended, dthread_dt2gtab, g
    <3>3. n.xid # -1
      <4>1. n \in Msg
        BY RemainsTyped
      <4> QED
        BY <4>1, SMT DEF Msg
    <3>4. ASSUME Waiting(n)
          PROVE  /\ \A p : StartPending(p) /\ p.xid = n.xid
                        => p.thread.idx \notin {NMaxThread, g}
                 /\ \A h \in known' : h \in known \/ n.xid # h.seq + NRanks
      <4>1. PICK p : /\ StartPending(p) /\ p.xid = n.xid
                     /\ p.xid = p.thread.seq + NRanks
                     /\ Unhooked(p.thread)
                     /\ \A q : StartPending(q) /\ q.xid = n.xid => q = p
        BY <2>0, <3>4, WaitingUnhooked, SMT
      <4>2. p.thread.idx \notin {NMaxThread, g}
        BY <3>2, <4>1
      <4>3. p.thread.seq # gtab[g].seq
        <5>1. dthread_dt2gtab(p.thread)
          BY <4>1 DEF Unhooked, Unended
        <5> QED
          BY <1>3, <4>2, <5>1, SameGeneration DEF LifeInv
      <4>4. gtab[g].seq \in Nat /\ p.thread.seq \in Nat
        <5>1. p.thread.seq = gtab[p.thread.idx].seq /\ p.thread.idx \in Slots
          BY <4>1 DEF Unhooked, Unended, dthread_dt2gtab
        <5> QED
          BY <1>3, <5>1 DEF Gtab, GtabEntry
      <4>5. n.xid # gtab[g].seq + NRanks
        BY <4>1, <4>3, <4>4, NRanksAssumption, SMT
      <4> QED
        BY <1>1, <1>7, <4>1, <4>2, <4>5
    <3> QED
      BY <3>1, <3>2, <3>3, <3>4 DEF InTransit
  <2>3. \A p : StartPending(p)' =>
           /\ StartPending(p) /\ p.thread.idx # NMaxThread
           /\ 0 = 1 /\ 0 = 0 =>
                 ~(net[0][0][1].op = "STARTED" /\ net[0][0][1].xid = p.xid)
    BY <1>1, SMT DEF StartPending, LifeInv, StartInv, Unended, dthread_dt2gtab
  <2>4. \A s, d \in Ranks : \A n : Remains(0, 0, 0, s, d, n)
            => ~Exclusive(m, n) /\ ~Exclusive(n, m)
    BY <1>12, MuteAlone
  <2>5. SameSlots(NMaxThread) /\ Still(m)
    BY <1>4, <1>12 DEF Hooked, Mute
  <2> QED
    BY <1>9, <1>12, <2>0, <2>1, <2>2, <2>3, <2>4, <2>5, TrafficMove
<1>14. SlotInv'
  BY <1>4, SlotsMove DEF LifeInv, Hooked
<1>15. KnownInv'
  <2>1. \A k \in Slots : gtab'[k].allocated /\ gtab'[k].detached =>
            gtab[k].allocated /\ gtab[k].detached /\ gtab'[k].seq = gtab[k].seq
    BY <1>4 DEF Hooked, SameSlots, SameDetached
  <2>2. m.op \in {"DETACH", "CANCEL", "JOIN"} => m.thread \in known \cup {NoThread}
    BY <1>12 DEF Quiet
  <2>3. known \subseteq known' /\ \A p : JoinWaiting(p)' => JoinWaiting(p)
    BY <1>1, SMT DEF JoinWaiting
  <2> QED
    BY <1>12, <2>1, <2>2, <2>3, KnownMove DEF LifeInv
<1>16. JoinWaitHasFuture'
  <2>1. \A p : JoinWaiting(p)' => JoinWaiting(p) /\ p.thread.idx # NMaxThread
    BY <1>1 DEF LifeInv, JoinWaiting, JoinWaitHasFuture, dthread_dt2gtab
  <2> QED
    BY <1>4, <2>1, JoinWaitMove DEF LifeInv, Hooked
<1> QED
  BY <1>10, <1>11, <1>13, <1>14, <1>15, <1>16 DEF LifeInv, Traffic

-----------------------------------------------------------------------------
(* What managers do that leaves the tables alone *)

\* Managers drain once and for all, and count no ltab entry.
MgrKept ==
    \A r \in Ranks : /\ draining(r) => draining(r)'
                     /\ mgrstate'[r].ltab_alloc = mgrstate[r].ltab_alloc

\* Steps that leave the tables alone keep LifeInv.
LEMMA TablesLife ==
    ASSUME TypeOK, TypeOK', LifeInv, AppKnown', UNCHANGED <<gtab, ltab, known>>,
           PcKept, MgrKept, NEW ts \in Ranks, NEW tr \in Ranks,
           NEW k \in {0, 1}, NEW a, NEW b, NEW m, NetMove(ts, tr, k, a, b, m), Mute(m),
           m.op \in {"DETACH", "CANCEL", "JOIN"} => m.thread \in known \cup {NoThread},
           \A p : StartPending(p)' <=> StartPending(p),
           \A p : JoinWaiting(p)' => JoinWaiting(p),
           k = 1 => net[ts][tr][1].op # "STARTED"
    PROVE  LifeInv'
<1>1. SameSlots(NMaxThread) /\ SameDetached(NMaxThread) /\ NoHook
  BY DEF SameSlots, SameDetached, NoHook
<1>2. SameLives
  BY DEF SameLives, Lives, PcKept, Running
<1>3. ASSUME NEW r \in Ranks, NEW l \in Slots, Lives(r, l)'
      PROVE  LiveState(r, l)'
  <2>1. LiveState(r, l)
    BY <1>2, <1>3, LiveFacts DEF LifeInv, SameLives
  <2>2. app'[r][l].pc # "none"
    BY <1>3 DEF Lives
  <2> QED
    BY <2>1, <2>2 DEF LiveState, PcKept, Running
<1>4. LtabCounted'
  <2>1. \A r \in Ranks, l \in Slots : InUse(r, l)' <=> InUse(r, l)
    BY DEF InUse
  <2> QED
    BY <2>1, CountedKept DEF LifeInv, MgrKept
<1>5. DrainsOn
  BY DEF DrainsOn, MgrKept
<1> QED
  BY <1>1, <1>2, <1>3, <1>4, <1>5, QuietLife

\* Managers that stay as they are.
LEMMA MgrSame == ASSUME UNCHANGED mgrstate PROVE MgrKept
BY SMT DEF MgrKept, draining

\* process_req forwards a call.
LEMMA ForwardLife ==
    ASSUME TypeOK, TypeOK', CallInv, LifeInv, AppKnown', NEW r \in Ranks,
           process_req_forward(r)
    PROVE  LifeInv'
<1> DEFINE l == Head(mgrreqq[r])
           a == app[r][l]
           m == [message(a.op, seqsrc[r], a.thread, "OK", NoData) EXCEPT !.attr = a.attr]
           p == pending(a.op, seqsrc[r], 0, l, a.thread, a.peer)
<1>1. /\ a.op \in Requests /\ mgrreqq[r] # <<>>
      /\ net' = dtq_send_enqueue(net, r, a.peer, m)
      /\ UNCHANGED <<gtab, ltab, mgrstate, known>>
      /\ app' = app \/ app' = WithPc(r, l, "done")
      /\ rpending' = rpending \/ rpending' = [rpending EXCEPT ![r] = @ \cup {p}]
  BY DEF process_req_forward, HasRequest, WithPc
<1>2. l \in Slots /\ a.pc = "busy"
  <2>1. l \in Slots /\ a.pc \in {"busy", "clean"}
    BY <1>1, FirstRequest
  <2> QED
    BY <1>1, <2>1 DEF CallInv, RequestBlocks, Requests
<1> a \in AppEntry /\ net \in Net /\ app \in App /\ 0 \in Ranks
  BY <1>2, ZeroInRange DEF TypeOK, Net, App
<1> a.op \in MsgOps /\ a.thread \in Handle /\ a.attr \in BOOLEAN /\ a.peer \in Ranks
      /\ seqsrc[r] \in Nat
  BY <1>1 DEF AppEntry, MsgOps, TypeOK
<1>5. m \in Msg /\ m.op = a.op /\ m.thread = a.thread
  <2>1. message(a.op, seqsrc[r], a.thread, "OK", NoData) \in Msg
    BY MessageType, RetType DEF Errors
  <2> QED
    BY <2>1 DEF Msg, message
<1>6. p.op = a.op
  BY DEF pending
<1>7. a.thread \in known \cup {NoThread}
  BY <1>2 DEF LifeInv, KnownInv
<1> HIDE DEF m, p
<1>8. NetMove(0, 0, 0, r, a.peer, m)
  BY <1>1, <1>5, SendExtends, SentMove
<1>9. Mute(m)
  BY <1>1, <1>5 DEF Mute, Still, Requests
<1>10. /\ \A q : StartPending(q)' <=> StartPending(q)
       /\ \A q : JoinWaiting(q)' => JoinWaiting(q)
  <2>1. \A q : q \in rpending'[0] <=> q \in rpending[0] \/ (q = p /\ q \in rpending'[0])
    <3>1. CASE rpending' = rpending
      BY <3>1
    <3>2. CASE rpending' = [rpending EXCEPT ![r] = @ \cup {p}]
      <4>1. rpending'[0] = rpending[0] \/ rpending'[0] = rpending[0] \cup {p}
        BY <3>2 DEF TypeOK
      <4> QED
        BY <4>1
    <3> QED
      BY <1>1, <3>1, <3>2
  <2>2. p.op \notin {"START", "JOINWAIT"}
    BY <1>1, <1>6 DEF Requests
  <2> QED
    BY <2>1, <2>2 DEF StartPending, JoinWaiting
<1>11. PcKept
  <2>1. CASE app' = app
    BY <2>1 DEF PcKept
  <2>2. CASE app' = WithPc(r, l, "done")
    <3>1. PICK e : Sets(r, l, e) /\ e.pc = "done"
      BY <1>2, <2>2, AppSetPc, SMT
    <3> QED
      BY <1>2, <3>1 DEF PcKept, Sets, Running
  <2> QED
    BY <1>1, <2>1, <2>2
<1>12. MgrKept
  BY <1>1, MgrSame
<1> HIDE DEF a, l
<1> QED
  BY <1>1, <1>5, <1>7, <1>8, <1>9, <1>10, <1>11, <1>12, TablesLife, SMTT(20)

-----------------------------------------------------------------------------
(* A message is taken and answered *)

\* Quiet answers exclude no other message.
LEMMA QuietMute == ASSUME NEW m, Quiet(m) PROVE Mute(m)
BY SMT DEF Quiet, Mute, Still

\* The first message from s to r is taken, and only quiet ones are sent.
QuietlyTaken(s, r) == \E a, b, m : Quiet(m) /\ NetMove(s, r, 1, a, b, m)

\* A message is taken and its sender or another rank gets m.
LEMMA AnswerMove ==
    ASSUME net \in Net, NEW s \in Ranks, NEW r \in Ranks, net[s][r] # <<>>,
           NEW to \in Ranks, NEW m \in Msg,
           net' = dtq_send_enqueue(Received(s, r), r, to, m)
    PROVE  NetMove(s, r, 1, r, to, m)
<1>1. Received(s, r) \in Net
  BY ReceivedType
<1>2. Extends(Received(s, r), net', r, to, m)
  BY <1>1, SendExtends
<1> QED
  BY <1>2, TakenMove

\* A message is taken and its sender gets a quiet answer.
LEMMA QuietAnswer ==
    ASSUME net \in Net, NEW s \in Ranks, NEW r \in Ranks, net[s][r] # <<>>,
           NEW to \in Ranks, NEW op, NEW xid \in Nat, NEW err \in Errors, NEW ret \in Ret,
           op \in {"DETACHED", "CANCELED", "JOINED"} \/ (op = "CREATED" /\ err # "OK"),
           net' = dtq_send_enqueue(Received(s, r), r, to, Answer(op, xid, err, ret))
    PROVE  QuietlyTaken(s, r)
<1> DEFINE m == Answer(op, xid, err, ret)
<1>1. m \in Msg
  <2>1. op \in MsgOps
    BY DEF MsgOps, Replies
  <2> QED
    BY <2>1, MessageType, NoThreadType DEF Answer
<1>2. Quiet(m)
  BY DEF Quiet, message, Answer
<1> HIDE DEF m
<1>3. NetMove(s, r, 1, r, to, m)
  BY <1>1, AnswerMove DEF m
<1> QED
  BY <1>2, <1>3 DEF QuietlyTaken

\* A running pthread is marked CANCELED, or the local tables stay as they are.
MarkedCanceled ==
    \A q \in Ranks, k \in Slots :
        /\ ltab'[q][k].gtab_idx = ltab[q][k].gtab_idx
        /\ ltab'[q][k].seq = ltab[q][k].seq
        /\ \/ ltab'[q][k].pth_state = ltab[q][k].pth_state
           \/ ltab[q][k].pth_state = "RUNNING" /\ ltab'[q][k].pth_state = "CANCELED"

\* cancel_thread, second part.
LEMMA CancelActLife ==
    ASSUME TypeOK, TypeOK', LifeInv, AppKnown', NEW r \in Ranks, cancel_thread_act(r)
    PROVE  LifeInv'
<1> DEFINE m == Answer("CANCELED", mgrstate[r].xid, "OK", NoData)
           l == gtab[mgrstate[r].thread.idx].ltab_idx
<1> /\ net \in Net /\ ltab \in Ltab /\ 0 \in Ranks
      /\ mgrstate[r] \in MgrEntry /\ mgrstate[r].xid \in Nat
  BY ZeroInRange DEF TypeOK, Net, Ltab, MgrEntry
<1>1. /\ mgrstate[r].cancelling # NRanks
      /\ \/ ltab' = ltab
         \/ ltab[r][l].pth_state = "RUNNING" /\ ltab' = WithState(r, l, "CANCELED")
      /\ net' = dtq_send_enqueue(net, r, mgrstate[r].cancelling, m)
      /\ mgrstate' = [mgrstate EXCEPT ![r].cancelling = NRanks, ![r].xid = 0,
                                      ![r].thread = NoThread]
      /\ UNCHANGED <<gtab, app, rpending, known>>
  BY DEF cancel_thread_act, WithState, Answer
<1>2. mgrstate[r].cancelling \in Ranks
  <2>1. PICK c : c = mgrstate[r].cancelling
    OBVIOUS
  <2>2. c \in 0 .. NRanks /\ c # NRanks
    BY <1>1, <2>1 DEF MgrEntry
  <2>3. c \in Ranks
    BY <2>2, NRanksAssumption, SMT DEF Ranks
  <2> QED
    BY <2>1, <2>3
<1>3. m \in Msg /\ Quiet(m)
  <2>1. m \in Msg
    BY MessageType, NoThreadType, RetType DEF Answer, MsgOps, Replies, Errors
  <2> QED
    BY <2>1 DEF Answer, message, Quiet
<1>4. MarkedCanceled
  <2>1. CASE ltab' = ltab
    BY <2>1 DEF MarkedCanceled
  <2>2. CASE ltab[r][l].pth_state = "RUNNING" /\ ltab' = WithState(r, l, "CANCELED")
    <3> HIDE DEF l
    <3>1. CASE l \in Slots
      <4>1. OnlyState(r, l) /\ ltab'[r][l].pth_state = "CANCELED"
        BY <2>2, <3>1, StateSet, ZenonT(60)
      <4> QED
        BY <2>2, <4>1 DEF OnlyState, MarkedCanceled
    <3>2. CASE l \notin Slots
      <4>1. \A q \in Ranks, k \in Slots : ltab'[q][k] = ltab[q][k]
        BY <2>2, <3>2, SMT DEF WithState, Ltab
      <4> QED
        BY <4>1 DEF MarkedCanceled
    <3> QED
      BY <3>1, <3>2
  <2> QED
    BY <1>1, <2>1, <2>2
<1>5. MgrKept
  <2>1. \A q \in Ranks : q # r => mgrstate'[q] = mgrstate[q]
    BY <1>1, ZenonT(60) DEF TypeOK
  <2>2. mgrstate'[r] = [mgrstate[r] EXCEPT !.cancelling = NRanks, !.xid = 0,
                                           !.thread = NoThread]
    BY <1>1 DEF TypeOK
  <2>3. mgrstate'[r].phase = mgrstate[r].phase
        /\ mgrstate'[r].ltab_alloc = mgrstate[r].ltab_alloc
    BY <2>2, SMT DEF MgrEntry
  <2> QED
    BY <2>1, <2>3 DEF MgrKept, draining
<1> HIDE DEF m, l
<1>6. NetMove(0, 0, 0, r, mgrstate[r].cancelling, m)
  BY <1>1, <1>2, <1>3, SendExtends, SentMove
<1>7. Mute(m) /\ (m.op \in {"DETACH", "CANCEL", "JOIN"} => m.thread \in known \cup {NoThread})
  BY <1>3, QuietMute DEF Quiet
<1>8. SameSlots(NMaxThread) /\ SameDetached(NMaxThread) /\ NoHook
  BY <1>1 DEF SameSlots, SameDetached, NoHook
<1>9. SameLives
  BY <1>1, <1>4, SMT DEF SameLives, Lives, MarkedCanceled
<1>10. ASSUME NEW q \in Ranks, NEW k \in Slots, Lives(q, k)'
       PROVE  LiveState(q, k)'
  <2>1. LiveState(q, k)
    BY <1>9, <1>10, LiveFacts DEF LifeInv, SameLives
  <2>2. "RUNNING" \notin FinalStates
    BY DEF FinalStates
  <2>3. /\ ltab'[q][k].gtab_idx = ltab[q][k].gtab_idx
        /\ \/ ltab'[q][k].pth_state = ltab[q][k].pth_state
           \/ ltab[q][k].pth_state = "RUNNING" /\ ltab'[q][k].pth_state = "CANCELED"
    BY <1>4 DEF MarkedCanceled
  <2>4. gtab' = gtab /\ app'[q][k].pc = app[q][k].pc
    BY <1>1
  <2> QED
    BY <2>1, <2>2, <2>3, <2>4 DEF LiveState
<1>11. LtabCounted'
  <2>1. \A q \in Ranks, k \in Slots : InUse(q, k)' <=> InUse(q, k)
    BY <1>4 DEF InUse, MarkedCanceled
  <2> QED
    BY <1>5, <2>1, CountedKept DEF LifeInv, MgrKept
<1>12. DrainsOn /\ known' = known
  BY <1>1, <1>5 DEF DrainsOn, MgrKept
<1>13. /\ \A q : StartPending(q)' <=> StartPending(q)
       /\ \A q : JoinWaiting(q)' => JoinWaiting(q)
  BY <1>1 DEF StartPending, JoinWaiting
<1> QED
  BY <1>6, <1>7, <1>8, <1>9, <1>10, <1>11, <1>12, <1>13, QuietLife, SMT

-----------------------------------------------------------------------------
(* Manager 0 frees a slot, or sees its thread end *)

SlotEnded(f) == /\ gtab'[f].allocated = gtab[f].allocated /\ gtab'[f].seq = gtab[f].seq
                /\ gtab'[f].terminated \in FinalStates /\ ~gtab'[f].detached

\* The slot that goes, or whose thread ends, leaves the others apart.
LEMMA SlotGoneSlots ==
    ASSUME SlotInv, NEW f \in Slots, SameSlots(f), SlotFreed(f) \/ SlotEnded(f)
    PROVE  SlotInv'
BY SMTT(20) DEF SlotInv, SameSlots, SlotFreed, SlotEnded

\* A slot that no pthread, message or request is about may go.
LEMMA SlotGoneLife ==
    ASSUME TypeOK, TypeOK', LifeInv, AppKnown', NEW s \in Ranks, NEW f \in Slots, NEW x,
           net[s][0] # <<>>, QuietlyTaken(s, 0), SameEntries(f),
           SlotFreed(f) \/ SlotEnded(f), gtab'[f].has_ltab => gtab[f].has_ltab,
           UNCHANGED <<ltab, app, known, mgrstate>>,
           \A r \in Ranks, l \in Slots : Lives(r, l) => ltab[r][l].gtab_idx # f,
           StartsKept(x), SlotClear(s, f, x),
           \A p : StartPending(p)' =>
               /\ StartPending(p) /\ p.thread.idx # f
               /\ ~(net[s][0][1].op = "STARTED" /\ net[s][0][1].xid = p.xid),
           \A p : JoinWaiting(p)' => JoinWaiting(p) /\ p.thread.idx # f
    PROVE  LifeInv'
<1> net \in Net /\ net' \in Net
  BY DEF TypeOK, Net
<1>z. 0 \in Ranks
  BY ZeroInRange
<1>1. SameSlots(f) /\ SameDetached(f)
  BY DEF SameEntries, SameSlots, SameDetached
<1>2. SameLives
  BY DEF SameLives, Lives
<1>3. SameHooks(f)
  BY DEF SameHooks, SameEntries, Lives
<1>4. SlotInv'
  BY <1>1, SlotGoneSlots DEF LifeInv
<1>5. LiveInv'
  <2>1. ASSUME NEW r \in Ranks, NEW l \in Slots, Lives(r, l)'
        PROVE  ltab[r][l].gtab_idx # f /\ LiveState(r, l)'
    <3>1. LiveState(r, l) /\ ltab[r][l].gtab_idx \in Slots
      BY <1>2, <2>1, LiveFacts DEF LifeInv, SameLives
    <3>2. ltab[r][l].gtab_idx # f
      BY <1>2, <2>1 DEF SameLives
    <3> QED
      BY <3>1, <3>2 DEF LiveState, SameEntries
  <2> QED
    BY <1>1, <1>2, <2>1, LiveMove DEF LifeInv
<1>6. LtabCounted'
  BY DEF LifeInv, LtabCounted, InUse
<1>7. PICK b, c, o : Quiet(o) /\ NetMove(s, 0, 1, b, c, o)
  BY DEF QuietlyTaken
<1>8. Mute(o) /\ (o.op \in {"DETACH", "CANCEL", "JOIN"} => o.thread \in known \cup {NoThread})
  BY <1>7, QuietMute DEF Quiet
<1>9. Traffic'
  <2>1. Traffic
    BY DEF LifeInv, Traffic
  <2>2. Clear(s, 0, 1, f, f, x)
    BY DEF Clear, SlotClear
  <2>3. \A t, d \in Ranks : \A n : Remains(s, 0, 1, t, d, n)
            => ~Exclusive(o, n) /\ ~Exclusive(n, o)
    BY <1>8, MuteAlone
  <2>4. \A p : StartPending(p)' =>
           /\ StartPending(p) /\ p.thread.idx # f
           /\ 1 = 1 /\ 0 = 0 =>
                 ~(net[s][0][1].op = "STARTED" /\ net[s][0][1].xid = p.xid)
    OBVIOUS
  <2>5. DrainsOn /\ Still(o)
    BY <1>8 DEF DrainsOn, draining, Mute
  <2> QED
    BY <1>1, <1>2, <1>3, <1>7, <2>1, <2>2, <2>3, <2>4, <2>5, TrafficMove
<1>10. KnownInv'
  <2>1. \A g \in Slots : gtab'[g].allocated /\ gtab'[g].detached =>
            gtab[g].allocated /\ gtab[g].detached /\ gtab'[g].seq = gtab[g].seq
    BY DEF SameEntries, SlotFreed, SlotEnded
  <2>2. \A p : JoinWaiting(p)' => JoinWaiting(p)
    OBVIOUS
  <2>3. known \subseteq known'
    OBVIOUS
  <2> QED
    BY <1>7, <1>8, <2>1, <2>2, <2>3, KnownMove DEF LifeInv
<1>11. JoinWaitHasFuture'
  BY <1>1, JoinWaitMove DEF LifeInv
<1> QED
  BY <1>4, <1>5, <1>6, <1>9, <1>10, <1>11 DEF LifeInv, Traffic

\* A slot that is free, or whose thread has ended, is in nobody's way.
LEMMA IdleSlotClear ==
    ASSUME TypeOK, LifeInv, NEW s \in Ranks, NEW f \in Slots,
           ~gtab[f].allocated \/ gtab[f].terminated # "NONE"
    PROVE  /\ SlotClear(s, f, -1)
           /\ \A p : StartPending(p) => p.thread.idx # f
           /\ \A r \in Ranks, l \in Slots : Lives(r, l) => ltab[r][l].gtab_idx # f
<1>1. \A p : StartPending(p) => p.thread.idx # f
  BY SMTT(20) DEF LifeInv, StartInv, StartPending, Unended, dthread_dt2gtab
<1>2. \A r \in Ranks, l \in Slots : Lives(r, l) => ltab[r][l].gtab_idx # f
  <2> SUFFICES ASSUME NEW r \in Ranks, NEW l \in Slots, Lives(r, l)
               PROVE  ltab[r][l].gtab_idx # f
    OBVIOUS
  <2>1. OwnSlot(r, l)
    BY LiveOwns
  <2> QED
    BY <2>1 DEF OwnSlot
<1>3. SlotClear(s, f, -1)
  <2> SUFFICES ASSUME NEW t \in Ranks, NEW d \in Ranks, NEW n, Remains(s, 0, 1, t, d, n)
               PROVE  /\ n.op \in {"START", "TERMINATED"} => n.thread.idx # f
                      /\ n.xid # -1
    BY <1>1 DEF SlotClear
  <2>1. InTransit(t, d, n)
    BY RemainsInTransit DEF LifeInv
  <2>2. \A h : Unhooked(h) => h.idx # f
    BY DEF Unhooked, Unended, dthread_dt2gtab
  <2>3. n.xid # -1
    <3>1. n \in Msg
      BY RemainsTyped DEF TypeOK, Net
    <3> QED
      BY <3>1, SMT DEF Msg
  <2> QED
    BY <2>1, <2>2, <2>3 DEF InTransit
<1> QED
  BY <1>1, <1>2, <1>3

-----------------------------------------------------------------------------
(* Steps that change nothing *)

\* Nothing happens.
LEMMA StutterLife ==
    ASSUME TypeOK, TypeOK', LifeInv, AppKnown', UNCHANGED vars
    PROVE  LifeInv'
<1>1. UNCHANGED <<gtab, ltab, app, net, rpending, mgrstate, known>>
  BY SMT DEF vars
<1> net \in Net /\ 0 \in Ranks
  BY ZeroInRange DEF TypeOK, Net
<1>3. PICK m : Mute(m) /\ Quiet(m) /\ NetMove(0, 0, 0, 0, 0, m)
  BY <1>1, NetStays, SMT
<1>4. PcKept /\ MgrKept
  BY <1>1, MgrSame DEF PcKept
<1>5. m.op \notin {"DETACH", "CANCEL", "JOIN"}
  BY <1>3, SMT DEF Quiet
<1>6. /\ \A p : StartPending(p)' <=> StartPending(p)
      /\ \A p : JoinWaiting(p)' => JoinWaiting(p)
  BY <1>1 DEF StartPending, JoinWaiting
<1>7. 0 = 1 => net[0][0][1].op # "STARTED"
  BY SMT
<1> QED
  BY <1>1, <1>3, <1>4, <1>5, <1>6, <1>7, TablesLife

-----------------------------------------------------------------------------
(* Application threads *)

\* Application threads keep LifeInv.
LEMMA AppLife ==
    ASSUME TypeOK, TypeOK', LifeInv, AppKnown', NEW r \in Ranks, NEW l \in Slots,
           AppMoves(r, l)
    PROVE  LifeInv'
<1> net \in Net /\ NMaxThread \notin Slots /\ 0 \in Ranks
  BY NMaxThreadAssumption, ZeroInRange, SMT DEF TypeOK, Net, Slots
<1>1. PICK m : Mute(m) /\ Quiet(m) /\ NetMove(0, 0, 0, 0, 0, m)
  BY NetStays DEF AppMoves
<1>2. /\ SameSlots(NMaxThread) /\ SameDetached(NMaxThread) /\ NoHook
      /\ \A p : StartPending(p)' <=> StartPending(p)
      /\ \A p : JoinWaiting(p)' <=> JoinWaiting(p)
      /\ known' = known /\ DrainsOn
  BY DEF AppMoves, OnlyRet, SameSlots, SameDetached, NoHook, StartPending,
     JoinWaiting, DrainsOn, draining
<1>3. PICK e : /\ Sets(r, l, e)
               /\ \/ /\ e.pc \in Running /\ app[r][l].pc \in Running
                     /\ ltab'[r][l].pth_state = ltab[r][l].pth_state
                  \/ /\ e.pc = "clean" /\ app[r][l].pc \in Running \cup {"wrap"}
                     /\ ltab'[r][l].pth_state \in FinalStates
  BY DEF AppMoves
<1>4. \A q \in Ranks, k \in Slots : Lives(q, k)' <=> Lives(q, k)
  BY <1>3 DEF Sets, Lives, Running
<1>5. SameLives
  BY <1>4 DEF SameLives, AppMoves, OnlyState
<1>6. ASSUME NEW q \in Ranks, NEW k \in Slots, Lives(q, k)'
      PROVE  LiveState(q, k)'
  <2>1. LiveState(q, k) /\ ltab[q][k].gtab_idx \in Slots
    BY <1>4, <1>6, LiveFacts DEF LifeInv
  <2>2. /\ ltab'[q][k].gtab_idx = ltab[q][k].gtab_idx
        /\ gtab'[ltab[q][k].gtab_idx].has_ltab = gtab[ltab[q][k].gtab_idx].has_ltab
        /\ gtab'[ltab[q][k].gtab_idx].ltab_idx = gtab[ltab[q][k].gtab_idx].ltab_idx
    BY <2>1 DEF AppMoves, OnlyState, OnlyRet
  <2>3. CASE q = r /\ k = l
    BY <1>3, <2>1, <2>2, <2>3 DEF LiveState, Sets, Running
  <2>4. CASE ~(q = r /\ k = l)
    BY <1>3, <2>1, <2>2, <2>4, ZenonT(60) DEF LiveState, Sets, AppMoves, OnlyState
  <2> QED
    BY <2>3, <2>4
<1>7. LtabCounted'
  <2>1. InUse(r, l)
    BY <1>3, LivesInUse DEF LifeInv, Lives, Running
  <2>2. InUse(r, l)'
    <3>1. Lives(r, l)
      BY <1>3 DEF Lives, Running
    <3>2. ltab[r][l].pth_state # "NONE"
      BY <2>1 DEF InUse
    <3> QED
      BY <1>3, <3>2 DEF InUse, FinalStates
  <2>3. \A q \in Ranks, k \in Slots : InUse(q, k)' <=> InUse(q, k)
    BY <2>1, <2>2 DEF InUse, AppMoves, OnlyState
  <2> QED
    BY <2>3, CountedKept DEF LifeInv, AppMoves
<1>8. m.op \in {"DETACH", "CANCEL", "JOIN"} => m.thread \in known \cup {NoThread}
  BY <1>1 DEF Quiet
<1>9. 0 = 1 => net[0][0][1].op # "STARTED"
  BY SMT
<1> QED
  BY <1>1, <1>2, <1>5, <1>6, <1>7, <1>8, <1>9, QuietLife, ZenonT(60)

-----------------------------------------------------------------------------
(* What follows from the invariants *)

\* LtabGtabAgree follows from LiveInv.
LEMMA TablesFollow == TypeOK /\ ThreadInv => LtabGtabAgree
<1> SUFFICES ASSUME TypeOK, ThreadInv, NEW r \in Ranks, NEW l \in Slots, Lives(r, l)
             PROVE  /\ InUse(r, l) /\ dthread_dt2gtab(HandleOf(r, l))
                    /\ gtab[ltab[r][l].gtab_idx].rank = r
                    /\ \A k \in Slots : Lives(r, k) /\ HandleOf(r, k) = HandleOf(r, l)
                                           => k = l
  BY DEF LtabGtabAgree
<1>1. LiveInv
  BY DEF ThreadInv, LifeInv
<1>2. /\ Unended(HandleOf(r, l)) /\ gtab[ltab[r][l].gtab_idx].rank = r
      /\ \A k \in Slots :
            Lives(r, k) /\ ltab[r][k].gtab_idx = ltab[r][l].gtab_idx => k = l
  BY <1>1, LiveFacts
<1>3. \A k \in Slots : HandleOf(r, k) = HandleOf(r, l)
                         => ltab[r][k].gtab_idx = ltab[r][l].gtab_idx
  BY DEF HandleOf
<1> QED
  BY <1>1, <1>2, <1>3, LivesInUse DEF Unended

\* UnhookedBeforeTerminated follows from TransitInv.
LEMMA UnhookedFollows == ThreadInv => UnhookedBeforeTerminated
<1> SUFFICES ASSUME ThreadInv, NEW x \in InFlight({"TERMINATED"})
             PROVE  LET h == MsgAt(x).thread IN
                    /\ dthread_dt2gtab(h)
                    /\ ~gtab[h.idx].has_ltab
                    /\ \A r \in Ranks, l \in Slots : ~(Lives(r, l) /\ HandleOf(r, l) = h)
  BY DEF UnhookedBeforeTerminated
<1>1. PICK s \in Ranks, d \in Ranks :
        \E i \in 1 .. Len(net[s][d]) :
            net[s][d][i].op = "TERMINATED" /\ x = <<s, d, i>>
  BY SMT DEF InFlight
<1>2. PICK i \in 1 .. Len(net[s][d]) :
        net[s][d][i].op = "TERMINATED" /\ x = <<s, d, i>>
  BY <1>1
<1>3. PICK m : m = net[s][d][i]
  OBVIOUS
<1>4. MsgAt(x) = m
  BY <1>2, <1>3 DEF MsgAt
<1>5. Unhooked(m.thread)
  BY <1>2, <1>3 DEF ThreadInv, LifeInv, TransitInv, InTransit
<1>6. \A r \in Ranks, l \in Slots : ~(Lives(r, l) /\ HandleOf(r, l) = m.thread)
  BY <1>5, SMT DEF Unhooked, HandleOf
<1> QED
  BY <1>4, <1>5, <1>6 DEF Unhooked, Unended
=============================================================================
