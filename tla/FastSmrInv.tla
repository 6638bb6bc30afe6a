------------------------------ MODULE FastSmrInv ------------------------------
(***************************************************************************)
(* The inductive invariant of FastSmr.tla, as conjunctions of named parts: *)
(* where each work item is, what is counted, what the walk round the ring  *)
(* still waits for, in which order work lies in the queues, and which      *)
(* objects the hazard pointers of a thread can still lead to.              *)
(***************************************************************************)
EXTENDS FastSmr

Distinct(s) == \A i, j \in 1..Len(s) : s[i] = s[j] => i = j

OnNode(n) == Elements(queue0[n]) \union Elements(queue1[n])
Ready     == Elements(readyQueue) \union Elements(batch) \union Elements(run)

-------------------------------------------------------------------------------
(* Where work is *)

(* No node holds an item twice, no two nodes hold the same, and only the   *)
(* nodes of registered threads hold any.                                   *)
RingPlaces ==
    /\ \A n \in Threads :
          /\ Distinct(queue0[n]) /\ Distinct(queue1[n])
          /\ Elements(queue0[n]) \intersect Elements(queue1[n]) = {}
          /\ n \notin Registered => OnNode(n) = {}
    /\ \A m, n \in Threads : m # n => OnNode(m) \intersect OnNode(n) = {}
    /\ \A n \in Threads : \A w \in OnNode(n) :
          state[w] \in {"pass1", "pass2"} /\ w \notin Ready

(* The queues behind the ring. *)
ReadyPlaces ==
    /\ Distinct(readyQueue) /\ Distinct(batch) /\ Distinct(run)
    /\ Elements(readyQueue) \intersect Elements(batch) = {}
    /\ Elements(readyQueue) \intersect Elements(run) = {}
    /\ Elements(batch) \intersect Elements(run) = {}
    /\ \A w \in Ready : state[w] = "pass2"

SmrPlaces ==
    /\ Distinct(smrQueue)
    /\ \A w \in Work : w \in Elements(smrQueue) <=> state[w] = "smr"

(* Whatever was deferred is in one of these places. *)
DeferredPlaces ==
    /\ Distinct(deferred)
    /\ \A w \in Work : w \in Elements(deferred) <=> state[w] # "live"
    /\ \A w \in Elements(deferred) :
          \/ \E n \in Threads : w \in OnNode(n)
          \/ w \in Elements(smrQueue)
          \/ w \in Ready

(* What is counted. *)
Counts ==
    /\ deferredWork + Len(run) = Len(deferred) + workcount - Len(batch)
    /\ Len(smrQueue) <= smrCount
    /\ poll # "run" => batch = <<>> /\ workcount = 0
    /\ poll # "aborted"
    /\ poll = "done" => rcuStop /\ deferredWork = 0

(* The ring, the pointer into it and the list of hazard pointers. *)
RingShape ==
    /\ Distinct(ring)
    /\ IF poll = "visit" THEN at \in 1..Len(ring) ELSE at = 1
    /\ poll # "done" => Elements(smrNodes) = Registered

PlaceInv ==
    /\ TypeOK
    /\ RingPlaces /\ ReadyPlaces /\ SmrPlaces /\ DeferredPlaces
    /\ Counts /\ RingShape /\ NoLostWakeup

-------------------------------------------------------------------------------
(* What the walk round the ring waits for *)

(* With three threads or more, work of a thread that exits can get ahead   *)
(* of the walk.                                                            *)
ExitsOfTwo == MayExit => IsFiniteSet(Threads) /\ Cardinality(Threads) <= 2

(* The walk has gone on from the node at index j since it was at index i.  *)
Gone(i, j) == IF i <= at THEN i <= j /\ j < at ELSE i <= j \/ j < at

(* A thread that the walk has passed while work was in its first queue is  *)
(* not waited for any more, or has not quiesced since.                     *)
GraceInv ==
    /\ \A w \in Work : waiting[w] \subseteq Registered
    /\ \A w \in Work : waiting[w] # {} => \E n \in Threads : w \in OnNode(n)
    /\ \A i, j \in 1..Len(ring) :
          /\ \A w \in Elements(queue0[ring[i]]) :
                ring[j] \in waiting[w] /\ Gone(i, j) => ~fresh[ring[j]]
          /\ \A w \in Elements(queue1[ring[i]]) :
                ring[j] \in waiting[w] => ~Gone(i, j) /\ ~fresh[ring[j]]

-------------------------------------------------------------------------------
(* The order of work *)

(* v was deferred before w. *)
Earlier(v, w) ==
    \E i, j \in 1..Len(deferred) : i < j /\ deferred[i] = v /\ deferred[j] = w

(* The walk gets to the node at index i before it gets to that at j. *)
Sooner(i, j) == (i > at /\ j <= at) \/ (i < j /\ (i > at <=> j > at))

(* The part of a set of work that is in a pass. *)
InPass(S, p) == {w \in S : state[w] = p}
AllBefore(S, T) == \A v \in S, w \in T : Earlier(v, w)

(* Work of pass p leaves the ring in the order in which it was deferred,   *)
(* up to the order within one queue.                                       *)
RingOrder(p) ==
    \A i, j \in 1..Len(ring) :
        /\ AllBefore(InPass(Elements(queue1[ring[i]]), p),
                     InPass(Elements(queue0[ring[j]]), p))
        /\ Sooner(i, j) =>
             /\ AllBefore(InPass(Elements(queue1[ring[i]]), p),
                          InPass(Elements(queue1[ring[j]]), p))
             /\ AllBefore(InPass(Elements(queue0[ring[i]]), p),
                          InPass(Elements(queue0[ring[j]]), p))

(* What is through with its first pass was deferred before what is not,    *)
(* and nothing waits for hazard pointers when nobody has any.              *)
PassOrder ==
    /\ RingOrder("pass1")
    /\ \A v, w \in Work :
          state[v] \in {"smr", "pass2"} /\ state[w] = "pass1" => Earlier(v, w)
    /\ ring = <<>> => smrQueue = <<>>

(* The elements of s are in the order of the relation E. *)
Along(s, E) == \A i, j \in 1..Len(s) : i < j => <<s[i], s[j]>> \in E

(* Work of one pass is in the order it was deferred. *)
Orderly == {p \in Work \X Work : state[p[1]] = state[p[2]] => Earlier(p[1], p[2])}

(* When nobody exits, the order of each queue is that of defers, ... *)
QueueOrder ==
    /\ \A n \in Threads : Along(queue0[n], Orderly) /\ Along(queue1[n], Orderly)
    /\ Along(smrQueue, Orderly)

(* ... and with type fifo the second pass keeps to it. *)
FifoInv ==
    /\ RingOrder("pass2")
    /\ AllBefore(InPass(Work, "pass2"), Elements(smrQueue))
    /\ \A n \in Threads : AllBefore(Ready, InPass(OnNode(n), "pass2"))
    /\ AllBefore(Elements(run), Elements(batch) \union Elements(readyQueue))
    /\ AllBefore(Elements(batch), Elements(readyQueue))
    /\ Along(batch, Orderly) /\ Along(readyQueue, Orderly)
    /\ FifoOrder

-------------------------------------------------------------------------------
(* What hazard pointers lead to *)

(* From an object on the way, forrefs visits the rest of the way. *)
ChainLinks ==
    \A w \in Work : \A i \in 1..Len(Links[w]) :
        Links[Links[w][i]] = SubSeq(Links[w], i + 1, Len(Links[w]))

(* Links are followed only where the order of defers is kept. *)
OrderedLinks ==
    \/ \A w \in Work : Links[w] = <<>>
    \/ InOrder /\ ChainLinks /\ (Type = "fifo" => ~MayExit)

Reaches(x, u) == x \in Work /\ (x = u \/ u \in Elements(Links[x]))

(* Nothing that is still linked leads to work, and what leads to work was  *)
(* deferred before it.                                                     *)
LinkedInv ==
    /\ \A w \in linked : state[w] = "live"
    /\ \A v \in linked : Elements(Links[v]) \subseteq linked
    /\ InOrder => \A v, w \in Work :
          w \in Elements(Links[v]) /\ state[w] # "live" => Earlier(v, w)

(* What t's hazard pointers are once all its stores are visible: the object *)
(* it works on and the one it goes on to are both protected.                *)
Final(t) == Flushed(hptr[t], buffer[t])
Stored(t) ==
    /\ cand[t] # NULL => Final(t)[1] = cand[t]
    /\ using[t] # NULL /\ cand[t] = NULL => Final(t)[1] = using[t]
    /\ using[t] # NULL /\ cand[t] # NULL =>
          /\ Links[using[t]] # <<>> /\ cand[t] = Head(Links[using[t]])
          /\ Final(t)[2] = using[t]
          /\ Len(buffer[t]) > 0 => buffer[t][Len(buffer[t])] = <<1, cand[t]>>
          /\ Len(buffer[t]) > 1 => buffer[t][Len(buffer[t]) - 1] = <<2, using[t]>>

(* A thread that is not registered has no hazard pointer set. *)
Cleared(t) ==
    hptr[t] = <<NULL, NULL>> /\ buffer[t] = <<>> /\ cand[t] = NULL /\ using[t] = NULL

(* What t may still do with u is covered by the hazard pointers of t that  *)
(* are visible: u was queued before t quiesced.                            *)
Covered(t, u) ==
    LET b == buffer[t] IN
    /\ \A j \in 1..Len(b) : Reaches(b[j][2], u) =>
          /\ Reaches(hptr[t][1], u)
          /\ \A i \in 1..j : b[i][1] = 1 => Reaches(b[i][2], u)
    /\ Reaches(using[t], u) =>
          \/ /\ Reaches(hptr[t][1], u)
             /\ \A i \in 1..Len(b) :
                   b[i][1] = 1 /\ (i = Len(b) => cand[t] = NULL) => Reaches(b[i][2], u)
          \/ b = <<>> /\ cand[t] # NULL /\ hptr[t][2] = using[t]

(* The scan has copied the first of t's hazard pointers and found that it  *)
(* does not lead to u: only the second one can.                            *)
Missed(t, u) ==
    /\ ~Reaches(hptr[t][1], u)
    /\ \A i \in 1..Len(buffer[t]) : ~Reaches(buffer[t][i][2], u)
    /\ Reaches(using[t], u) =>
          using[t] = u /\ cand[t] # NULL /\ hptr[t][2] = u /\ buffer[t] = <<>>

(* t has nothing that leads to u. *)
Clean(t, u) ==
    /\ ~Reaches(hptr[t][1], u) /\ ~Reaches(hptr[t][2], u)
    /\ \A i \in 1..Len(buffer[t]) : ~Reaches(buffer[t][i][2], u)
    /\ ~Reaches(using[t], u)

ToBeCopied(t, k) == <<t, k>> \in Elements(toCopy)
Caught(u) == \E x \in copied : Reaches(x, u)

(* What the scan is about to copy: from the first or from the second of a  *)
(* thread's pair to the last pair.                                         *)
CopyInv ==
    /\ poll = "copy" => \E k \in 0..Len(Pairs) : toCopy = SubSeq(Pairs, k + 1, Len(Pairs))
    /\ poll = "mark" => toCopy = <<>>
    /\ poll \in {"copy", "mark"} =>
          /\ copied \intersect InPass(Work, "pass2") = {}
          /\ \A u \in Elements(smrQueue), t \in Registered :
                /\ ~ToBeCopied(t, 1) => Caught(u) \/ Missed(t, u)
                /\ ~ToBeCopied(t, 2) => Caught(u) \/ Clean(t, u)

HazardInv ==
    /\ LinkedInv
    /\ \A t \in Threads : Stored(t)
    /\ \A t \in Threads : t \notin Registered /\ poll # "done" => Cleared(t)
    /\ \A u \in Work : state[u] # "live" =>
          \A t \in Threads : t \notin waiting[u] => Covered(t, u)
    /\ \A u \in Work : state[u] = "pass2" => \A t \in Threads : Clean(t, u)
    /\ CopyInv
===============================================================================
