---------------------------- MODULE RcpcInvProofs ----------------------------
(***************************************************************************)
(* The steps of the proxy collector that set sequences and counts, move    *)
(* the ends of the chain or take a number keep its invariant; with those   *)
(* of RcpcProofs it is inductive, and Rcpc's safety properties follow.     *)
(***************************************************************************)
EXTENDS RcpcProofs

(* What the others have to rely on, when the links stay as they are.       *)
LEMMA OthersGoOn ==
    ASSUME TypeOK, TypeOK', IInv, LinksKept, NEW t \in Threads, Others(t),
           NEW u \in Threads \ {t}
    PROVE  /\ sequence <= sequence'
                 /\ (\A n \in Nodes : Used(n) /\ Has(u, n) => Has(u, n)') => Walk(u)'
           /\ sequence' = sequence
                 /\ (Looking(t)' => Looking(t) /\ Base(t)' = Base(t)) => Pend(u)'
           /\ (Frees(t)' => Frees(t))
                 /\ (Reclaiming(u) => count'[drop[u]] = count[drop[u]]) => Reclaim(u)'
<1> USE Consts, Types, TypesGive
<1>a. /\ Places /\ Links /\ Role(u) /\ Walk(u) /\ Stage(u) /\ Reclaim(u) /\ Pend(u)
  BY DEF IInv
<1>b. /\ FirstInUse' = FirstInUse /\ End' = End
      /\ \A n : Used(n)' <=> Used(n)
      /\ \A n : Real(n)' <=> Real(n)
  BY <1>a, LinksStep
<1>c. Reach(u)' = Reach(u)
  BY OthersLinks
<1>1. ASSUME sequence <= sequence', \A n \in Nodes : Used(n) /\ Has(u, n) => Has(u, n)'
      PROVE  Walk(u)'
  <2>1. Looking(u)' => Real(cur[u])' /\ pos'[cur'[u]] <= pos'[tail']
    BY OthersLinks
  <2>2. seq'[u] = seq[u] /\ cur'[u] = cur[u] /\ pos' = pos
    BY DEF Others, LinksKept
  <2>3. seq'[u] # 0 => seq'[u] <= sequence'
    <3>1. seq[u] # 0 => seq[u] <= sequence
      BY <1>a DEF Walk
    <3>2. seq[u] \in Nat /\ sequence \in Nat /\ sequence' \in Nat
      BY DEF TypeOK, ProxyType
    <3> QED
      BY <2>2, <3>1, <3>2, <1>1
  <2>4. ASSUME NEW n \in Nodes, Used(n), Has(u, n), pos[cur[u]] <= pos[n], pos[n] <= Reach(u)
        PROVE  Used(n)' /\ Has(u, n)' /\ pos'[cur'[u]] <= pos'[n] /\ pos'[n] <= Reach(u)'
    BY <1>1, <1>b, <1>c, <2>2, <2>4
  <2>5. seq[u] # 0 => \E n \in Nodes : Used(n) /\ Has(u, n) /\ pos[cur[u]] <= pos[n] /\ pos[n] <= Reach(u)
    BY <1>a DEF Walk
  <2> QED
    BY <2>1, <2>2, <2>3, <2>4, <2>5 DEF Walk
<1>2. ASSUME sequence' = sequence, Looking(t)' => Looking(t) /\ Base(t)' = Base(t)
      PROVE  Pend(u)'
  <2>1. ASSUME NEW v \in Threads, Looking(v)'
        PROVE  Looking(v) /\ Base(v)' = Base(v)
    <3>1. CASE v = t
      BY <1>2, <2>1, <3>1
    <3>2. CASE v # t
      BY <2>1, <3>2, OthersControl, OthersLinks
    <3> QED
      BY <3>1, <3>2
  <2>2. SequenceMatches(u)' <=> SequenceMatches(u)
    BY <1>2 DEF SequenceMatches, Others
  <2> QED
    BY <1>2, <1>a, <1>b, <2>1, <2>2 DEF Pend, Others, LinksKept
<1>3. ASSUME Frees(t)' => Frees(t), Reclaiming(u) => count'[drop[u]] = count[drop[u]]
      PROVE  Reclaim(u)'
  <2>1. \A v \in Threads : Frees(v)' => Frees(v)
    BY <1>3, OthersControl
  <2>2. Frees(u)' <=> Frees(u)
    BY OthersControl
  <2>3. Reclaiming(u)' <=> Reclaiming(u)
    BY OthersControl
  <2>4. /\ drop'[u] = drop[u] /\ pos' = pos /\ tail' = tail /\ freeTail' = freeTail
        /\ pc'[u] = pc[u] /\ nxt'[u] = nxt[u] /\ next'[freeTail] = next[freeTail]
    BY <1>a, ChainFacts DEF Others, LinksKept
  <2> QED
    BY <1>3, <1>a, <1>b, <2>1, <2>2, <2>3, <2>4 DEF Reclaim
<1> QED
  BY <1>1, <1>2, <1>3

(* Passing the sequence of the tail on, and adding to its count what the   *)
(* two sequences say: nobody's number comes to another node.               *)
Settles(t) ==
    /\ Setting(t) /\ cur[t] = tail /\ nodeSeq[tail] # 0
    /\ LinksKept /\ sequence' = sequence /\ nodeSeq' = nodeSeq
    /\ \A n \in Nodes :
          \/ prevSeq'[n] = prevSeq[n]
          \/ n = next[tail] /\ prevSeq[n] = 0 /\ prevSeq'[n] = nodeSeq[tail]
    /\ \A n \in Nodes \ {tail} : count'[n] = count[n]
    /\ \/ count'[tail] = count[tail]
       \/ /\ Passed(tail)
          /\ ~Odd(count'[tail]) /\ count'[tail] = count[tail] + Missing(tail)
    /\ pc'[t] \in {"s_count", "s_tail"}
    /\ ret'[t] = ret[t] /\ ref'[t] = ref[t] /\ use'[t] = use[t] /\ old'[t] = old[t]
    /\ seq'[t] = seq[t] /\ cur'[t] = cur[t] /\ lat'[t] = lat[t] /\ own'[t] = own[t]
    /\ drop'[t] = drop[t] /\ nxt'[t] = nxt[t] /\ free'[t] = free[t] /\ node'[t] = node[t]
    /\ arg'[t] = arg[t]

LEMMA SettlesStep ==
    ASSUME TypeOK, TypeOK', IInv, NEW t \in Threads, Others(t), Settles(t),
           Stage(t)', Owners', Allocated', Accounted'
    PROVE  IInv'
<1> USE Consts, TypesGive, ChainFacts, Types
<1>a. /\ Places /\ Links /\ Sequences /\ Counts /\ Swinging
      /\ \A u \in Threads : Mine(u)
  BY DEF IInv, Mine
<1>0. LinksKept
  BY DEF Settles
<1>b. /\ Places' /\ Links'
      /\ Newest' = Newest /\ End' = End /\ FirstInUse' = FirstInUse
      /\ \A n : Used(n)' <=> Used(n)
      /\ \A n : Real(n)' <=> Real(n)
      /\ \A n : Place(n)' = Place(n)
  BY <1>a, <1>0, LinksStep
<1>c. /\ next[tail] \in Nodes /\ next[tail] = Newest /\ next[tail] # tail
      /\ pos[next[tail]] = pos[tail] + 1
      /\ next'[tail'] = next[tail] /\ tail' = tail
  <2>1. next[tail] # NULL
    BY <1>a DEF Mine, Stage, Settles
  <2>2. pos[tail] > 0
    BY <1>a
  <2> QED
    BY <1>a, <1>0, <2>1, <2>2 DEF Newest, LinksKept
<1>1. \A n \in Nodes : Upper(n)' = Upper(n)
  BY DEF Upper, Settles
<1>2. \A n \in Nodes : From(n)' = From(n)
  <2>1. Upper(tail) = nodeSeq[tail] /\ tail' = tail
    BY <1>c DEF Upper, Settles
  <2>2. Upper(tail)' = Upper(tail)
    BY <1>1, <1>c
  <2> QED
    BY <2>1, <2>2 DEF From, Settles
<1>3. \A u \in Threads : \A n \in Nodes : Has(u, n)' <=> Has(u, n)
  <2>1. \A u \in Threads : seq'[u] = seq[u]
    BY DEF Others, Settles
  <2> QED
    BY <1>1, <1>2, <2>1 DEF Has
<1>4. \A n \in Nodes : Shares(n)' = Shares(n)
  <2> SUFFICES ASSUME NEW n \in Nodes PROVE Shares(n)' = Shares(n)
    OBVIOUS
  <2>1. /\ Shares(n) \in Nat
        /\ Shares(n)' = Shares(n) + Share(t, n)' - Share(t, n) + Place(n)' - Place(n)
    BY <1>3, SharesStep
  <2>2. drop[t] = NULL
    BY <1>a, Controls DEF Mine, Settles
  <2>3. Share(t, n)' = Share(t, n)
    BY <1>3, <2>2, ShareIs DEF Settles
  <2>4. Place(n)' = Place(n) /\ Place(n) \in Nat /\ Share(t, n) \in Nat
    BY <1>b, PlaceIs, SharesOf
  <2> QED
    BY <2>1, <2>3, <2>4
<1>5. \A n \in Nodes : count'[n] + Missing(n)' = count[n] + Missing(n)
  <2> SUFFICES ASSUME NEW n \in Nodes PROVE count'[n] + Missing(n)' = count[n] + Missing(n)
    OBVIOUS
  <2>1. CASE count'[n] = count[n]
    BY <1>1, <1>2, <2>1 DEF Missing
  <2>2. CASE count'[n] # count[n]
    <3>1. n = tail
      BY <2>2 DEF Settles
    <3>2. ~Odd(count'[n]) /\ count'[n] = count[n] + Missing(n)
      BY <2>2, <3>1 DEF Settles
    <3>3. Missing(n)' = 0
      BY <3>2 DEF Missing
    <3>4. count'[n] \in Int
      BY DEF TypeOK, NodeType
    <3> QED
      BY <3>2, <3>3, <3>4
  <2> QED
    BY <2>1, <2>2
<1>6. \A u \in Threads : Frees(u)' <=> Frees(u)
  <2>1. ~Frees(t) /\ ~Frees(t)'
    BY DEF Settles, Setting, Frees, Reclaiming
  <2> QED
    BY <2>1, OthersControl
<1>7. \A u \in Threads : Reclaiming(u) =>
          /\ Reclaiming(u)' /\ drop'[u] = drop[u]
          /\ drop[u] \in Nodes \ {tail}
  <2> SUFFICES ASSUME NEW u \in Threads, Reclaiming(u)
               PROVE  /\ Reclaiming(u)' /\ drop'[u] = drop[u]
                      /\ drop[u] \in Nodes \ {tail}
    OBVIOUS
  <2>1. u # t
    BY DEF Settles, Setting, Reclaiming
  <2>2. Reclaiming(u)' /\ drop'[u] = drop[u]
    BY <2>1, OthersControl DEF Others
  <2>3. drop[u] \in Nodes /\ pos[drop[u]] < pos[tail]
    BY <1>a, Controls DEF Mine, Reclaim, Frees, Reclaiming, Dropping
  <2> QED
    BY <2>2, <2>3
<1>8. Counts'
  BY <1>a, <1>b, <1>4, <1>5, <1>7 DEF Counts
<1>9. \A n \in Nodes : pos[n] > 0 /\ next[n] # NULL =>
          /\ Passed(n) => Passed(n)'
          /\ Settled(n) => Settled(n)'
  <2> SUFFICES ASSUME NEW n \in Nodes, pos[n] > 0, next[n] # NULL
               PROVE  /\ Passed(n) => Passed(n)'
                      /\ Settled(n) => Settled(n)'
    OBVIOUS
  <2>1. next[n] \in Nodes /\ next'[n] = next[n] /\ nodeSeq'[n] = nodeSeq[n]
    BY <1>a, <1>0 DEF LinksKept, Settles
  <2>2. Passed(n) => Passed(n)'
    BY <2>1 DEF Passed, Settles
  <2>3. ~Odd(count[n]) => ~Odd(count'[n])
    BY DEF Settles
  <2> QED
    BY <2>2, <2>3 DEF Settled
<1>10. Sequences'
  <2>1. \A n \in Nodes : Real(n)' /\ pos'[n] < pos'[tail'] => Settled(n)'
    <3> SUFFICES ASSUME NEW n \in Nodes, Real(n), pos[n] < pos[tail]
                 PROVE  Settled(n)'
      BY <1>b, <1>0 DEF LinksKept
    <3>1. Settled(n)
      BY <1>a DEF Sequences
    <3>2. pos[n] > 0 /\ next[n] # NULL
      BY <1>a DEF Links
    <3> QED
      BY <3>1, <3>2, <1>9
  <2>2. \A n \in Nodes : Real(n)' /\ pos'[n] <= pos'[tail'] => prevSeq'[n] # 0
    BY <1>a, <1>b, <1>0 DEF LinksKept, Settles, Sequences
  <2>3. next'[tail'] # NULL => prevSeq'[next'[tail']] \in {0, nodeSeq'[tail']}
    BY <1>a, <1>c DEF Sequences, Settles
  <2>4. ~Odd(count'[tail']) => next'[tail'] # NULL /\ Passed(tail)'
    <3>1. ~Odd(count'[tail]) => Passed(tail)
      BY <1>a DEF Sequences, Settles
    <3>2. Passed(tail) => prevSeq'[next[tail]] = nodeSeq[tail]
      BY <1>c DEF Passed, Settles
    <3> QED
      BY <1>c, <3>1, <3>2 DEF Passed, Settles
  <2>5. nodeSeq'[Newest'] = 0 /\ Odd(count'[Newest'])
    BY <1>a, <1>b, <1>c DEF Sequences, Settles
  <2>6. sequence' = sequence /\ pos' = pos
    BY DEF Settles, LinksKept
  <2>7. \A n \in Nodes : Real(n)' => From(n)' <= Upper(n)' /\ Upper(n)' <= sequence'
    BY <1>a, <1>b, <1>1, <1>2, <2>6 DEF Sequences
  <2>8. \A m, n \in Nodes : Real(m)' /\ pos'[m] < pos'[n] => Upper(m)' <= From(n)'
    BY <1>a, <1>b, <1>1, <1>2, <2>6 DEF Sequences
  <2> QED
    BY <1>c, <2>1, <2>2, <2>3, <2>4, <2>5, <2>7, <2>8 DEF Sequences
<1>11. Swinging'
  <2>1. Setting(t)' /\ cur'[t] = tail'
    BY <1>c DEF Settles, Setting
  <2> QED
    BY <2>1 DEF Swinging
<1>12. \A u \in Threads : pc[u] = "s_set" => ~Unset(u)
  <2> SUFFICES ASSUME NEW u \in Threads, pc[u] = "s_set", Unset(u) PROVE FALSE
    OBVIOUS
  <2>1. cur[u] = tail
    BY <1>a, Unsettled DEF Mine, Setting, Settled, Passed, Unset
  <2> QED
    BY <2>1 DEF Unset, Settles
<1>13. ASSUME NEW u \in Threads \ {t}
       PROVE  Mine(u)'
  <2>0. Stage(u)
    BY <1>a DEF Mine
  <2>1. /\ Role(u)' /\ Caller(u)' /\ Touch(u)' /\ Pop(u)'
        /\ Setting(u) => cur[u] \in Nodes /\ pos[cur[u]] > 0 /\ next[cur[u]] \in Nodes
        /\ Setting(u)' => next'[cur'[u]] # NULL
        /\ pc'[u] \in {"g_cmp", "a_more", "a_end"} => pos'[cur'[u]] < pos'[tail']
        /\ Dropping(u)' /\ cur'[u] # NULL => pos'[cur'[u]] < pos'[tail']
    BY <1>0, OthersLinks
  <2>2. Walk(u)' /\ Pend(u)' /\ Reclaim(u)'
    <3>1. sequence' = sequence /\ sequence <= sequence'
      BY DEF Settles
    <3>2. Looking(t)' => Looking(t) /\ Base(t)' = Base(t)
      BY DEF Looking, Base, Settles, Setting, LinksKept
    <3>3. Reclaiming(u) => count'[drop[u]] = count[drop[u]]
      BY <1>7 DEF Settles
    <3> QED
      BY <1>0, <1>3, <1>6, <3>1, <3>2, <3>3, OthersGoOn
  <2>3. Stage(u)'
    <3>1. pc'[u] = pc[u] /\ cur'[u] = cur[u] /\ nodeSeq' = nodeSeq
      BY DEF Others, Settles
    <3>2. pc[u] \in {"s_prev", "s_count", "s_tail"} =>
            /\ nodeSeq[cur[u]] # 0
            /\ cur[u] \in Nodes /\ pos[cur[u]] > 0 /\ next[cur[u]] # NULL
      BY <2>0, <2>1 DEF Setting, Stage
    <3>3. /\ pc[u] \in {"s_count", "s_tail"} => Passed(cur[u])'
          /\ pc[u] = "s_tail" => Settled(cur[u])'
      <4>1. pc[u] \in {"s_count", "s_tail"} => (Passed(cur[u]) => Passed(cur[u])')
        BY <1>9, <3>1, <3>2
      <4>2. pc[u] = "s_tail" => (Settled(cur[u]) => Settled(cur[u])')
        BY <1>9, <3>1, <3>2
      <4> QED
        BY <2>0, <4>1, <4>2 DEF Stage
    <3>4. pc[u] = "s_set" => ~Unset(u)'
      BY <1>12, <3>1 DEF Unset
    <3> QED
      BY <2>1, <3>1, <3>2, <3>3, <3>4 DEF Stage
  <2> QED
    BY <2>1, <2>2, <2>3 DEF Mine
<1>14. Mine(t)'
  <2>0. /\ Role(t) /\ Caller(t) /\ Walk(t) /\ Touch(t)
        /\ Setting(t) /\ Setting(t)' /\ ~Dropping(t) /\ ~Dropping(t)' /\ pos' = pos /\ tail' = tail
    BY <1>a DEF Mine, Settles, LinksKept, Setting, Dropping
  <2>1. Role(t)' /\ Caller(t)'
    BY <2>0 DEF Settles, Role, Caller, At, Seeks, Gets, Adds, Setting
  <2>2. Walk(t)'
    <3>1. Looking(t)' => Real(cur[t])' /\ pos'[cur'[t]] <= pos'[tail']
      BY <1>a, <1>b, <1>0, <2>0 DEF Settles
    <3>2. ASSUME NEW n \in Nodes, Used(n), Has(t, n), pos[cur[t]] <= pos[n], pos[n] <= Reach(t)
          PROVE  Used(n)' /\ Has(t, n)' /\ pos'[cur'[t]] <= pos'[n] /\ pos'[n] <= Reach(t)'
      BY <1>b, <1>3, <2>0, <3>2 DEF Settles, Reach, Base
    <3> QED
      BY <2>0, <3>1, <3>2 DEF Walk, Settles
  <2>3. Touch(t)'
    BY <1>b, <2>0 DEF Touch, Settles
  <2>4. Pend(t)' /\ Reclaim(t)' /\ Pop(t)'
    BY DEF Settles, Pend, Reclaim, Frees, Reclaiming, Pop
  <2> QED
    BY <2>1, <2>2, <2>3, <2>4 DEF Mine
<1> QED
  BY <1>b, <1>8, <1>10, <1>11, <1>13, <1>14 DEF IInv, Mine

LEMMA SetPrevWrite ==
    ASSUME TypeOK, TypeOK', IInv, NEW t \in Threads, Others(t),
           SetPrev(t) /\ prevSeq[next[cur[t]]] # nodeSeq[cur[t]]
    PROVE  IInv'
<1> USE Types, TypesGive, Bounds
<1>0. /\ ClientType /\ LocalType /\ NodeType /\ Places /\ Links /\ Sequences /\ Allocated
      /\ Role(t) /\ Caller(t) /\ Stage(t) /\ Walk(t) /\ numNodes \in 0..MaxNodes
  BY DEF TypeOK, IInv, Accounted, NodeAccounting
<1>1. /\ pc[t] = "s_prev" /\ pc'[t] = "s_count"
      /\ ret'[t] = ret[t] /\ ref'[t] = ref[t] /\ use'[t] = use[t] /\ old'[t] = old[t]
      /\ seq'[t] = seq[t] /\ cur'[t] = cur[t] /\ lat'[t] = lat[t] /\ own'[t] = own[t]
      /\ drop'[t] = drop[t] /\ nxt'[t] = nxt[t] /\ free'[t] = free[t] /\ node'[t] = node[t]
      /\ arg'[t] = arg[t]
  BY <1>0 DEF SetPrev, Goto, localVars, clientVars, getVars, newVars, ClientType
<1>2. Setting(t) /\ nodeSeq[cur[t]] # 0
  BY <1>0, <1>1 DEF Setting, Stage
<1>3. cur[t] = tail /\ next[tail] \in Nodes
  BY <1>0, <1>1, <1>2, Unsettled DEF Settled, Passed, SetPrev
<1>4. /\ pos[tail] > 0 /\ pos[next[tail]] > 0 /\ next[tail] = Newest
  BY <1>0, <1>3, Consts, ChainFacts DEF Newest
<1>5. prevSeq[next[tail]] = 0
  BY <1>0, <1>3 DEF Sequences, SetPrev
<1>6. prevSeq' = [prevSeq EXCEPT ![next[tail]] = nodeSeq[tail]]
  BY <1>3 DEF SetPrev
<1>7. LinksKept /\ alive
  BY <1>0, <1>1 DEF SetPrev, LinksKept, Allocated, proxyVars, historyVars
<1>8. Settles(t)
  BY <1>0, <1>1, <1>2, <1>3, <1>5, <1>6, <1>7 DEF Settles, SetPrev, proxyVars, NodeType
<1>9. Stage(t)'
  <2>1. Passed(cur[t])'
    BY <1>0, <1>1, <1>2, <1>3, <1>6 DEF Passed, SetPrev, NodeType
  <2> QED
    BY <1>0, <1>1, <1>2, <1>3, <2>1 DEF Stage, SetPrev, Setting, Dropping
<1>10. Plain(t)
  <2>1. \A n \in Nodes : pos[n] = 0 => prevSeq'[n] = prevSeq[n]
    BY <1>0, <1>4, <1>6 DEF NodeType
  <2> QED
    BY <1>0, <1>1, <2>1 DEF Plain, SameHeap, SetPrev, Owns, Ready, IsBetween, heapVars, proxyVars, historyVars, At, Setting, Dropping
<1>11. Owners' /\ Allocated' /\ Accounted'
  BY <1>7, <1>10, PlainStep
<1> QED
  BY <1>8, <1>9, <1>11, SettlesStep

(* The adjustment is what is missing in the count.                         *)
LEMMA Adjusted ==
    ASSUME TypeOK, NEW n \in Nodes, nodeSeq[n] # 0, prevSeq[n] # 0, Odd(count[n])
    PROVE  Adjustment(n) = Missing(n) /\ Adjustment(n) \in Int
BY TypesGive DEF Adjustment, Missing, Upper, From, GUARD_BIT

(* Numbers that are even with twice a number.                              *)
LEMMA Even ==
    ASSUME NEW k \in Int
    PROVE  ~Odd(REFERENCE * k) /\ (Odd(k) => Odd(k - REFERENCE)) /\ (~Odd(k) => ~Odd(k - REFERENCE))
BY DEF Odd, REFERENCE

LEMMA SetCountWrite ==
    ASSUME TypeOK, TypeOK', IInv, NEW t \in Threads, Others(t),
           SetCount(t) /\ Unadjusted(cur[t])
    PROVE  IInv'
<1> USE Types, TypesGive, Bounds
<1>0. /\ ClientType /\ LocalType /\ NodeType /\ Places /\ Links /\ Sequences /\ Allocated
      /\ Counts
      /\ Role(t) /\ Caller(t) /\ Stage(t) /\ Walk(t) /\ numNodes \in 0..MaxNodes
  BY DEF TypeOK, IInv, Accounted, NodeAccounting
<1>1. /\ pc[t] = "s_count" /\ pc'[t] = "s_tail"
      /\ ret'[t] = ret[t] /\ ref'[t] = ref[t] /\ use'[t] = use[t] /\ old'[t] = old[t]
      /\ seq'[t] = seq[t] /\ cur'[t] = cur[t] /\ lat'[t] = lat[t] /\ own'[t] = own[t]
      /\ drop'[t] = drop[t] /\ nxt'[t] = nxt[t] /\ free'[t] = free[t] /\ node'[t] = node[t]
      /\ arg'[t] = arg[t]
  BY <1>0 DEF SetCount, Goto, localVars, clientVars, getVars, newVars, ClientType
<1>2. Setting(t) /\ nodeSeq[cur[t]] # 0 /\ Passed(cur[t])
  BY <1>0, <1>1 DEF Setting, Stage
<1>3. cur[t] = tail /\ next[tail] \in Nodes
  BY <1>0, <1>1, <1>2, Unsettled DEF Settled, SetCount, Unadjusted
<1>4. Used(tail) /\ pos[tail] > 0 /\ prevSeq[tail] # 0 /\ Odd(count[tail])
  BY <1>0, <1>3, ChainFacts, SequenceFacts, Consts DEF SetCount, Unadjusted
<1>5. count'[tail] = count[tail] + Missing(tail)
  BY <1>0, <1>2, <1>3, <1>4, Adjusted DEF SetCount, NodeType
<1>6. ~Odd(count'[tail])
  <2>1. count[tail] + Missing(tail) = REFERENCE * Shares(tail)
    BY <1>0, <1>4 DEF Counts
  <2>2. Shares(tail) \in Nat
    BY SharesOf
  <2> QED
    BY <1>5, <2>1, <2>2, Even
<1>7. LinksKept /\ alive
  BY <1>0, <1>1 DEF SetCount, LinksKept, Allocated, proxyVars, historyVars
<1>8. Settles(t)
  BY <1>0, <1>1, <1>2, <1>3, <1>5, <1>6, <1>7 DEF Settles, SetCount, proxyVars, NodeType
<1>9. Stage(t)'
  <2>1. Passed(cur[t])' /\ Settled(cur[t])'
    BY <1>1, <1>2, <1>3, <1>6 DEF Passed, Settled, SetCount
  <2> QED
    BY <1>0, <1>1, <1>2, <1>3, <2>1 DEF Stage, SetCount, Setting, Dropping
<1>10. Plain(t)
  <2>1. \A n \in Nodes : pos[n] = 0 => count'[n] = count[n]
    BY <1>0, <1>3, <1>4 DEF NodeType, SetCount
  <2> QED
    BY <1>0, <1>1, <2>1 DEF Plain, SameHeap, SetCount, Owns, Ready, IsBetween, heapVars, proxyVars, historyVars, At, Setting, Dropping
<1>11. Owners' /\ Allocated' /\ Accounted'
  BY <1>7, <1>10, PlainStep
<1> QED
  BY <1>8, <1>9, <1>11, SettlesStep

-------------------------------------------------------------------------------
(* Giving up a share; with the last one the node is the dropping thread's  *)
(* to let go.                                                              *)
LEMMA DropSubKept ==
    ASSUME TypeOK, TypeOK', IInv, NEW t \in Threads, Others(t), DropSub(t)
    PROVE  IInv'
<1> USE Consts, TypesGive, Types
<1>a. /\ Places /\ Links /\ Sequences /\ Counts /\ Swinging /\ Allocated
      /\ ClientType /\ LocalType /\ NodeType /\ numNodes \in 0..MaxNodes
      /\ \A u \in Threads : Mine(u)
  BY DEF IInv, Mine, TypeOK, Accounted, NodeAccounting
<1>b. PICK d \in Nodes : d = drop[t] /\ Used(d)
  BY <1>a, Controls DEF Mine, Touch, DropSub, Dropping
<1>c. /\ pc[t] = "d_sub"
      /\ \/ count[d] = REFERENCE /\ pc'[t] = "d_next" /\ drop'[t] = d /\ ret'[t] = ret[t]
         \/ count[d] # REFERENCE /\ pc'[t] = ret[t] /\ drop'[t] = NULL /\ ret'[t] = "idle"
      /\ ref'[t] = ref[t] /\ use'[t] = use[t] /\ old'[t] = old[t]
      /\ seq'[t] = seq[t] /\ cur'[t] = cur[t] /\ lat'[t] = lat[t] /\ own'[t] = own[t]
      /\ nxt'[t] = nxt[t] /\ free'[t] = free[t] /\ node'[t] = node[t] /\ arg'[t] = arg[t]
      /\ ret[t] \in {"idle", "g_seq", "g_cmp", "a_more", "a_end", "t_free", "backoff"}
  BY <1>a, <1>b DEF DropSub, TookLast, Goto, clientVars, localVars, getVars, newVars, ClientType, LocalType
<1>d. /\ count' = [count EXCEPT ![d] = @ - REFERENCE]
      /\ sequence' = sequence /\ nodeSeq' = nodeSeq /\ prevSeq' = prevSeq
      /\ numNodes' = numNodes /\ heap' = heap /\ alive' = alive
      /\ tail' = tail /\ freeHead' = freeHead /\ freeTail' = freeTail /\ pos' = pos
      /\ next' = next /\ data' = data /\ failed' = failed
  BY <1>b DEF DropSub, proxyVars, heapVars, historyVars
<1>0. LinksKept /\ alive
  BY <1>a, <1>c, <1>d DEF LinksKept, Allocated
<1>e. /\ Places' /\ Links'
      /\ Newest' = Newest /\ End' = End /\ FirstInUse' = FirstInUse
      /\ \A n : Used(n)' <=> Used(n)
      /\ \A n : Real(n)' <=> Real(n)
      /\ \A n : Place(n)' = Place(n)
  BY <1>a, <1>0, LinksStep
<1>f. /\ Real(d) /\ pos[d] > 0
      /\ tail \in Nodes /\ Newest \in Nodes /\ freeTail \in Nodes
  BY <1>a, <1>b, ChainFacts
<1>1. /\ \A n \in Nodes : Upper(n)' = Upper(n) /\ From(n)' = From(n)
      /\ \A u \in Threads : \A n \in Nodes : Has(u, n)' <=> Has(u, n)
  <2>1. \A n \in Nodes : Upper(n)' = Upper(n)
    BY <1>d DEF Upper
  <2>2. \A n \in Nodes : From(n)' = From(n)
    BY <1>d, <2>1, <1>f DEF From
  <2>3. \A u \in Threads : seq'[u] = seq[u]
    BY <1>c DEF Others
  <2> QED
    BY <2>1, <2>2, <2>3 DEF Has
<1>2. /\ count'[d] = count[d] - REFERENCE
      /\ \A n \in Nodes \ {d} : count'[n] = count[n]
      /\ \A n \in Nodes : Odd(count'[n]) <=> Odd(count[n])
  <2>1. /\ count'[d] = count[d] - REFERENCE
        /\ \A n \in Nodes \ {d} : count'[n] = count[n]
    BY <1>a, <1>d DEF NodeType
  <2>2. Odd(count'[d]) <=> Odd(count[d])
    BY <2>1, Even
  <2> QED
    BY <2>1, <2>2
<1>3. \A n \in Nodes : Missing(n)' = Missing(n)
  BY <1>1, <1>2 DEF Missing
<1>4. Share(t, d) >= 1
  <2>1. d # NULL
    OBVIOUS
  <2> QED
    BY <1>b, <1>c, ShareIs
<1>5. /\ Shares(d) \in Nat /\ Shares(d)' = Shares(d) - 1
      /\ \A n \in Nodes \ {d} : Shares(n)' = Shares(n)
  <2>1. ASSUME NEW n \in Nodes
        PROVE  Shares(n) \in Nat /\ Shares(n)' = Shares(n) - (IF n = d THEN 1 ELSE 0)
    <3>1. /\ Shares(n) \in Nat
          /\ Shares(n)' = Shares(n) + Share(t, n)' - Share(t, n) + Place(n)' - Place(n)
      BY <1>1, SharesStep
    <3>2. Share(t, n)' = Share(t, n) - (IF n = d THEN 1 ELSE 0)
      BY <1>b, <1>c, <1>1, ShareIs
    <3>3. Place(n)' = Place(n) /\ Place(n) \in Nat /\ Share(t, n) \in Nat
      BY <1>e, PlaceIs, SharesOf
    <3> QED
      BY <3>1, <3>2, <3>3
  <2> QED
    BY <2>1
<1>6. count[d] + Missing(d) = REFERENCE * Shares(d)
  BY <1>a, <1>b DEF Counts
<1>7. Share(t, d) + Place(d) <= Shares(d)
  BY SharesOf
<1>8. ASSUME count[d] = REFERENCE
      PROVE  /\ Shares(d)' = 0
             /\ pos[d] = FirstInUse /\ pos[d] < pos[tail]
             /\ \A u \in Threads \ {t} : ~Frees(u)
  <2>1. Missing(d) = 0
    BY <1>8 DEF Missing, Odd, REFERENCE
  <2>2. Shares(d) = 1
    BY <1>5, <1>6, <1>8, <2>1 DEF REFERENCE
  <2>3. Place(d) = 0
    BY <1>4, <1>7, <2>2, PlaceIs, SharesOf
  <2>4. pos[d] < pos[tail] /\ pos[d] = FirstInUse
    <3>1. pos[d] \in Nat /\ pos[tail] \in Nat /\ FirstInUse \in Nat /\ pos[d] >= FirstInUse
      BY <1>a, <1>b, ChainFacts DEF Used
    <3> QED
      BY <2>3, <3>1 DEF Place, TailShare, LinkShare
  <2>5. ASSUME NEW u \in Threads \ {t}, Frees(u) PROVE FALSE
    <3>1. pos[drop[u]] = FirstInUse /\ drop[u] \in Nodes
      BY <1>a, <2>5, Controls DEF Mine, Reclaim, Frees, Reclaiming, Dropping
    <3>2. drop[u] = d
      BY <1>a, <1>f, <2>4, <3>1 DEF Places
    <3>3. CASE Reclaiming(u)
      <4>1. count[d] = 0
        BY <1>a, <2>5, <3>2, <3>3 DEF Mine, Reclaim
      <4> QED
        BY <1>8, <4>1 DEF REFERENCE
    <3>4. CASE pc[u] = "d_free"
      <4>1. Share(u, d) >= 1
        BY <3>2, <3>4, ShareIs
      <4>2. Share(t, d) + Share(u, d) + Place(d) <= Shares(d)
        BY SharesOf
      <4> QED
        BY <1>4, <2>2, <4>1, <4>2, PlaceIs, SharesOf
    <3> QED
      BY <2>5, <3>3, <3>4 DEF Frees
  <2> QED
    BY <1>5, <2>2, <2>4, <2>5
<1>9. count[d] # REFERENCE => Shares(d)' > 0
  <2> SUFFICES ASSUME count[d] # REFERENCE PROVE Shares(d) > 1
    BY <1>5
  <2>1. CASE Odd(count[d])
    <3>1. ~(pos[d] < pos[tail])
      BY <1>a, <1>f, <2>1 DEF Sequences, Settled
    <3>2. Place(d) >= 1
      BY <3>1 DEF Place, TailShare, LinkShare
    <3> QED
      BY <1>4, <1>5, <1>7, <3>2, PlaceIs, SharesOf
  <2>2. CASE ~Odd(count[d])
    <3>1. count[d] = REFERENCE * Shares(d)
      BY <1>5, <1>6, <2>2 DEF Missing, REFERENCE
    <3>2. Shares(d) >= 1
      BY <1>4, <1>5, <1>7, PlaceIs, SharesOf
    <3> QED
      BY <1>5, <3>1, <3>2 DEF REFERENCE
  <2> QED
    BY <2>1, <2>2
<1>10. \A u \in Threads \ {t} : Reclaiming(u) => drop[u] \in Nodes \ {d}
  <2> SUFFICES ASSUME NEW u \in Threads \ {t}, Reclaiming(u) PROVE drop[u] \in Nodes \ {d}
    OBVIOUS
  <2>1. drop[u] \in Nodes /\ count[drop[u]] = 0
    BY <1>a, Controls DEF Mine, Reclaim, Frees, Reclaiming, Dropping
  <2>2. ASSUME drop[u] = d PROVE FALSE
    <3>1. Missing(d) = 0 /\ count[d] = 0
      BY <2>1, <2>2 DEF Missing, Odd
    <3>2. Shares(d) = 0
      BY <1>5, <1>6, <3>1 DEF REFERENCE
    <3> QED
      BY <1>4, <1>7, <3>2, PlaceIs, SharesOf
  <2> QED
    BY <2>1, <2>2
<1>11. Counts'
  <2> SUFFICES ASSUME NEW n \in Nodes, Used(n)
               PROVE  /\ count'[n] + Missing(n)' = REFERENCE * Shares(n)'
                      /\ Shares(n)' > 0 \/ \E u \in Threads : Reclaiming(u)' /\ drop'[u] = n
    BY <1>e DEF Counts
  <2>1. CASE n = d
    <3>1. count'[d] + Missing(d)' = REFERENCE * Shares(d)'
      <4>1. Missing(d) \in Int
        <5>1. Upper(d) \in Nat /\ From(d) \in Nat
          BY <1>a, SequenceFacts
        <5> QED
          BY <5>1 DEF Missing, GUARD_BIT
      <4> QED
        BY <1>2, <1>3, <1>5, <1>6, <4>1 DEF REFERENCE
    <3>2. CASE count[d] = REFERENCE
      <4>1. Reclaiming(t)' /\ drop'[t] = d
        BY <1>c, <3>2 DEF Reclaiming
      <4> QED
        BY <2>1, <3>1, <4>1
    <3>3. CASE count[d] # REFERENCE
      BY <1>9, <2>1, <3>1, <3>3
    <3> QED
      BY <3>2, <3>3
  <2>2. CASE n # d
    <3>1. count'[n] = count[n] /\ Missing(n)' = Missing(n) /\ Shares(n)' = Shares(n)
      BY <1>2, <1>3, <1>5, <2>2
    <3>2. ASSUME NEW u \in Threads, Reclaiming(u), drop[u] = n
          PROVE  Reclaiming(u)' /\ drop'[u] = n
      <4>1. u # t
        BY <1>c, <3>2 DEF Reclaiming
      <4> QED
        BY <3>2, <4>1, OthersControl DEF Others
    <3> QED
      BY <1>a, <3>1, <3>2 DEF Counts
  <2> QED
    BY <2>1, <2>2
<1>12. \A n \in Nodes : (Passed(n)' <=> Passed(n)) /\ (Settled(n)' <=> Settled(n))
  <2>1. \A n \in Nodes : Passed(n)' <=> Passed(n)
    BY <1>d DEF Passed
  <2> QED
    BY <1>2, <2>1 DEF Settled
<1>13. Sequences'
  <2>1. /\ \A n \in Nodes : Real(n)' /\ pos'[n] < pos'[tail'] => Settled(n)'
        /\ \A n \in Nodes : Real(n)' /\ pos'[n] <= pos'[tail'] => prevSeq'[n] # 0
        /\ next'[tail'] # NULL => prevSeq'[next'[tail']] \in {0, nodeSeq'[tail']}
    BY <1>a, <1>d, <1>e, <1>12 DEF Sequences
  <2>2. ~Odd(count'[tail']) => next'[tail'] # NULL /\ Passed(tail)'
    <3>1. Passed(tail)' <=> Passed(tail)
      BY <1>d DEF Passed
    <3> QED
      BY <1>a, <1>d, <1>f, <1>2, <3>1 DEF Sequences
  <2>3. nodeSeq'[Newest'] = 0 /\ Odd(count'[Newest'])
    BY <1>a, <1>d, <1>e, <1>f, <1>2 DEF Sequences
  <2>4. /\ \A n \in Nodes : Real(n)' => From(n)' <= Upper(n)' /\ Upper(n)' <= sequence'
        /\ \A m, n \in Nodes : Real(m)' /\ pos'[m] < pos'[n] => Upper(m)' <= From(n)'
    BY <1>a, <1>d, <1>e, <1>1 DEF Sequences
  <2> QED
    BY <1>d, <2>1, <2>2, <2>3, <2>4 DEF Sequences
<1>14. Swinging'
  <2>1. ~Setting(t)
    BY <1>c DEF Setting
  <2>2. ASSUME NEW u \in Threads, Setting(u), cur[u] = tail
        PROVE  Setting(u)' /\ cur'[u] = tail
    BY <2>1, <2>2, OthersControl DEF Others
  <2> QED
    BY <1>a, <1>d, <2>2 DEF Swinging
<1>g. /\ ~Setting(t) /\ ~Setting(t)' /\ Dropping(t)
      /\ At(t) = ret[t] /\ At(t)' = ret[t]
      /\ Dropping(t)' <=> count[d] = REFERENCE
      /\ Frees(t)' <=> count[d] = REFERENCE
      /\ Looking(t)' <=> Looking(t)
      /\ Base(t)' = Base(t)
  BY <1>c, <1>d DEF Setting, Dropping, At, Frees, Reclaiming, Looking, Base
<1>15. ASSUME NEW u \in Threads \ {t}
       PROVE  Mine(u)'
  <2>1. /\ Role(u)' /\ Caller(u)' /\ Touch(u)' /\ Pop(u)'
        /\ Reach(u)' = Reach(u)
        /\ Setting(u) => cur[u] \in Nodes
        /\ Setting(u)' => next'[cur'[u]] # NULL
        /\ pc'[u] \in {"g_cmp", "a_more", "a_end"} => pos'[cur'[u]] < pos'[tail']
        /\ Dropping(u)' /\ cur'[u] # NULL => pos'[cur'[u]] < pos'[tail']
    BY <1>0, OthersLinks
  <2>2. Walk(u)' /\ Pend(u)'
    BY <1>0, <1>1, <1>d, <1>g, OthersGoOn
  <2>3. Reclaim(u)'
    <3>1. CASE count[d] = REFERENCE
      <4>1. ~Frees(u)'
        BY <1>8, <3>1, OthersControl
      <4> QED
        BY <4>1 DEF Reclaim, Frees
    <3>2. CASE count[d] # REFERENCE
      <4>1. Reclaiming(u) => count'[drop[u]] = count[drop[u]]
        BY <1>2, <1>10
      <4> QED
        BY <1>0, <1>g, <3>2, <4>1, OthersGoOn
    <3> QED
      BY <3>1, <3>2
  <2>4. Stage(u)'
    <3>0. Stage(u)
      BY <1>a DEF Mine
    <3>1. pc'[u] = pc[u] /\ cur'[u] = cur[u] /\ old'[u] = old[u]
      BY DEF Others
    <3>2. pc[u] \in {"s_prev", "s_count", "s_tail"} => nodeSeq'[cur[u]] # 0
      BY <1>d, <3>0 DEF Stage
    <3>3. /\ pc[u] \in {"s_count", "s_tail"} => Passed(cur[u])'
          /\ pc[u] = "s_tail" => Settled(cur[u])'
      <4>1. pc[u] \in {"s_count", "s_tail"} => (Passed(cur[u]) => Passed(cur[u])')
        BY <1>12, <2>1, <3>1 DEF Setting
      <4>2. pc[u] = "s_tail" => (Settled(cur[u]) => Settled(cur[u])')
        BY <1>12, <2>1, <3>1 DEF Setting
      <4> QED
        BY <3>0, <4>1, <4>2 DEF Stage
    <3>4. ASSUME pc[u] = "s_set", Unset(u)'
          PROVE  /\ prevSeq'[tail'] <= old'[u] /\ old'[u] <= sequence'
                 /\ REFERENCE * Cardinality(Above(old[u])') = sequence' - old'[u]
                 /\ \A v \in Above(old[u])' : End' <= Reach(v)'
      <4>1. Unset(u)
        BY <1>d, <3>1, <3>4 DEF Unset
      <4>2. /\ prevSeq[tail] <= old[u] /\ old[u] <= sequence
            /\ REFERENCE * Cardinality(Above(old[u])) = sequence - old[u]
            /\ \A v \in Above(old[u]) : End <= Reach(v)
        BY <3>0, <3>4, <4>1 DEF Stage
      <4>3. \A v \in Threads : seq'[v] = seq[v]
        BY <1>c DEF Others
      <4>4. Above(old[u])' = Above(old[u])
        BY <3>1, <4>3 DEF Above
      <4>5. \A v \in Above(old[u]) : Reach(v)' = Reach(v)
        BY <1>0, <1>g, OthersLinks DEF Above, Reach
      <4> QED
        BY <1>d, <1>e, <3>1, <4>2, <4>4, <4>5
    <3> QED
      BY <2>1, <3>1, <3>2, <3>3, <3>4 DEF Stage
  <2> QED
    BY <2>1, <2>2, <2>3, <2>4 DEF Mine
<1>16. Mine(t)'
  <2>0. Role(t) /\ Caller(t) /\ Walk(t) /\ Touch(t) /\ Stage(t)
    BY <1>a DEF Mine
  <2>1. Role(t)'
    BY <1>b, <1>c, <1>g, <2>0 DEF Role, Seeks, Gets, Adds
  <2>2. Caller(t)'
    BY <1>c, <1>g, <2>0 DEF Caller
  <2>3. Stage(t)'
    <3>1. ret[t] \in {"g_cmp", "a_more", "a_end"} => cur[t] # NULL
      BY <1>g, <2>0 DEF Role, Seeks, Adds
    <3> QED
      BY <1>c, <1>d, <1>g, <2>0, <3>1 DEF Stage
  <2>4. Walk(t)'
    <3>1. Looking(t)' => Real(cur[t])' /\ pos'[cur'[t]] <= pos'[tail']
      BY <1>c, <1>d, <1>e, <1>g, <2>0 DEF Walk
    <3>2. ASSUME NEW n \in Nodes, Used(n), Has(t, n), pos[cur[t]] <= pos[n], pos[n] <= Reach(t)
          PROVE  Used(n)' /\ Has(t, n)' /\ pos'[cur'[t]] <= pos'[n] /\ pos'[n] <= Reach(t)'
      BY <1>c, <1>d, <1>e, <1>g, <1>1, <3>2 DEF Reach
    <3> QED
      BY <1>c, <1>d, <2>0, <3>1, <3>2 DEF Walk
  <2>5. Touch(t)'
    BY <1>b, <1>c, <1>d, <1>e, <2>0 DEF Touch
  <2>6. Pend(t)' /\ Pop(t)'
    BY <1>c DEF Pend, Pop
  <2>7. Reclaim(t)'
    <3> SUFFICES ASSUME count[d] = REFERENCE PROVE Reclaim(t)'
      BY <1>g DEF Reclaim
    <3>1. pc'[t] = "d_next" /\ drop'[t] = d
      BY <1>c
    <3>2. pos'[d] = FirstInUse' /\ pos'[d] < pos'[tail'] /\ count'[d] = 0
      BY <1>2, <1>8, <1>d, <1>e DEF REFERENCE
    <3>3. \A u \in Threads : Frees(u)' => u = t
      BY <1>8, OthersControl
    <3> QED
      BY <3>1, <3>2, <3>3 DEF Reclaim
  <2> QED
    BY <2>1, <2>2, <2>3, <2>4, <2>5, <2>6, <2>7 DEF Mine
<1>17. Owners' /\ Allocated' /\ Accounted'
  <2>1. \A n \in Nodes : pos[n] = 0 => count'[n] = count[n]
    BY <1>2, <1>f
  <2>2. Plain(t)
    BY <1>a, <1>c, <1>d, <1>g, <2>1 DEF Plain, SameHeap, Owns, Ready, IsBetween
  <2> QED
    BY <1>0, <2>2, PlainStep
<1> QED
  BY <1>e, <1>11, <1>13, <1>14, <1>15, <1>16, <1>17 DEF IInv, Mine

-------------------------------------------------------------------------------
(* Taking a number.  It is that of the last node whose sequence has not    *)
(* been set, or of the tail if its sequence has not been set.              *)
Host == IF nodeSeq[tail] = 0 THEN tail ELSE Newest

LEMMA HostFacts ==
    ASSUME TypeOK, TypeOK', Places, Links, Sequences, LinksKept,
           nodeSeq' = nodeSeq, prevSeq' = prevSeq, sequence' = sequence + REFERENCE
    PROVE  /\ Host \in Nodes /\ Used(Host) /\ Odd(count[Host])
           /\ pos[tail] <= pos[Host] /\ pos[Host] <= End
           /\ From(Host)' = From(Host) /\ Upper(Host) = sequence /\ Upper(Host)' = sequence'
           /\ \A n \in Nodes \ {Host} : Real(n) =>
                 \/ Upper(n)' = Upper(n) /\ From(n)' = From(n)
                 \/ /\ n = Newest /\ Host = tail
                    /\ Upper(n) = sequence /\ From(n) = sequence
                    /\ Upper(n)' = sequence' /\ From(n)' = sequence'
<1> USE Consts, TypesGive
<1>a. tail' = tail /\ next'[tail] = next[tail] /\ sequence' = sequence + 2 /\ sequence \in Nat
  BY ChainFacts DEF LinksKept, REFERENCE
<1>b. /\ tail \in Nodes /\ Real(tail) /\ Used(tail) /\ Newest \in Nodes /\ Real(Newest) /\ Used(Newest)
      /\ pos[tail] <= pos[Newest] /\ pos[Newest] = End
      /\ \A n \in Nodes : pos[n] > pos[tail] => n = Newest /\ n = next[tail] /\ n # tail
      /\ \A n \in Nodes : pos[n] = pos[tail] => n = tail
      /\ \A n \in Nodes : Used(n) => Real(n)
  <2>1. pos[tail] <= pos[Newest] /\ pos[Newest] = End /\ Newest \in Nodes
    BY ChainFacts
  <2>2. Used(tail) /\ Used(Newest)
    BY <2>1, ChainFacts
  <2> QED
    BY <2>1, <2>2, ChainFacts
<1>c. nodeSeq[Newest] = 0 /\ Odd(count[Newest])
  BY DEF Sequences
<1>d. \A n \in Nodes : Real(n) /\ pos[n] < pos[tail] => nodeSeq[n] # 0
  BY DEF Sequences, Settled, Passed
<1>e. \A n \in Nodes : Real(n) /\ pos[n] <= pos[tail] => prevSeq[n] # 0
  BY DEF Sequences
<1>1. \A n \in Nodes : /\ Upper(n) = IF nodeSeq[n] # 0 THEN nodeSeq[n] ELSE sequence
                       /\ Upper(n)' = IF nodeSeq[n] # 0 THEN nodeSeq[n] ELSE sequence'
  BY DEF Upper
<1>2. \A n \in Nodes : /\ From(n) = IF prevSeq[n] # 0 THEN prevSeq[n] ELSE Upper(tail)
                       /\ From(n)' = IF prevSeq[n] # 0 THEN prevSeq[n] ELSE Upper(tail)'
  BY <1>a DEF From
<1>3. CASE nodeSeq[tail] = 0
  <2>1. Host = tail
    BY <1>3 DEF Host
  <2>2. Odd(count[tail])
    BY <1>3 DEF Sequences, Passed
  <2>3. /\ From(tail)' = From(tail) /\ Upper(tail) = sequence
        /\ Upper(tail)' = sequence'
    <3>1. prevSeq[tail] # 0
      BY <1>b, <1>e
    <3>2. Upper(tail) = sequence
      BY <1>1, <1>3, <1>b
    <3>3. Upper(tail)' = sequence' /\ From(tail)' = From(tail)
      BY <1>1, <1>2, <1>3, <1>a, <1>b, <3>1
    <3> QED
      BY <3>2, <3>3
  <2>4. ASSUME NEW n \in Nodes \ {tail}, Real(n)
        PROVE  \/ Upper(n)' = Upper(n) /\ From(n)' = From(n)
               \/ /\ n = Newest /\ Host = tail
                  /\ Upper(n) = sequence /\ From(n) = sequence
                  /\ Upper(n)' = sequence' /\ From(n)' = sequence'
    <3>1. CASE pos[n] < pos[tail]
      <4>1. nodeSeq[n] # 0 /\ prevSeq[n] # 0
        BY <1>d, <1>e, <2>4, <3>1
      <4> QED
        BY <1>1, <1>2, <4>1
    <3>2. CASE pos[n] > pos[tail]
      <4>1. n = Newest /\ n = next[tail]
        BY <1>b, <3>2
      <4>2. prevSeq[n] = 0
        BY <1>3, <4>1, Types DEF Sequences
      <4>3. nodeSeq[n] = 0
        BY <1>c, <4>1
      <4>4. Upper(n) = sequence /\ Upper(n)' = sequence'
        BY <1>1, <4>3
      <4>5. From(n) = sequence /\ From(n)' = sequence'
        BY <1>2, <2>3, <4>2, <1>a
      <4> QED
        BY <2>1, <4>1, <4>4, <4>5
    <3>3. pos[n] # pos[tail]
      BY <1>b
    <3> QED
      BY <3>1, <3>2, <3>3
  <2>5. Host' = tail
    BY <1>3, <1>a DEF Host
  <2>6. pos[tail] <= pos[tail] /\ pos[tail] <= End
    BY <1>b
  <2>7. From(Host)' = From(Host) /\ Upper(Host) = sequence /\ Upper(Host)' = sequence'
    BY <1>a, <2>1, <2>3, <2>5
  <2> QED
    BY <1>b, <2>1, <2>2, <2>4, <2>6, <2>7
<1>4. CASE nodeSeq[tail] # 0
  <2>1. Host = Newest /\ Newest # tail
    BY <1>4, <1>c DEF Host
  <2>2. next[tail] = Newest
    BY <2>1 DEF Newest
  <2>3. Host' = Newest
    BY <1>4, <1>a, <2>1, <2>2 DEF Host, Newest
  <2>4. Upper(tail)' = Upper(tail)
    BY <1>1, <1>4, <1>a
  <2>5. From(Newest)' = From(Newest)
    <3>1. Newest' = Newest
      BY <1>a DEF Newest
    <3> QED
      BY <1>2, <1>b, <2>4, <3>1
  <2>6. Upper(Newest) = sequence /\ Upper(Newest)' = sequence'
    <3>1. Newest' = Newest
      BY <1>a DEF Newest
    <3> QED
      BY <1>1, <1>b, <1>c, <3>1
  <2>7. From(Host)' = From(Host) /\ Upper(Host) = sequence /\ Upper(Host)' = sequence'
    <3>1. Newest' = Newest
      BY <1>a DEF Newest
    <3> QED
      BY <2>1, <2>3, <2>5, <2>6, <3>1
  <2>8. ASSUME NEW n \in Nodes \ {Newest}, Real(n)
        PROVE  Upper(n)' = Upper(n) /\ From(n)' = From(n)
    <3>1. pos[n] <= pos[tail]
      BY <1>b
    <3>2. prevSeq[n] # 0
      BY <1>e, <2>8, <3>1
    <3>3. nodeSeq[n] # 0
      <4>1. CASE pos[n] < pos[tail]
        BY <1>d, <2>8, <4>1
      <4>2. CASE ~(pos[n] < pos[tail])
        <5>1. n = tail
          BY <1>b, <3>1, <4>2
        <5> QED
          BY <1>4, <5>1
      <4> QED
        BY <4>1, <4>2
    <3> QED
      BY <1>1, <1>2, <3>2, <3>3
  <2> QED
    BY <1>b, <1>c, <2>1, <2>7, <2>8
<1> QED
  BY <1>3, <1>4

LEMMA GetCasTaken ==
    ASSUME TypeOK, TypeOK', IInv, NEW t \in Threads, Others(t), GetCas(t) /\ SequenceMatches(t)
    PROVE  IInv'
<1> USE Consts, TypesGive, Types
<1>a. /\ Places /\ Links /\ Sequences /\ Counts /\ Swinging /\ Allocated
      /\ ClientType /\ LocalType /\ NodeType /\ numNodes \in 0..MaxNodes
      /\ \A u \in Threads : Mine(u)
  BY DEF IInv, Mine, TypeOK, Accounted, NodeAccounting
<1>c. /\ pc[t] = "g_cas" /\ pc'[t] = "g_test" /\ sequence' = sequence + REFERENCE
      /\ seq'[t] = sequence' /\ old'[t] = 0
      /\ ret'[t] = ret[t] /\ ref'[t] = ref[t] /\ use'[t] = use[t]
      /\ cur'[t] = cur[t] /\ lat'[t] = lat[t] /\ own'[t] = own[t] /\ drop'[t] = drop[t]
      /\ nxt'[t] = nxt[t] /\ free'[t] = free[t] /\ node'[t] = node[t] /\ arg'[t] = arg[t]
  BY <1>a DEF GetCas, Goto, clientVars, localVars, getVars, newVars, ClientType, LocalType
<1>d. /\ count' = count /\ nodeSeq' = nodeSeq /\ prevSeq' = prevSeq
      /\ numNodes' = numNodes /\ heap' = heap /\ alive' = alive
      /\ tail' = tail /\ freeHead' = freeHead /\ freeTail' = freeTail /\ pos' = pos
      /\ next' = next /\ data' = data /\ failed' = failed
  BY DEF GetCas, SequenceMatches, nodeVars, heapVars, historyVars
<1>0. LinksKept /\ alive
  BY <1>a, <1>c, <1>d DEF LinksKept, Allocated
<1>e. /\ Places' /\ Links'
      /\ Newest' = Newest /\ End' = End /\ FirstInUse' = FirstInUse
      /\ \A n : Used(n)' <=> Used(n)
      /\ \A n : Real(n)' <=> Real(n)
      /\ \A n : Place(n)' = Place(n)
  BY <1>a, <1>0, LinksStep
<1>f. /\ tail \in Nodes /\ Newest \in Nodes
      /\ \A n \in Nodes : Used(n) => Real(n)
      /\ \A n \in Nodes : Real(n) => pos[n] > 0
      /\ \A n \in Nodes : pos[n] > 0 => pos[n] <= End
      /\ pos[Newest] = End /\ End \in Nat
      /\ \A n \in Nodes : pos[n] > pos[tail] => n = Newest
  BY <1>a, ChainFacts
<1>g. /\ sequence \in Nat /\ sequence' = sequence + 2 /\ sequence' \in Nat
      /\ seq[t] = 0 /\ cur[t] \in Nodes /\ lat[t] = 0 /\ own[t] = NULL /\ drop[t] = NULL
      /\ old[t] = sequence
      /\ Real(cur[t]) /\ pos[cur[t]] <= pos[tail]
      /\ End <= pos[cur[t]] + Latency + 1
  <2>1. seq[t] = 0 /\ cur[t] \in Nodes /\ lat[t] = 0 /\ own[t] = NULL /\ drop[t] = NULL
    BY <1>a, <1>c, Controls DEF Mine, Dropping
  <2>2. /\ Real(cur[t]) /\ pos[cur[t]] <= pos[tail]
        /\ End <= pos[cur[t]] + Latency + 1
    BY <1>a, <1>c DEF Mine, Pend
  <2> QED
    BY <1>c, <2>1, <2>2 DEF REFERENCE, SequenceMatches
<1>h. PICK h \in Nodes :
        /\ Used(h) /\ Odd(count[h]) /\ pos[tail] <= pos[h] /\ pos[h] <= End
        /\ From(h)' = From(h) /\ Upper(h) = sequence /\ Upper(h)' = sequence'
        /\ \A n \in Nodes \ {h} : Real(n) =>
              \/ Upper(n)' = Upper(n) /\ From(n)' = From(n)
              \/ /\ n = Newest /\ h = tail
                 /\ Upper(n) = sequence /\ From(n) = sequence
                 /\ Upper(n)' = sequence' /\ From(n)' = sequence'
  <2>1. /\ Host \in Nodes /\ Used(Host) /\ Odd(count[Host])
        /\ pos[tail] <= pos[Host] /\ pos[Host] <= End
        /\ From(Host)' = From(Host) /\ Upper(Host) = sequence /\ Upper(Host)' = sequence'
        /\ \A n \in Nodes \ {Host} : Real(n) =>
              \/ Upper(n)' = Upper(n) /\ From(n)' = From(n)
              \/ /\ n = Newest /\ Host = tail
                 /\ Upper(n) = sequence /\ From(n) = sequence
                 /\ Upper(n)' = sequence' /\ From(n)' = sequence'
    BY <1>a, <1>0, <1>c, <1>d, HostFacts
  <2>2. PICK h \in Nodes : h = Host
    BY <2>1
  <2>3. Host' = h
    BY <1>d, <1>e, <2>2 DEF Host
  <2> QED
    BY <2>1, <2>2, <2>3
<1>i. /\ \A n \in Nodes : Upper(n) \in Nat /\ From(n) \in Nat
      /\ \A n \in Nodes : Real(n) => From(n) <= Upper(n) /\ Upper(n) <= sequence
  BY <1>a, SequenceFacts
<1>1. \A u \in Threads \ {t} : \A n \in Nodes : Real(n) => (Has(u, n)' <=> Has(u, n))
  <2> SUFFICES ASSUME NEW u \in Threads \ {t}, NEW n \in Nodes, Real(n)
               PROVE  Has(u, n)' <=> Has(u, n)
    OBVIOUS
  <2>1. seq'[u] = seq[u] /\ seq[u] \in Nat /\ seq[u] <= sequence
    BY <1>a, <1>g DEF Others, Mine, Walk
  <2>2. /\ Has(u, n) <=> From(n) < seq[u] /\ seq[u] <= Upper(n)
        /\ Has(u, n)' <=> From(n)' < seq[u] /\ seq[u] <= Upper(n)'
    BY <2>1 DEF Has
  <2> QED
    BY <1>g, <1>h, <1>i, <2>1, <2>2
<1>2. \A n \in Nodes : Real(n) => ~Has(t, n) /\ (Has(t, n)' <=> n = h)
  <2> SUFFICES ASSUME NEW n \in Nodes, Real(n)
               PROVE  ~Has(t, n) /\ (Has(t, n)' <=> n = h)
    OBVIOUS
  <2>2. /\ Has(t, n) <=> From(n) < 0 /\ 0 <= Upper(n)
        /\ Has(t, n)' <=> From(n)' < sequence' /\ sequence' <= Upper(n)'
    BY <1>c, <1>g DEF Has
  <2>3. n = h => From(n)' <= sequence /\ Upper(n)' = sequence'
    BY <1>h, <1>i, <2>2
  <2>4. n # h => Upper(n)' <= sequence \/ From(n)' = sequence'
    BY <1>h, <1>i
  <2>5. From(n)' \in Nat /\ Upper(n)' \in Nat
    BY <1>h, <1>i, <1>g
  <2> QED
    BY <1>g, <1>i, <2>2, <2>3, <2>4, <2>5
<1>3. \A n \in Nodes : Used(n) =>
          Shares(n) \in Nat /\ Shares(n)' = Shares(n) + (IF n = h THEN 1 ELSE 0)
  <2> SUFFICES ASSUME NEW n \in Nodes, Used(n)
               PROVE  Shares(n) \in Nat /\ Shares(n)' = Shares(n) + (IF n = h THEN 1 ELSE 0)
    OBVIOUS
  <2>1. /\ Shares(n) \in Nat
        /\ Shares(n)' = Shares(n) + Share(t, n)' - Share(t, n) + Place(n)' - Place(n)
    BY <1>1, <1>f, SharesStep
  <2>2. Share(t, n)' = Share(t, n) + (IF n = h THEN 1 ELSE 0)
    BY <1>c, <1>f, <1>g, <1>2, ShareIs
  <2>3. Place(n)' = Place(n) /\ Place(n) \in Nat /\ Share(t, n) \in Nat
    BY <1>e, PlaceIs, SharesOf
  <2> QED
    BY <2>1, <2>2, <2>3
<1>4. \A n \in Nodes : Used(n) =>
          Missing(n) \in Int /\ Missing(n)' = Missing(n) + (IF n = h THEN 2 ELSE 0)
  <2> SUFFICES ASSUME NEW n \in Nodes, Used(n)
               PROVE  Missing(n) \in Int /\ Missing(n)' = Missing(n) + (IF n = h THEN 2 ELSE 0)
    OBVIOUS
  <2>1. /\ Missing(n) = IF Odd(count[n]) THEN Upper(n) - From(n) - 1 ELSE 0
        /\ Missing(n)' = IF Odd(count[n]) THEN Upper(n)' - From(n)' - 1 ELSE 0
    BY <1>d DEF Missing, GUARD_BIT
  <2>2. CASE n = h
    BY <1>g, <1>h, <1>i, <2>1, <2>2
  <2>3. CASE n # h
    BY <1>f, <1>g, <1>h, <1>i, <2>1, <2>3
  <2> QED
    BY <2>2, <2>3
<1>5. Counts'
  <2> SUFFICES ASSUME NEW n \in Nodes, Used(n)
               PROVE  /\ count'[n] + Missing(n)' = REFERENCE * Shares(n)'
                      /\ Shares(n)' > 0 \/ \E u \in Threads : Reclaiming(u)' /\ drop'[u] = n
    BY <1>e DEF Counts
  <2>1. count[n] + Missing(n) = REFERENCE * Shares(n) /\ count'[n] = count[n]
    BY <1>a, <1>d DEF Counts
  <2>2. count'[n] + Missing(n)' = REFERENCE * Shares(n)'
    BY <1>3, <1>4, <2>1 DEF REFERENCE
  <2>3. ASSUME NEW u \in Threads, Reclaiming(u), drop[u] = n
        PROVE  Reclaiming(u)' /\ drop'[u] = n
    <3>1. u # t
      BY <1>c, <2>3 DEF Reclaiming
    <3> QED
      BY <2>3, <3>1, OthersControl DEF Others
  <2>4. Shares(n) > 0 => Shares(n)' > 0
    BY <1>3
  <2> QED
    BY <1>a, <2>2, <2>3, <2>4 DEF Counts
<1>6. \A n \in Nodes : (Passed(n)' <=> Passed(n)) /\ (Settled(n)' <=> Settled(n))
  BY <1>d DEF Passed, Settled
<1>7. Sequences'
  <2>1. /\ \A n \in Nodes : Real(n)' /\ pos'[n] < pos'[tail'] => Settled(n)'
        /\ \A n \in Nodes : Real(n)' /\ pos'[n] <= pos'[tail'] => prevSeq'[n] # 0
        /\ next'[tail'] # NULL => prevSeq'[next'[tail']] \in {0, nodeSeq'[tail']}
    BY <1>a, <1>d, <1>e, <1>6 DEF Sequences
  <2>2. ~Odd(count'[tail']) => next'[tail'] # NULL /\ Passed(tail)'
    <3>1. Passed(tail)' <=> Passed(tail)
      BY <1>d DEF Passed
    <3> QED
      BY <1>a, <1>d, <3>1 DEF Sequences
  <2>3. nodeSeq'[Newest'] = 0 /\ Odd(count'[Newest'])
    BY <1>a, <1>d, <1>e DEF Sequences
  <2>4. ASSUME NEW n \in Nodes, Real(n)
        PROVE  From(n)' <= Upper(n)' /\ Upper(n)' <= sequence'
    <3>1. CASE n = h
      BY <1>g, <1>h, <1>i, <2>4, <3>1
    <3>2. CASE n # h
      BY <1>g, <1>h, <1>i, <2>4, <3>2
    <3> QED
      BY <3>1, <3>2
  <2>5. ASSUME NEW m \in Nodes, NEW n \in Nodes, Real(m), pos[m] < pos[n]
        PROVE  Upper(m)' <= From(n)'
    <3>1. Upper(m) <= From(n) /\ Real(n) /\ pos[m] < End /\ m # Newest
      BY <1>a, <1>f, <2>5 DEF Sequences, Real
    <3>2. CASE m = h
      <4>1. pos[n] > pos[tail]
        BY <1>f, <1>h, <2>5, <3>2
      <4>2. n = Newest /\ n # h
        BY <1>f, <3>1, <3>2, <4>1
      <4>3. \/ From(n)' = sequence'
            \/ From(n)' = From(n) /\ Upper(n)' = Upper(n)
        BY <1>h, <3>1, <4>2
      <4>4. From(n)' = From(n) /\ Upper(n)' = Upper(n) => FALSE
        <5>1. Upper(Newest) = sequence /\ Upper(Newest)' = sequence'
          <6>1. nodeSeq[Newest] = 0
            BY <1>a DEF Sequences
          <6> QED
            BY <1>d, <1>e, <6>1 DEF Upper
        <5>2. Upper(n) = sequence /\ Upper(n)' = sequence'
          BY <1>e, <4>2, <5>1
        <5> QED
          BY <1>g, <5>2
      <4>5. Upper(m)' = sequence'
        BY <1>h, <3>2
      <4> QED
        BY <1>g, <4>3, <4>4, <4>5
    <3>3. CASE m # h
      <4>1. Upper(m)' = Upper(m)
        BY <1>h, <2>5, <3>1, <3>3
      <4>2. From(n)' = From(n) \/ (From(n) = sequence /\ From(n)' = sequence')
        BY <1>h, <3>1
      <4> QED
        BY <1>g, <1>i, <3>1, <4>1, <4>2
    <3> QED
      BY <3>2, <3>3
  <2>6. /\ \A n \in Nodes : Real(n)' => From(n)' <= Upper(n)' /\ Upper(n)' <= sequence'
        /\ \A m, n \in Nodes : Real(m)' /\ pos'[m] < pos'[n] => Upper(m)' <= From(n)'
    BY <1>d, <1>e, <2>4, <2>5
  <2> QED
    BY <1>d, <2>1, <2>2, <2>3, <2>6 DEF Sequences
<1>8. Swinging'
  <2>1. ~Setting(t)
    BY <1>c DEF Setting
  <2>2. ASSUME NEW u \in Threads, Setting(u), cur[u] = tail
        PROVE  Setting(u)' /\ cur'[u] = tail
    BY <2>1, <2>2, OthersControl DEF Others
  <2> QED
    BY <1>a, <1>d, <2>2 DEF Swinging
<1>j. /\ ~Setting(t) /\ ~Setting(t)' /\ ~Dropping(t) /\ ~Dropping(t)' /\ ~Frees(t)' /\ ~Reclaiming(t)
      /\ At(t) = "g_cas" /\ At(t)' = "g_test"
      /\ Base(t)' = pos[cur[t]] /\ End' <= Reach(t)'
  <2>1. /\ ~Setting(t) /\ ~Setting(t)' /\ ~Dropping(t) /\ ~Dropping(t)' /\ ~Frees(t)' /\ ~Reclaiming(t)
        /\ At(t) = "g_cas" /\ At(t)' = "g_test"
    BY <1>c DEF Setting, Dropping, At, Frees, Reclaiming
  <2>2. Base(t)' = pos[cur[t]]
    BY <1>c, <1>d, <1>g DEF Base
  <2>3. Reach(t)' = pos[cur[t]] + Latency + 1
    BY <2>2 DEF Reach
  <2> QED
    BY <1>e, <1>g, <2>1, <2>2, <2>3
<1>9. ASSUME NEW u \in Threads \ {t}
      PROVE  Mine(u)'
  <2>1. /\ Role(u)' /\ Caller(u)' /\ Touch(u)' /\ Pop(u)'
        /\ Reach(u)' = Reach(u)
        /\ Setting(u) => cur[u] \in Nodes
        /\ Setting(u)' => next'[cur'[u]] # NULL
        /\ pc'[u] \in {"g_cmp", "a_more", "a_end"} => pos'[cur'[u]] < pos'[tail']
        /\ Dropping(u)' /\ cur'[u] # NULL => pos'[cur'[u]] < pos'[tail']
    BY <1>0, OthersLinks
  <2>2. Walk(u)' /\ Reclaim(u)'
    <3>1. sequence <= sequence'
      BY <1>g
    <3>2. \A n \in Nodes : Used(n) /\ Has(u, n) => Has(u, n)'
      BY <1>1, <1>f
    <3> QED
      BY <1>0, <1>d, <1>j, <3>1, <3>2, OthersGoOn
  <2>0. Stage(u) /\ Pend(u)
    BY <1>a DEF Mine
  <2>3. Pend(u)'
    <3>1. pc'[u] = pc[u] /\ old'[u] = old[u] /\ old[u] \in Nat
      BY DEF Others
    <3>2. pc[u] \in {"g_tail", "g_cas"} => old[u] <= sequence
      BY <2>0 DEF Pend
    <3>3. pc[u] = "g_cas" => ~SequenceMatches(u)'
      BY <1>g, <3>1, <3>2 DEF SequenceMatches
    <3>4. pc[u] \in {"g_tail", "g_cas"} => old[u] <= sequence'
      BY <1>g, <3>1, <3>2
    <3> QED
      BY <3>1, <3>3, <3>4 DEF Pend
  <2>4. Stage(u)'
    <3>1. pc'[u] = pc[u] /\ cur'[u] = cur[u] /\ old'[u] = old[u] /\ old[u] \in Nat
      BY DEF Others
    <3>2. pc[u] \in {"s_prev", "s_count", "s_tail"} => nodeSeq'[cur[u]] # 0
      BY <1>d, <2>0 DEF Stage
    <3>3. /\ pc[u] \in {"s_count", "s_tail"} => Passed(cur[u])'
          /\ pc[u] = "s_tail" => Settled(cur[u])'
      <4>1. pc[u] \in {"s_count", "s_tail"} => (Passed(cur[u]) => Passed(cur[u])')
        BY <1>6, <2>1, <3>1 DEF Setting
      <4>2. pc[u] = "s_tail" => (Settled(cur[u]) => Settled(cur[u])')
        BY <1>6, <2>1, <3>1 DEF Setting
      <4> QED
        BY <2>0, <4>1, <4>2 DEF Stage
    <3>4. ASSUME pc[u] = "s_set", Unset(u)'
          PROVE  /\ prevSeq'[tail'] <= old'[u] /\ old'[u] <= sequence'
                 /\ REFERENCE * Cardinality(Above(old[u])') = sequence' - old'[u]
                 /\ \A v \in Above(old[u])' : End' <= Reach(v)'
      <4>1. Unset(u)
        BY <1>d, <3>1, <3>4 DEF Unset
      <4>2. /\ prevSeq[tail] <= old[u] /\ old[u] <= sequence
            /\ REFERENCE * Cardinality(Above(old[u])) = sequence - old[u]
            /\ \A v \in Above(old[u]) : End <= Reach(v)
        BY <2>0, <3>4, <4>1 DEF Stage
      <4>3. \A v \in Threads \ {t} : v \in Above(old[u])' <=> v \in Above(old[u])
        BY <3>1 DEF Above, Others
      <4>4. t \in Above(old[u])' /\ t \notin Above(old[u])
        <5>1. seq'[t] > old[u] /\ ~(seq[t] > old[u])
          BY <1>c, <1>g, <3>1, <4>2
        <5> QED
          BY <3>1, <5>1 DEF Above
      <4>5. /\ Cardinality(Above(old[u])) \in Nat
            /\ Cardinality(Above(old[u])') = Cardinality(Above(old[u])) + 1
        <5>1. Above(old[u]) \in SUBSET Threads /\ Above(old[u])' \in SUBSET Threads
          BY DEF Above
        <5>2. /\ Cardinality(Above(old[u])) \in Nat
              /\ Cardinality(Above(old[u])') = Cardinality(Above(old[u]))
                    + In(t, Above(old[u])') - In(t, Above(old[u]))
          BY <4>3, <5>1, Recount
        <5> QED
          BY <4>4, <5>2 DEF In
      <4>6. \A v \in Above(old[u])' : End' <= Reach(v)'
        <5> SUFFICES ASSUME NEW v \in Above(old[u])' PROVE End' <= Reach(v)'
          OBVIOUS
        <5>1. v \in Threads
          BY DEF Above
        <5>2. CASE v = t
          BY <1>j, <5>2
        <5>3. CASE v # t
          <6>1. Reach(v)' = Reach(v)
            BY <1>0, <5>1, <5>3, OthersLinks
          <6> QED
            BY <1>e, <4>2, <4>3, <5>1, <5>3, <6>1
        <5> QED
          BY <5>2, <5>3
      <4>7. REFERENCE * Cardinality(Above(old[u])') = sequence' - old'[u]
        BY <1>g, <3>1, <4>2, <4>5 DEF REFERENCE
      <4>8. prevSeq'[tail'] <= old'[u] /\ old'[u] <= sequence'
        BY <1>d, <1>f, <1>g, <3>1, <4>2
      <4> QED
        BY <4>6, <4>7, <4>8
    <3> QED
      BY <2>1, <3>1, <3>2, <3>3, <3>4 DEF Stage
  <2> QED
    BY <2>1, <2>2, <2>3, <2>4 DEF Mine
<1>10. Mine(t)'
  <2>0. Role(t) /\ Caller(t) /\ Touch(t)
    BY <1>a DEF Mine
  <2>1. Role(t)'
    BY <1>c, <1>g, <1>j, <2>0 DEF Role, Seeks, Gets, Adds
  <2>2. Caller(t)'
    BY <1>c, <1>j, <2>0 DEF Caller, Seeks, Adds
  <2>3. Walk(t)'
    <3>1. Looking(t)' => Real(cur[t])' /\ pos'[cur'[t]] <= pos'[tail']
      BY <1>c, <1>d, <1>e, <1>g
    <3>2. Has(t, h)'
      BY <1>h, <1>f, <1>2
    <3>3. Used(h)' /\ pos'[cur'[t]] <= pos'[h] /\ pos'[h] <= Reach(t)'
      <4>1. pos[cur[t]] <= pos[h]
        BY <1>g, <1>h
      <4>2. Reach(t)' \in Int
        BY <1>j, <1>g DEF Reach
      <4> QED
        BY <1>c, <1>d, <1>e, <1>f, <1>h, <1>j, <4>1, <4>2
    <3>4. seq'[t] <= sequence'
      BY <1>c, <1>g
    <3> QED
      BY <3>1, <3>2, <3>3, <3>4 DEF Walk
  <2>4. Touch(t)'
    BY <1>c, <1>e, <1>g, <2>0 DEF Touch
  <2>5. Stage(t)' /\ Pend(t)' /\ Reclaim(t)' /\ Pop(t)'
    BY <1>c, <1>j DEF Stage, Pend, Reclaim, Pop
  <2> QED
    BY <2>1, <2>2, <2>3, <2>4, <2>5 DEF Mine
<1>11. Owners' /\ Allocated' /\ Accounted'
  <2>1. Plain(t)
    BY <1>a, <1>c, <1>d, <1>j DEF Plain, SameHeap, Owns, Ready, IsBetween
  <2> QED
    BY <1>0, <2>1, PlainStep
<1> QED
  BY <1>e, <1>5, <1>7, <1>8, <1>9, <1>10, <1>11 DEF IInv, Mine

-------------------------------------------------------------------------------
(* Setting the sequence of the tail.  The numbers above it are then those  *)
(* of the node behind.                                                     *)
LEMMA SharesMove ==
    ASSUME NEW n, Refs(n)' = Refs(n), Owned(n)' = Owned(n), Drops(n)' = Drops(n),
           TailShare(n)' = TailShare(n), LinkShare(n)' = LinkShare(n)
    PROVE  /\ Shares(n) \in Nat /\ Shares(n)' \in Nat
           /\ Cardinality(Numbers(n)) \in Nat /\ Cardinality(Numbers(n)') \in Nat
           /\ Shares(n)' = Shares(n) + Cardinality(Numbers(n)') - Cardinality(Numbers(n))
           /\ Shares(n)' >= TailShare(n)
<1>1. /\ Cardinality(Refs(n)) \in Nat /\ Cardinality(Owned(n)) \in Nat
      /\ Cardinality(Numbers(n)) \in Nat /\ Cardinality(Numbers(n)') \in Nat
      /\ Cardinality(Drops(n)) \in Nat
  <2>1. /\ Refs(n) \subseteq Threads /\ Owned(n) \subseteq Threads
        /\ Numbers(n) \subseteq Threads /\ Numbers(n)' \subseteq Threads
        /\ Drops(n) \subseteq Threads
    BY DEF Refs, Owned, Numbers, Drops
  <2>2. \A A \in SUBSET Threads : Cardinality(A) \in Nat
    BY Consts, FS_Subset, FS_CardinalityType
  <2> QED
    BY <2>1, <2>2
<1>2. TailShare(n) \in {0, 1} /\ LinkShare(n) \in {0, 1}
  BY DEF TailShare, LinkShare
<1>3. /\ Shares(n) = Cardinality(Refs(n)) + Cardinality(Owned(n)) + Cardinality(Numbers(n))
                         + Cardinality(Drops(n)) + TailShare(n) + LinkShare(n)
      /\ Shares(n)' = Cardinality(Refs(n)) + Cardinality(Owned(n)) + Cardinality(Numbers(n)')
                         + Cardinality(Drops(n)) + TailShare(n) + LinkShare(n)
  BY DEF Shares
<1> QED
  BY <1>1, <1>2, <1>3

LEMMA Split ==
    ASSUME NEW A \in SUBSET Threads, NEW B \in SUBSET A
    PROVE  /\ Cardinality(A) \in Nat /\ Cardinality(B) \in Nat
           /\ Cardinality(A \ B) = Cardinality(A) - Cardinality(B)
<1>1. IsFiniteSet(A) /\ IsFiniteSet(B)
  BY Consts, FS_Subset
<1>2. A \cap B = B
  OBVIOUS
<1> QED
  BY <1>1, <1>2, FS_Difference, FS_CardinalityType, ZenonT(40)

LEMMA SetCasWrite ==
    ASSUME TypeOK, TypeOK', IInv, NEW t \in Threads, Others(t), SetCas(t) /\ Unset(t)
    PROVE  IInv'
<1> USE Consts, TypesGive, Types
<1>a. /\ Places /\ Links /\ Sequences /\ Counts /\ Swinging /\ Allocated
      /\ ClientType /\ LocalType /\ NodeType /\ numNodes \in 0..MaxNodes
      /\ \A u \in Threads : Mine(u)
  BY DEF IInv, Mine, TypeOK, Accounted, NodeAccounting
<1>b. Setting(t) /\ cur[t] = tail /\ next[tail] # NULL
  <2>1. Setting(t)
    BY DEF Setting, SetCas
  <2>2. ~Settled(cur[t])
    BY DEF Settled, Passed, Unset
  <2> QED
    BY <1>a, <2>1, <2>2, Unsettled DEF Mine
<1>c. /\ pc[t] = "s_set" /\ pc'[t] = "s_prev" /\ old'[t] = 0 /\ seq'[t] = seq[t]
      /\ ret'[t] = ret[t] /\ ref'[t] = ref[t] /\ use'[t] = use[t]
      /\ cur'[t] = cur[t] /\ lat'[t] = lat[t] /\ own'[t] = own[t] /\ drop'[t] = drop[t]
      /\ nxt'[t] = nxt[t] /\ free'[t] = free[t] /\ node'[t] = node[t] /\ arg'[t] = arg[t]
  BY <1>a DEF SetCas, Goto, clientVars, localVars, getVars, newVars, ClientType, LocalType
<1>d. /\ count' = count /\ prevSeq' = prevSeq /\ sequence' = sequence
      /\ numNodes' = numNodes /\ heap' = heap /\ alive' = alive
      /\ tail' = tail /\ freeHead' = freeHead /\ freeTail' = freeTail /\ pos' = pos
      /\ next' = next /\ data' = data /\ failed' = failed
  BY DEF SetCas, proxyVars, heapVars, historyVars
<1>0. LinksKept /\ alive
  BY <1>a, <1>c, <1>d DEF LinksKept, Allocated
<1>e. /\ Places' /\ Links'
      /\ Newest' = Newest /\ End' = End /\ FirstInUse' = FirstInUse
      /\ \A n : Used(n)' <=> Used(n)
      /\ \A n : Real(n)' <=> Real(n)
      /\ \A n : Place(n)' = Place(n)
  BY <1>a, <1>0, LinksStep
<1>f. /\ tail \in Nodes /\ Newest \in Nodes /\ Used(tail) /\ Used(Newest)
      /\ Newest = next[tail] /\ Newest # tail
      /\ pos[Newest] = End /\ End \in Nat /\ End = pos[tail] + 1
      /\ \A n \in Nodes : Used(n) => Real(n)
      /\ \A n \in Nodes : Real(n) => pos[n] > 0
      /\ \A n \in Nodes : pos[n] > 0 => pos[n] <= End
      /\ \A n \in Nodes : pos[n] > pos[tail] => n = Newest
      /\ \A n \in Nodes : pos[n] = pos[tail] => n = tail
  <2>1. /\ Newest = next[tail] /\ End = pos[tail] + 1
    BY <1>b DEF Newest, End
  <2>2. /\ tail \in Nodes /\ Newest \in Nodes /\ pos[Newest] = End /\ FirstInUse <= pos[tail]
        /\ FirstInUse \in Nat /\ End \in Nat
    BY <1>a, ChainFacts
  <2>3. Used(tail) /\ Used(Newest) /\ Newest # tail
    BY <2>1, <2>2 DEF Used
  <2> QED
    BY <1>a, <2>1, <2>2, <2>3, ChainFacts
<1>g. PICK o \in Nat : /\ o = old[t] /\ nodeSeq' = [nodeSeq EXCEPT ![tail] = o]
                       /\ prevSeq[tail] <= o /\ o <= sequence /\ o # 0
                       /\ REFERENCE * Cardinality(Above(o)) = sequence - o
                       /\ \A u \in Above(o) : End <= Reach(u)
  <2>1. /\ prevSeq[tail] <= old[t] /\ old[t] <= sequence
        /\ REFERENCE * Cardinality(Above(old[t])) = sequence - old[t]
        /\ \A u \in Above(old[t]) : End <= Reach(u)
    BY <1>a, <1>c DEF Mine, Stage
  <2>2. prevSeq[tail] # 0
    BY <1>a, SequenceFacts
  <2>3. nodeSeq' = [nodeSeq EXCEPT ![tail] = old[t]]
    BY <1>b DEF SetCas
  <2>4. old[t] \in Nat /\ old[t] # 0
    BY <1>f, <2>1, <2>2
  <2> QED
    BY <2>1, <2>3, <2>4
<1>h. /\ nodeSeq[tail] = 0 /\ nodeSeq'[tail] = o /\ prevSeq[Newest] = 0
      /\ nodeSeq[Newest] = 0
      /\ \A n \in Nodes \ {tail} : nodeSeq'[n] = nodeSeq[n]
      /\ Odd(count[tail]) /\ Odd(count[Newest])
      /\ prevSeq[tail] # 0
  <2>1. nodeSeq[tail] = 0
    BY <1>b DEF Unset
  <2>2. prevSeq[Newest] = 0
    BY <1>a, <1>b, <1>f, <2>1 DEF Sequences
  <2>3. Odd(count[tail]) /\ Odd(count[Newest]) /\ nodeSeq[Newest] = 0
    BY <1>a, <2>1 DEF Sequences, Passed
  <2>4. nodeSeq'[tail] = o /\ \A n \in Nodes \ {tail} : nodeSeq'[n] = nodeSeq[n]
    BY <1>a, <1>g DEF NodeType
  <2> QED
    BY <1>a, <2>1, <2>2, <2>3, <2>4, SequenceFacts
<1>i. /\ Upper(tail) = sequence /\ Upper(tail)' = o
      /\ Upper(Newest) = sequence /\ Upper(Newest)' = sequence
      /\ From(tail) = prevSeq[tail] /\ From(tail)' = prevSeq[tail]
      /\ From(Newest) = sequence /\ From(Newest)' = o
      /\ \A n \in Nodes : Real(n) /\ n # tail /\ n # Newest =>
            Upper(n)' = Upper(n) /\ From(n)' = From(n)
  <2>1. /\ Upper(tail) = sequence /\ Upper(tail)' = o
        /\ Upper(Newest) = sequence /\ Upper(Newest)' = sequence
    BY <1>d, <1>e, <1>f, <1>g, <1>h DEF Upper
  <2>2. /\ From(tail) = prevSeq[tail] /\ From(tail)' = prevSeq[tail]
        /\ From(Newest) = sequence /\ From(Newest)' = o
    BY <1>d, <1>e, <1>h, <2>1 DEF From
  <2>3. ASSUME NEW n \in Nodes, Real(n), n # tail, n # Newest
        PROVE  Upper(n)' = Upper(n) /\ From(n)' = From(n)
    <3>1. pos[n] < pos[tail]
      BY <1>f, <2>3
    <3>2. nodeSeq[n] # 0 /\ prevSeq[n] # 0
      BY <1>a, <2>3, <3>1 DEF Sequences, Settled, Passed
    <3> QED
      BY <1>d, <1>h, <2>3, <3>2 DEF Upper, From
  <2> QED
    BY <2>1, <2>2, <2>3
<1>j. \A u \in Threads : seq'[u] = seq[u] /\ seq[u] \in Nat /\ seq[u] <= sequence
  BY <1>a, <1>c DEF Others, Mine, Walk
<1>1. \A u \in Threads :
         /\ Has(u, tail) <=> prevSeq[tail] < seq[u]
         /\ Has(u, tail)' <=> prevSeq[tail] < seq[u] /\ seq[u] <= o
         /\ ~Has(u, Newest)
         /\ Has(u, Newest)' <=> o < seq[u]
         /\ \A n \in Nodes : Real(n) /\ n # tail /\ n # Newest => (Has(u, n)' <=> Has(u, n))
  <2>1. tail' = tail /\ Newest' = Newest
    BY <1>d, <1>e
  <2>2. \A u \in Threads : \A n \in Nodes :
            /\ Has(u, n) <=> From(n) < seq[u] /\ seq[u] <= Upper(n)
            /\ Has(u, n)' <=> From(n)' < seq[u] /\ seq[u] <= Upper(n)'
    BY <1>j DEF Has
  <2>3. \A u \in Threads :
            /\ Has(u, tail) <=> From(tail) < seq[u] /\ seq[u] <= Upper(tail)
            /\ Has(u, tail)' <=> From(tail)' < seq[u] /\ seq[u] <= Upper(tail)'
            /\ Has(u, Newest) <=> From(Newest) < seq[u] /\ seq[u] <= Upper(Newest)
            /\ Has(u, Newest)' <=> From(Newest)' < seq[u] /\ seq[u] <= Upper(Newest)'
    BY <1>f, <2>1, <2>2
  <2> QED
    BY <1>i, <1>j, <2>2, <2>3
<1>2. /\ Numbers(tail)' = Numbers(tail) \ Above(o)
      /\ Above(o) \subseteq Numbers(tail)
      /\ Numbers(Newest) = {} /\ Numbers(Newest)' = Above(o)
      /\ \A n \in Nodes : Real(n) /\ n # tail /\ n # Newest => Numbers(n)' = Numbers(n)
  <2>1. Above(o) = {u \in Threads : seq[u] > o}
    BY DEF Above
  <2>2. \A u \in Threads : seq[u] > o <=> ~(seq[u] <= o)
    BY <1>j
  <2>3. \A u \in Threads : seq[u] > o => prevSeq[tail] < seq[u]
    BY <1>f, <1>g, <1>j
  <2>4. Numbers(tail)' = {u \in Threads : Has(u, tail)'} /\ Numbers(tail) = {u \in Threads : Has(u, tail)}
    BY DEF Numbers
  <2>5. Numbers(Newest)' = {u \in Threads : Has(u, Newest)'} /\ Numbers(Newest) = {u \in Threads : Has(u, Newest)}
    BY DEF Numbers
  <2>6. \A n \in Nodes : Real(n) /\ n # tail /\ n # Newest => Numbers(n)' = Numbers(n)
    BY <1>1 DEF Numbers
  <2>7. Numbers(tail)' = Numbers(tail) \ Above(o) /\ Above(o) \subseteq Numbers(tail)
    BY <1>1, <2>1, <2>2, <2>3, <2>4
  <2>8. Numbers(Newest) = {} /\ Numbers(Newest)' = Above(o)
    BY <1>1, <2>1, <2>2, <2>5
  <2> QED
    BY <2>6, <2>7, <2>8
<1>3. PICK k \in Nat : /\ k = Cardinality(Above(o)) /\ sequence - o = 2 * k
                       /\ Cardinality(Numbers(tail)) \in Nat
                       /\ Cardinality(Numbers(tail)') = Cardinality(Numbers(tail)) - k
                       /\ Cardinality(Numbers(Newest)) = 0
                       /\ Cardinality(Numbers(Newest)') = k
  <2>1. Numbers(tail) \in SUBSET Threads /\ Above(o) \in SUBSET Numbers(tail)
    BY <1>2 DEF Numbers
  <2>2. /\ Cardinality(Numbers(tail)) \in Nat /\ Cardinality(Above(o)) \in Nat
        /\ Cardinality(Numbers(tail) \ Above(o)) = Cardinality(Numbers(tail)) - Cardinality(Above(o))
    BY <2>1, Split
  <2>3. Cardinality(Numbers(Newest)) = 0
    BY <1>2, FS_EmptySet
  <2>4. sequence - o = 2 * Cardinality(Above(o))
    BY <1>g, <2>2 DEF REFERENCE
  <2> QED
    BY <1>2, <2>2, <2>3, <2>4
<1>4. \A n \in Nodes :
          /\ Shares(n) \in Nat /\ Shares(n)' \in Nat
          /\ Shares(n)' = Shares(n) + Cardinality(Numbers(n)') - Cardinality(Numbers(n))
          /\ Shares(n)' >= TailShare(n)
          /\ Cardinality(Numbers(n)) \in Nat
  <2> SUFFICES ASSUME NEW n \in Nodes
               PROVE  /\ Shares(n) \in Nat /\ Shares(n)' \in Nat
                      /\ Shares(n)' = Shares(n) + Cardinality(Numbers(n)') - Cardinality(Numbers(n))
                      /\ Shares(n)' >= TailShare(n)
                      /\ Cardinality(Numbers(n)) \in Nat
    OBVIOUS
  <2>1. \A u \in Threads :
            /\ ref'[u] = ref[u] /\ own'[u] = own[u] /\ drop'[u] = drop[u]
            /\ pc'[u] \in {"d_sub", "d_free"} <=> pc[u] \in {"d_sub", "d_free"}
    BY <1>c DEF Others
  <2>2. Refs(n)' = Refs(n) /\ Owned(n)' = Owned(n) /\ Drops(n)' = Drops(n)
    BY <2>1 DEF Refs, Owned, Drops
  <2>3. TailShare(n)' = TailShare(n) /\ LinkShare(n)' = LinkShare(n)
    BY <1>d, <1>e DEF TailShare, LinkShare
  <2> QED
    BY <2>2, <2>3, SharesMove
<1>5. /\ Shares(tail)' = Shares(tail) - k /\ Shares(tail)' > 0
      /\ Shares(Newest)' = Shares(Newest) + k
      /\ \A n \in Nodes : Real(n) /\ n # tail /\ n # Newest => Shares(n)' = Shares(n)
  <2>1. TailShare(tail) = 1
    BY <1>f DEF TailShare
  <2>2. /\ Shares(tail) \in Nat /\ Shares(tail)' \in Nat
        /\ Shares(tail)' = Shares(tail) + Cardinality(Numbers(tail)') - Cardinality(Numbers(tail))
        /\ Shares(tail)' >= TailShare(tail)
    BY <1>4, <1>f, <1>d
  <2>3. /\ Shares(Newest) \in Nat
        /\ Shares(Newest)' = Shares(Newest) + Cardinality(Numbers(Newest)') - Cardinality(Numbers(Newest))
    BY <1>4, <1>f, <1>e
  <2>4. \A n \in Nodes : Real(n) /\ n # tail /\ n # Newest => Shares(n)' = Shares(n)
    BY <1>2, <1>4
  <2>5. Shares(tail)' = Shares(tail) - k /\ Shares(tail)' > 0
    BY <1>3, <2>1, <2>2
  <2>6. Shares(Newest)' = Shares(Newest) + k
    BY <1>3, <2>3
  <2> QED
    BY <2>4, <2>5, <2>6
<1>6. /\ Missing(tail) \in Int /\ Missing(tail)' = Missing(tail) - 2 * k
      /\ Missing(Newest) \in Int /\ Missing(Newest)' = Missing(Newest) + 2 * k
      /\ \A n \in Nodes : Real(n) /\ n # tail /\ n # Newest => Missing(n)' = Missing(n)
  <2>1. \A n \in Nodes :
            /\ Missing(n) = IF Odd(count[n]) THEN Upper(n) - From(n) - 1 ELSE 0
            /\ Missing(n)' = IF Odd(count[n]) THEN Upper(n)' - From(n)' - 1 ELSE 0
    BY <1>d DEF Missing, GUARD_BIT
  <2>2. /\ Missing(tail) = sequence - prevSeq[tail] - 1
        /\ Missing(tail)' = o - prevSeq[tail] - 1
    BY <1>d, <1>f, <1>h, <1>i, <2>1
  <2>3. /\ Missing(Newest) = sequence - sequence - 1
        /\ Missing(Newest)' = sequence - o - 1
    BY <1>e, <1>f, <1>h, <1>i, <2>1
  <2>4. \A n \in Nodes : Real(n) /\ n # tail /\ n # Newest => Missing(n)' = Missing(n)
    BY <1>i, <2>1
  <2>5. sequence \in Nat /\ prevSeq[tail] \in Nat
    BY <1>f
  <2> QED
    BY <1>3, <2>2, <2>3, <2>4, <2>5
<1>7. Counts'
  <2> SUFFICES ASSUME NEW n \in Nodes, Used(n)
               PROVE  /\ count'[n] + Missing(n)' = REFERENCE * Shares(n)'
                      /\ Shares(n)' > 0 \/ \E u \in Threads : Reclaiming(u)' /\ drop'[u] = n
    BY <1>e DEF Counts
  <2>1. count[n] + Missing(n) = REFERENCE * Shares(n) /\ count'[n] = count[n] /\ count[n] \in Int
    BY <1>a, <1>d DEF Counts
  <2>2. \A u \in Threads : Reclaiming(u) /\ drop[u] = n => Reclaiming(u)' /\ drop'[u] = n
    BY <1>c, OthersControl DEF Others, Reclaiming
  <2>3. Shares(n) \in Nat
    BY <1>4
  <2>4. CASE n = tail
    <3>1. tail' = tail
      BY <1>d
    <3>2. Shares(n)' = Shares(n) - k /\ Shares(n)' > 0 /\ Missing(n)' = Missing(n) - 2 * k
          /\ Missing(n) \in Int
      BY <1>5, <1>6, <2>4, <3>1
    <3> QED
      BY <2>1, <2>3, <3>2 DEF REFERENCE
  <2>5. CASE n = Newest
    <3>1. Newest' = Newest
      BY <1>e
    <3>2. Shares(n)' = Shares(n) + k /\ Missing(n)' = Missing(n) + 2 * k /\ Missing(n) \in Int
      BY <1>5, <1>6, <2>5, <3>1
    <3>3. Shares(n) > 0 => Shares(n)' > 0
      BY <2>3, <3>2
    <3>4. count'[n] + Missing(n)' = REFERENCE * Shares(n)'
      BY <2>1, <2>3, <3>2 DEF REFERENCE
    <3> QED
      BY <1>a, <2>2, <3>3, <3>4 DEF Counts
  <2>6. CASE n # tail /\ n # Newest
    <3>1. Shares(n)' = Shares(n) /\ Missing(n)' = Missing(n)
      BY <1>5, <1>6, <1>f, <2>6
    <3> QED
      BY <1>a, <2>1, <2>2, <3>1 DEF Counts
  <2> QED
    BY <2>4, <2>5, <2>6
<1>8. \A n \in Nodes : (Passed(n) => Passed(n)') /\ (Settled(n) => Settled(n)')
  <2> SUFFICES ASSUME NEW n \in Nodes PROVE (Passed(n) => Passed(n)') /\ (Settled(n) => Settled(n)')
    OBVIOUS
  <2>1. Passed(n) => n # tail
    BY <1>h DEF Passed
  <2>2. Passed(n) => Passed(n)'
    BY <1>d, <1>h, <2>1 DEF Passed
  <2> QED
    BY <1>d, <2>2 DEF Settled
<1>9. Sequences'
  <2>1. \A n \in Nodes : Real(n)' /\ pos'[n] < pos'[tail'] => Settled(n)'
    BY <1>a, <1>d, <1>e, <1>8 DEF Sequences
  <2>2. \A n \in Nodes : Real(n)' /\ pos'[n] <= pos'[tail'] => prevSeq'[n] # 0
    BY <1>a, <1>d, <1>e DEF Sequences
  <2>3. /\ next'[tail'] # NULL => prevSeq'[next'[tail']] \in {0, nodeSeq'[tail']}
        /\ ~Odd(count'[tail']) => next'[tail'] # NULL /\ Passed(tail)'
        /\ nodeSeq'[Newest'] = 0 /\ Odd(count'[Newest'])
    BY <1>d, <1>e, <1>f, <1>h
  <2>4. ASSUME NEW n \in Nodes, Real(n)
        PROVE  From(n)' <= Upper(n)' /\ Upper(n)' <= sequence'
    <3>1. CASE n = tail
      BY <1>d, <1>f, <1>g, <1>i, <3>1
    <3>2. CASE n = Newest
      BY <1>d, <1>e, <1>g, <1>i, <3>2
    <3>3. CASE n # tail /\ n # Newest
      BY <1>a, <1>d, <1>i, <2>4, <3>3 DEF Sequences
    <3> QED
      BY <3>1, <3>2, <3>3
  <2>5. ASSUME NEW m \in Nodes, NEW n \in Nodes, Real(m), pos[m] < pos[n]
        PROVE  Upper(m)' <= From(n)'
    <3>0. Upper(m) <= From(n) /\ Real(n) /\ pos[n] <= End /\ m # Newest
      BY <1>a, <1>f, <2>5 DEF Sequences, Real
    <3>a. tail' = tail /\ Newest' = Newest
      BY <1>d, <1>e
    <3>1. CASE m = tail
      <4>1. n = Newest
        BY <1>f, <2>5, <3>1
      <4> QED
        BY <1>i, <3>1, <3>a, <4>1, <1>g
    <3>2. CASE m # tail
      <4>0. Upper(m)' = Upper(m)
        BY <1>i, <2>5, <3>0, <3>2
      <4>1. CASE n = Newest
        <5>1. pos[m] < pos[tail]
          BY <1>f, <2>5, <3>0, <3>2
        <5>2. Upper(m) <= From(tail)
          BY <1>a, <1>f, <2>5, <5>1 DEF Sequences
        <5>3. From(n)' = o
          BY <1>i, <3>a, <4>1
        <5>4. Upper(m) \in Nat
          BY <1>a, SequenceFacts
        <5> QED
          BY <1>f, <1>g, <1>i, <4>0, <5>2, <5>3, <5>4
      <4>2. CASE n = tail
        <5>1. From(n)' = From(n)
          BY <1>i, <3>a, <4>2
        <5> QED
          BY <3>0, <4>0, <5>1
      <4>3. CASE n # tail /\ n # Newest
        BY <1>i, <3>0, <4>0, <4>3
      <4> QED
        BY <4>1, <4>2, <4>3
    <3> QED
      BY <3>1, <3>2
  <2>6. /\ \A n \in Nodes : Real(n)' => From(n)' <= Upper(n)' /\ Upper(n)' <= sequence'
        /\ \A m, n \in Nodes : Real(m)' /\ pos'[m] < pos'[n] => Upper(m)' <= From(n)'
    BY <1>d, <1>e, <2>4, <2>5
  <2> QED
    BY <2>1, <2>2, <2>3, <2>6 DEF Sequences
<1>10. Swinging'
  <2>1. Setting(t)' /\ cur'[t] = tail'
    BY <1>b, <1>c, <1>d DEF Setting
  <2> QED
    BY <2>1 DEF Swinging
<1>k. /\ Setting(t)' /\ ~Dropping(t) /\ ~Dropping(t)' /\ ~Frees(t)' /\ ~Reclaiming(t)
      /\ At(t)' = At(t) /\ Base(t)' = Base(t) /\ Looking(t) /\ Looking(t)'
      /\ \A u \in Threads : Reach(u)' = Reach(u)
      /\ \A u \in Threads : cur'[u] = cur[u]
  <2>1. /\ Setting(t)' /\ ~Dropping(t) /\ ~Dropping(t)' /\ ~Frees(t)' /\ ~Reclaiming(t)
        /\ At(t)' = At(t) /\ Base(t)' = Base(t) /\ Looking(t) /\ Looking(t)'
    BY <1>b, <1>c, <1>d, <1>f DEF Setting, Dropping, At, Frees, Reclaiming, Base, Looking
  <2>2. \A u \in Threads : cur'[u] = cur[u] /\ lat'[u] = lat[u]
    BY <1>c DEF Others
  <2>3. \A u \in Threads : Reach(u)' = Reach(u)
    BY <1>d, <2>2 DEF Reach, Base
  <2> QED
    BY <2>1, <2>2, <2>3
<1>11. \A u \in Threads : seq[u] # 0 =>
           \E n \in Nodes : /\ Used(n) /\ Has(u, n)'
                            /\ pos[cur[u]] <= pos[n] /\ pos[n] <= Reach(u)
  <2> SUFFICES ASSUME NEW u \in Threads, seq[u] # 0
               PROVE  \E n \in Nodes : /\ Used(n) /\ Has(u, n)'
                                       /\ pos[cur[u]] <= pos[n] /\ pos[n] <= Reach(u)
    OBVIOUS
  <2>a. tail' = tail /\ Newest' = Newest
    BY <1>d, <1>e
  <2>1. PICK n \in Nodes : /\ Used(n) /\ Has(u, n)
                           /\ pos[cur[u]] <= pos[n] /\ pos[n] <= Reach(u)
    BY <1>a DEF Mine, Walk
  <2>2. CASE seq[u] > o
    <3>1. Has(u, Newest)'
      BY <1>1, <2>2
    <3>2. End <= Reach(u)
      BY <1>g, <2>2 DEF Above
    <3>3. cur[u] \in Nodes /\ pos[cur[u]] <= pos[tail]
      BY <1>a, Controls DEF Mine, Walk
    <3>4. pos[cur[u]] <= pos[Newest] /\ pos[Newest] <= Reach(u)
      BY <1>f, <3>2, <3>3
    <3>5. PICK m \in Nodes : m = Newest
      BY <1>f
    <3>6. Has(u, m)'
      BY <2>a, <3>1, <3>5
    <3> QED
      BY <1>f, <3>4, <3>5, <3>6
  <2>3. CASE ~(seq[u] > o)
    <3>1. seq[u] <= o
      BY <1>j, <2>3
    <3>2. n # Newest
      BY <1>1, <2>1
    <3>3. Has(u, n)'
      <4>1. CASE n = tail
        <5>1. Has(u, tail)'
          BY <1>1, <2>1, <3>1, <4>1
        <5> QED
          BY <2>a, <4>1, <5>1
      <4>2. CASE n # tail
        BY <1>1, <1>f, <2>1, <3>2, <4>2
      <4> QED
        BY <4>1, <4>2
    <3> QED
      BY <2>1, <3>3
  <2> QED
    BY <2>2, <2>3
<1>12. \A u \in Threads : Walk(u)'
  <2> SUFFICES ASSUME NEW u \in Threads PROVE Walk(u)'
    OBVIOUS
  <2>1. Looking(u)' => Real(cur[u])' /\ pos'[cur'[u]] <= pos'[tail']
    <3>1. Looking(u)' => Looking(u)
      BY <1>k, OthersControl
    <3>2. Looking(u) => Real(cur[u]) /\ pos[cur[u]] <= pos[tail]
      BY <1>a DEF Mine, Walk
    <3> QED
      BY <1>d, <1>e, <1>k, <3>1, <3>2
  <2>2. seq'[u] <= sequence'
    BY <1>d, <1>j
  <2>3. seq'[u] # 0 => \E n \in Nodes : /\ Used(n)' /\ Has(u, n)'
                                        /\ pos'[cur'[u]] <= pos'[n] /\ pos'[n] <= Reach(u)'
    BY <1>11, <1>d, <1>e, <1>j, <1>k
  <2> QED
    BY <2>1, <2>2, <2>3 DEF Walk
<1>13. ASSUME NEW u \in Threads \ {t}
       PROVE  Mine(u)'
  <2>1. /\ Role(u)' /\ Caller(u)' /\ Touch(u)' /\ Pop(u)'
        /\ Setting(u) => cur[u] \in Nodes
        /\ Setting(u)' => next'[cur'[u]] # NULL
        /\ pc'[u] \in {"g_cmp", "a_more", "a_end"} => pos'[cur'[u]] < pos'[tail']
        /\ Dropping(u)' /\ cur'[u] # NULL => pos'[cur'[u]] < pos'[tail']
    BY <1>0, OthersLinks
  <2>2. Pend(u)' /\ Reclaim(u)'
    BY <1>0, <1>d, <1>k, OthersGoOn
  <2>3. Stage(u)'
    <3>0. Stage(u)
      BY <1>a DEF Mine
    <3>1. pc'[u] = pc[u] /\ cur'[u] = cur[u]
      BY DEF Others
    <3>2. pc[u] \in {"s_prev", "s_count", "s_tail"} => nodeSeq'[cur[u]] # 0
      <4>1. pc[u] \in {"s_prev", "s_count", "s_tail"} => nodeSeq[cur[u]] # 0 /\ cur[u] \in Nodes
        BY <2>1, <3>0 DEF Stage, Setting
      <4> QED
        BY <1>g, <1>h, <4>1
    <3>3. /\ pc[u] \in {"s_count", "s_tail"} => Passed(cur[u])'
          /\ pc[u] = "s_tail" => Settled(cur[u])'
      <4>1. pc[u] \in {"s_count", "s_tail"} => (Passed(cur[u]) => Passed(cur[u])')
        BY <1>8, <2>1, <3>1 DEF Setting
      <4>2. pc[u] = "s_tail" => (Settled(cur[u]) => Settled(cur[u])')
        BY <1>8, <2>1, <3>1 DEF Setting
      <4> QED
        BY <3>0, <4>1, <4>2 DEF Stage
    <3>4. pc[u] = "s_set" => ~Unset(u)'
      <4> SUFFICES ASSUME pc[u] = "s_set", nodeSeq'[cur[u]] = 0 PROVE FALSE
        BY <3>1 DEF Unset
      <4>1. Setting(u) /\ cur[u] \in Nodes /\ cur[u] # tail
        BY <1>g, <1>h, <2>1 DEF Setting
      <4>2. ~Settled(cur[u])
        BY <1>h, <4>1 DEF Settled, Passed
      <4> QED
        BY <1>a, <4>1, <4>2, Unsettled DEF Mine
    <3> QED
      BY <2>1, <3>1, <3>2, <3>3, <3>4 DEF Stage
  <2> QED
    BY <1>12, <2>1, <2>2, <2>3 DEF Mine
<1>14. Mine(t)'
  <2>0. Role(t) /\ Caller(t) /\ Touch(t)
    BY <1>a DEF Mine
  <2>1. Role(t)' /\ Caller(t)'
    BY <1>b, <1>c, <1>k, <2>0 DEF Role, Caller, Seeks, Gets, Adds
  <2>2. Stage(t)'
    BY <1>b, <1>c, <1>d, <1>g, <1>h, <1>k DEF Stage
  <2>3. Touch(t)'
    BY <1>c, <1>d, <1>e, <2>0 DEF Touch
  <2>4. Pend(t)' /\ Reclaim(t)' /\ Pop(t)'
    BY <1>c, <1>k DEF Pend, Reclaim, Pop
  <2> QED
    BY <1>12, <2>1, <2>2, <2>3, <2>4 DEF Mine
<1>15. Owners' /\ Allocated' /\ Accounted'
  <2>1. \A n \in Nodes : pos[n] = 0 => nodeSeq'[n] = nodeSeq[n]
    BY <1>f, <1>h
  <2>2. Plain(t)
    BY <1>a, <1>c, <1>d, <1>k, <2>1 DEF Plain, SameHeap, Owns, Ready, IsBetween
  <2> QED
    BY <1>0, <2>2, PlainStep
<1> QED
  BY <1>e, <1>7, <1>9, <1>10, <1>13, <1>14, <1>15 DEF IInv, Mine

-------------------------------------------------------------------------------
(* Swinging the tail: the share of the tail becomes that of the thread.    *)
LEMMA SetTailSwing ==
    ASSUME TypeOK, TypeOK', IInv, NEW t \in Threads, Others(t), SetTail(t) /\ Swings(t)
    PROVE  IInv'
<1> USE Consts, TypesGive, Types
<1>a. /\ Places /\ Links /\ Sequences /\ Counts /\ Swinging /\ Allocated
      /\ ClientType /\ LocalType /\ NodeType /\ numNodes \in 0..MaxNodes
      /\ \A u \in Threads : Mine(u)
  BY DEF IInv, Mine, TypeOK, Accounted, NodeAccounting
<1>b. PICK a \in Nodes : a = tail /\ a = cur[t]
  BY DEF Swings
<1>c. /\ pc[t] = "s_tail" /\ pc'[t] = "d_sub" /\ drop'[t] = a /\ drop[t] = NULL
      /\ old'[t] = old[t] /\ seq'[t] = seq[t]
      /\ ret'[t] = ret[t] /\ ref'[t] = ref[t] /\ use'[t] = use[t]
      /\ cur'[t] = cur[t] /\ lat'[t] = lat[t] /\ own'[t] = own[t]
      /\ nxt'[t] = nxt[t] /\ free'[t] = free[t] /\ node'[t] = node[t] /\ arg'[t] = arg[t]
      /\ ret[t] \in {"g_cmp", "a_more", "a_end"}
  <2>1. Role(t) /\ pc[t] = "s_tail"
    BY <1>a DEF Mine, SetTail
  <2>2. drop[t] = NULL /\ ret[t] \in {"g_cmp", "a_more", "a_end"}
    BY <2>1 DEF Role, Setting, Dropping
  <2> QED
    BY <1>a, <1>b, <2>1, <2>2 DEF SetTail, Goto, clientVars, localVars, getVars, newVars, ClientType, LocalType
<1>d. /\ count' = count /\ prevSeq' = prevSeq /\ nodeSeq' = nodeSeq /\ sequence' = sequence
      /\ numNodes' = numNodes /\ heap' = heap /\ alive' = alive
      /\ freeHead' = freeHead /\ freeTail' = freeTail /\ pos' = pos
      /\ next' = next /\ data' = data /\ failed' = failed
  BY DEF SetTail, nodeVars, heapVars, historyVars
<1>e. PICK b \in Nodes : /\ b = next[a] /\ tail' = b /\ b = Newest /\ b # a
                         /\ pos[b] = End /\ End = pos[a] + 1 /\ next[b] = NULL
                         /\ nodeSeq[a] # 0 /\ prevSeq[b] = nodeSeq[a] /\ Settled(a)
                         /\ nodeSeq[b] = 0 /\ Odd(count[b])
  <2>1. Settled(a) /\ next[a] # NULL
    BY <1>a, <1>b, <1>c DEF Mine, Stage, Setting
  <2>2. nodeSeq[a] # 0 /\ prevSeq[next[a]] = nodeSeq[a]
    BY <2>1 DEF Settled, Passed
  <2>3. tail' = next[a]
    BY <1>b DEF SetTail, Swings
  <2>4. next[a] = Newest /\ End = pos[a] + 1
    BY <1>b, <2>1 DEF Newest, End
  <2>5. Newest \in Nodes /\ pos[Newest] = End /\ next[Newest] = NULL
    BY <1>a, ChainFacts
  <2>6. nodeSeq[Newest] = 0 /\ Odd(count[Newest])
    BY <1>a DEF Sequences
  <2> QED
    BY <2>1, <2>2, <2>3, <2>4, <2>5, <2>6
<1>f. /\ Newest' = b /\ End' = End /\ FirstInUse' = FirstInUse
      /\ \A n : Used(n)' <=> Used(n)
      /\ \A n : Real(n)' <=> Real(n)
  <2>1. Newest' = b /\ End' = End
    BY <1>d, <1>e DEF Newest, End
  <2>2. FirstInUse' = FirstInUse
    BY <1>d DEF FirstInUse
  <2> QED
    BY <1>d, <2>1, <2>2 DEF Used, Real
<1>g. /\ Used(a) /\ Used(b) /\ Real(a) /\ Real(b) /\ FirstInUse <= pos[a] /\ FirstInUse \in Nat
      /\ \A n \in Nodes : Used(n) => Real(n)
      /\ \A n \in Nodes : Real(n) => pos[n] > 0
      /\ \A n \in Nodes : pos[n] > 0 => pos[n] <= End
      /\ \A n \in Nodes : pos[n] > pos[a] => n = b
      /\ \A n \in Nodes : pos[n] = pos[a] => n = a
      /\ pos[a] \in Nat /\ pos[b] = pos[a] + 1
  <2>1. FirstInUse <= pos[a] /\ FirstInUse \in Nat
    BY <1>a, <1>b, ChainFacts
  <2>2. Used(a) /\ Used(b)
    BY <1>e, <2>1 DEF Used
  <2> QED
    BY <1>a, <1>b, <1>e, <2>1, <2>2, ChainFacts
<1>1. Places'
  BY <1>a, <1>d, <1>e, <1>f, <1>g DEF Places
<1>2. Links'
  BY <1>a, <1>d, <1>f DEF Links
<1>3. /\ \A n \in Nodes : Upper(n)' = Upper(n)
      /\ \A n \in Nodes : Real(n) => prevSeq[n] # 0 /\ From(n)' = From(n)
  <2>1. \A n \in Nodes : Upper(n)' = Upper(n)
    BY <1>d DEF Upper
  <2>2. ASSUME NEW n \in Nodes, Real(n)
        PROVE  prevSeq[n] # 0
    <3>1. CASE pos[n] <= pos[a]
      BY <1>a, <1>b, <2>2, <3>1 DEF Sequences
    <3>2. CASE ~(pos[n] <= pos[a])
      <4>1. n = b
        BY <1>g, <3>2
      <4> QED
        BY <1>e, <4>1
    <3> QED
      BY <3>1, <3>2
  <2> QED
    BY <1>d, <2>1, <2>2 DEF From
<1>4. \A u \in Threads : \A n \in Nodes : Real(n) => (Has(u, n)' <=> Has(u, n))
  <2>1. \A u \in Threads : seq'[u] = seq[u]
    BY <1>c DEF Others
  <2> QED
    BY <1>3, <2>1 DEF Has
<1>5. \A n \in Nodes : Real(n) => Missing(n)' = Missing(n)
  BY <1>3, <1>d DEF Missing
<1>6. \A n \in Nodes : Used(n) => Shares(n)' = Shares(n)
  <2> SUFFICES ASSUME NEW n \in Nodes, Used(n) PROVE Shares(n)' = Shares(n)
    OBVIOUS
  <2>1. /\ Shares(n) \in Nat
        /\ Shares(n)' = Shares(n) + Share(t, n)' - Share(t, n) + Place(n)' - Place(n)
    BY <1>4, <1>g, SharesStep
  <2>2. Share(t, n)' = Share(t, n) + (IF n = a THEN 1 ELSE 0)
    BY <1>4, <1>c, <1>g, ShareIs, SMTT(30)
  <2>3. Place(n)' = Place(n) - (IF n = a THEN 1 ELSE 0)
    <3>1. LinkShare(n)' = LinkShare(n) /\ LinkShare(n) \in {0, 1}
      BY <1>d, <1>f DEF LinkShare
    <3>2. /\ TailShare(n) = IF pos[n] >= pos[a] THEN 1 ELSE 0
          /\ TailShare(n)' = IF pos[n] >= pos[b] THEN 1 ELSE 0
      BY <1>b, <1>d, <1>e DEF TailShare
    <3>3. pos[n] >= pos[b] <=> pos[n] >= pos[a] /\ n # a
      BY <1>g
    <3> QED
      BY <1>g, <3>1, <3>2, <3>3 DEF Place
  <2>4. Place(n) \in Nat /\ Share(t, n) \in Nat
    BY PlaceIs, SharesOf
  <2> QED
    BY <2>1, <2>2, <2>3, <2>4
<1>7. Counts'
  <2>1. \A u \in Threads : Reclaiming(u) => Reclaiming(u)' /\ drop'[u] = drop[u]
    BY <1>c, OthersControl DEF Others, Reclaiming
  <2> QED
    BY <1>a, <1>d, <1>f, <1>g, <1>5, <1>6, <2>1 DEF Counts
<1>8. \A n \in Nodes : (Passed(n)' <=> Passed(n)) /\ (Settled(n)' <=> Settled(n))
  BY <1>d DEF Passed, Settled
<1>9. Sequences'
  <2>1. ASSUME NEW n \in Nodes, Real(n), pos[n] < pos[b]
        PROVE  Settled(n)
    <3>1. CASE pos[n] < pos[a]
      BY <1>a, <1>b, <2>1, <3>1 DEF Sequences
    <3>2. CASE ~(pos[n] < pos[a])
      <4>1. n = a
        BY <1>g, <2>1, <3>2
      <4> QED
        BY <1>e, <4>1
    <3> QED
      BY <3>1, <3>2
  <2>2. \A n \in Nodes : Real(n)' /\ pos'[n] < pos'[tail'] => Settled(n)'
    BY <1>8, <1>d, <1>e, <1>f, <2>1
  <2>3. /\ \A n \in Nodes : Real(n)' /\ pos'[n] <= pos'[tail'] => prevSeq'[n] # 0
        /\ next'[tail'] = NULL
        /\ nodeSeq'[Newest'] = 0 /\ Odd(count'[Newest']) /\ Odd(count'[tail'])
    BY <1>3, <1>d, <1>e, <1>f
  <2>4. \A n \in Nodes : Real(n)' => From(n)' <= Upper(n)' /\ Upper(n)' <= sequence'
    BY <1>a, <1>3, <1>d, <1>f DEF Sequences
  <2>5. ASSUME NEW m \in Nodes, NEW n \in Nodes, Real(m), pos[m] < pos[n]
        PROVE  Upper(m)' <= From(n)'
    <3>1. Real(n) /\ Upper(m) <= From(n)
      BY <1>a, <2>5 DEF Sequences, Real
    <3> QED
      BY <1>3, <2>5, <3>1
  <2>6. \A m, n \in Nodes : Real(m)' /\ pos'[m] < pos'[n] => Upper(m)' <= From(n)'
    BY <1>d, <1>f, <2>5
  <2> QED
    BY <2>2, <2>3, <2>4, <2>6 DEF Sequences
<1>10. Swinging'
  BY <1>d, <1>e DEF Swinging
<1>h. /\ Setting(t) /\ ~Setting(t)' /\ ~Dropping(t) /\ Dropping(t)' /\ ~Frees(t)' /\ ~Reclaiming(t)
      /\ At(t) = ret[t] /\ At(t)' = ret[t] /\ Looking(t) /\ Looking(t)'
      /\ \A u \in Threads : Reach(u)' = Reach(u) /\ Base(u)' = Base(u)
      /\ \A u \in Threads : cur'[u] = cur[u]
      /\ \A u \in Threads : Looking(u)' <=> Looking(u)
  <2>1. /\ Setting(t) /\ ~Setting(t)' /\ ~Dropping(t) /\ Dropping(t)' /\ ~Frees(t)' /\ ~Reclaiming(t)
        /\ At(t) = ret[t] /\ At(t)' = ret[t] /\ Looking(t) /\ Looking(t)'
    BY <1>b, <1>c, <1>d DEF Setting, Dropping, At, Frees, Reclaiming, Looking
  <2>2. \A u \in Threads : cur'[u] = cur[u] /\ lat'[u] = lat[u]
    BY <1>c DEF Others
  <2>3. \A u \in Threads : Reach(u)' = Reach(u) /\ Base(u)' = Base(u)
    BY <1>d, <2>2 DEF Reach, Base
  <2> QED
    BY <2>1, <2>2, <2>3, OthersControl
<1>11. \A u \in Threads : Walk(u)'
  <2> SUFFICES ASSUME NEW u \in Threads PROVE Walk(u)'
    OBVIOUS
  <2>0. Walk(u) /\ Role(u) /\ seq'[u] = seq[u]
    BY <1>a, <1>c DEF Mine, Others
  <2>1. Looking(u)' => Real(cur[u])' /\ pos'[cur'[u]] <= pos'[tail']
    <3>1. Looking(u) => cur[u] \in Nodes /\ Real(cur[u]) /\ pos[cur[u]] <= pos[a]
      BY <1>b, <2>0, Controls DEF Walk
    <3> QED
      BY <1>d, <1>e, <1>f, <1>g, <1>h, <3>1
  <2>2. seq'[u] # 0 => seq'[u] <= sequence'
    BY <1>d, <2>0 DEF Walk
  <2>3. ASSUME NEW n \in Nodes, Used(n), Has(u, n), pos[cur[u]] <= pos[n], pos[n] <= Reach(u)
        PROVE  Used(n)' /\ Has(u, n)' /\ pos'[cur'[u]] <= pos'[n] /\ pos'[n] <= Reach(u)'
    BY <1>4, <1>d, <1>f, <1>g, <1>h, <2>3
  <2> QED
    BY <2>0, <2>1, <2>2, <2>3 DEF Walk
<1>12. ASSUME NEW u \in Threads \ {t}
       PROVE  Mine(u)'
  <2>0. /\ Role(u) /\ Caller(u) /\ Stage(u) /\ Pend(u) /\ Touch(u) /\ Reclaim(u) /\ Pop(u) /\ Walk(u)
        /\ pc'[u] = pc[u] /\ cur'[u] = cur[u] /\ old'[u] = old[u] /\ ref'[u] = ref[u]
        /\ own'[u] = own[u] /\ drop'[u] = drop[u] /\ nxt'[u] = nxt[u] /\ free'[u] = free[u]
    BY <1>a DEF Mine, Others
  <2>1. /\ Role(u)' /\ Caller(u)'
        /\ Setting(u)' <=> Setting(u)
        /\ Dropping(u)' <=> Dropping(u)
        /\ Frees(u)' <=> Frees(u)
        /\ Reclaiming(u)' <=> Reclaiming(u)
    BY <2>0, OthersControl
  <2>a. Setting(u) => cur[u] \in Nodes
    BY <2>0, Controls
  <2>2. Stage(u)'
    <3>1. \A n \in Nodes : pos[n] < pos[a] => pos[n] < pos[b]
      BY <1>g
    <3>2. /\ pc[u] \in {"g_cmp", "a_more", "a_end"} => cur[u] \in Nodes
          /\ Dropping(u) /\ cur[u] # NULL => cur[u] \in Nodes
      BY <2>0, Controls DEF Seeks, Adds
    <3>3. /\ pc[u] \in {"g_cmp", "a_more", "a_end"} => pos'[cur[u]] < pos'[tail']
          /\ Dropping(u) /\ cur[u] # NULL => pos'[cur[u]] < pos'[tail']
      BY <1>b, <1>d, <1>e, <2>0, <3>1, <3>2 DEF Stage
    <3>4. pc[u] = "s_set" => ~Unset(u)'
      <4> SUFFICES ASSUME pc[u] = "s_set", Unset(u) PROVE FALSE
        BY <1>d, <2>0 DEF Unset
      <4>1. Setting(u) /\ ~Settled(cur[u])
        BY DEF Setting, Settled, Passed, Unset
      <4>2. cur[u] = a
        BY <1>a, <1>b, <2>0, <4>1, Unsettled
      <4> QED
        BY <1>e, <4>2 DEF Unset
    <3>5. /\ pc[u] \in {"s_prev", "s_count", "s_tail"} => nodeSeq'[cur[u]] # 0
          /\ Setting(u) => next'[cur[u]] # NULL
      BY <1>d, <2>0 DEF Stage
    <3>6. /\ pc[u] \in {"s_count", "s_tail"} => Passed(cur[u])'
          /\ pc[u] = "s_tail" => Settled(cur[u])'
      <4>1. pc[u] \in {"s_count", "s_tail"} => (Passed(cur[u]) => Passed(cur[u])')
        BY <1>8, <2>a, <2>0 DEF Setting
      <4>2. pc[u] = "s_tail" => (Settled(cur[u]) => Settled(cur[u])')
        BY <1>8, <2>a, <2>0 DEF Setting
      <4> QED
        BY <2>0, <4>1, <4>2 DEF Stage
    <3> QED
      BY <2>0, <2>1, <3>3, <3>4, <3>5, <3>6 DEF Stage
  <2>3. Pend(u)'
    <3>1. SequenceMatches(u)' <=> SequenceMatches(u)
      BY <1>d, <2>0 DEF SequenceMatches
    <3>2. pc[u] = "g_cas" => cur[u] \in Nodes
      BY <2>0, Controls
    <3>3. \A n \in Nodes : pos[n] <= pos[a] => pos[n] <= pos[b]
      BY <1>g
    <3>4. pc[u] = "g_cas" /\ SequenceMatches(u) =>
            /\ Real(cur[u])' /\ pos'[cur[u]] <= pos'[tail']
            /\ End' <= pos'[cur[u]] + Latency + 1
            /\ \A v \in Threads : Looking(v)' => Base(v)' <= pos'[cur[u]]
      BY <1>b, <1>d, <1>e, <1>f, <1>h, <2>0, <3>2, <3>3 DEF Pend
    <3> QED
      BY <1>d, <2>0, <3>1, <3>4 DEF Pend
  <2>4. Touch(u)'
    BY <1>d, <1>f, <2>0 DEF Touch
  <2>5. Reclaim(u)'
    <3>1. \A v \in Threads : Frees(v)' => Frees(v)
      BY <1>h, OthersControl
    <3>2. Reclaiming(u) => drop[u] \in Nodes
      BY <2>0, Controls DEF Reclaiming, Dropping
    <3>3. Reclaiming(u) => pos'[drop[u]] < pos'[tail'] /\ count'[drop[u]] = 0
      BY <1>b, <1>d, <1>e, <1>g, <2>0, <3>2 DEF Reclaim, Frees
    <3> QED
      BY <1>d, <1>f, <2>0, <2>1, <3>1, <3>3 DEF Reclaim
  <2>6. Pop(u)'
    BY <1>d, <2>0 DEF Pop, Stayed
  <2> QED
    BY <1>11, <2>1, <2>2, <2>3, <2>4, <2>5, <2>6 DEF Mine
<1>13. Mine(t)'
  <2>0. Role(t) /\ Caller(t) /\ Touch(t)
    BY <1>a DEF Mine
  <2>1. Role(t)'
    BY <1>c, <1>h, <2>0 DEF Role, Seeks, Gets, Adds
  <2>2. Caller(t)'
    BY <1>c, <1>h, <2>0 DEF Caller
  <2>3. Stage(t)'
    <3>1. pos'[cur'[t]] < pos'[tail']
      BY <1>b, <1>d, <1>e, <1>g, <1>h
    <3> QED
      BY <1>c, <1>h, <3>1 DEF Stage
  <2>4. Touch(t)'
    BY <1>c, <1>d, <1>f, <1>g, <2>0 DEF Touch
  <2>5. Pend(t)' /\ Reclaim(t)' /\ Pop(t)'
    BY <1>c, <1>h DEF Pend, Reclaim, Pop
  <2> QED
    BY <1>11, <2>1, <2>2, <2>3, <2>4, <2>5 DEF Mine
<1>14. Owners' /\ Allocated' /\ Accounted'
  <2>1. alive
    BY <1>a, <1>c DEF Allocated
  <2>2. Plain(t)
    BY <1>a, <1>c, <1>d, <1>h DEF Plain, SameHeap, Owns, Ready, IsBetween
  <2> QED
    BY <2>1, <2>2, PlainStep
<1> QED
  BY <1>1, <1>2, <1>7, <1>9, <1>10, <1>12, <1>13, <1>14 DEF IInv, Mine


-------------------------------------------------------------------------------
(* Letting the first node in use go: nobody has a share in it, and the     *)
(* link from it becomes the thread's share of the next.                    *)
LEMMA DropStoreKept ==
    ASSUME TypeOK, TypeOK', IInv, NEW t \in Threads, Others(t), DropStore(t)
    PROVE  IInv'
<1> USE Consts, TypesGive, Types
<1>a. /\ Places /\ Links /\ Sequences /\ Counts /\ Swinging /\ Allocated
      /\ ClientType /\ LocalType /\ NodeType /\ numNodes \in 0..MaxNodes
      /\ \A u \in Threads : Mine(u)
  BY DEF IInv, Mine, TypeOK, Accounted, NodeAccounting
<1>b. PICK d \in Nodes : d = drop[t] /\ Used(d)
  BY <1>a, Controls DEF Mine, Touch, DropStore, Dropping
<1>c. /\ pc[t] = "d_store" /\ pc'[t] = "d_free" /\ drop'[t] = next[d]
      /\ old'[t] = old[t] /\ seq'[t] = seq[t]
      /\ ret'[t] = ret[t] /\ ref'[t] = ref[t] /\ use'[t] = use[t]
      /\ cur'[t] = cur[t] /\ lat'[t] = lat[t] /\ own'[t] = own[t]
      /\ free'[t] = free[t] /\ node'[t] = node[t] /\ arg'[t] = arg[t]
      /\ ret[t] \in {"idle", "g_seq", "g_cmp", "a_more", "a_end", "t_free", "backoff"}
  BY <1>a, <1>b DEF DropStore, Goto, clientVars, localVars, getVars, newVars, ClientType, LocalType
<1>d. /\ count' = count /\ prevSeq' = prevSeq /\ nodeSeq' = nodeSeq /\ sequence' = sequence
      /\ numNodes' = numNodes /\ heap' = heap /\ alive' = alive
      /\ freeHead' = freeHead /\ tail' = tail /\ pos' = pos
      /\ next' = next /\ data' = data /\ failed' = failed /\ freeTail' = nxt[t]
  BY DEF DropStore, nodeVars, heapVars, historyVars
<1>e. PICK f \in Nodes : f = freeTail' /\ pos[f] = pos[freeTail] + 1
  BY <1>a, <1>c, <1>d, ThreadFacts DEF Mine
<1>f. PICK b \in Nodes : b = drop'[t] /\ pos[b] = FirstInUse + 1 /\ b # d
  BY <1>a, <1>b, <1>c, ThreadFacts DEF Mine
<1>g. /\ FirstInUse \in Nat /\ FirstInUse > 0 /\ pos[d] = FirstInUse /\ FirstInUse + 1 <= pos[tail]
      /\ FirstInUse' = FirstInUse + 1 /\ count[d] = 0
  <2>0. FirstInUse \in Nat /\ FirstInUse > 0
    BY <1>a, ChainFacts
  <2>1. pos[d] = FirstInUse /\ FirstInUse + 1 <= pos[tail]
    BY <1>a, <1>b, <1>c, ThreadFacts DEF Mine
  <2>2. FirstInUse' = FirstInUse + 1
    BY <1>d, <1>e DEF FirstInUse
  <2>3. count[d] = 0
    BY <1>a, <1>b, <1>c DEF Mine, Reclaim, Frees, Reclaiming
  <2> QED
    BY <2>0, <2>1, <2>2, <2>3
<1>h. /\ Newest' = Newest /\ End' = End
      /\ \A n : Real(n)' <=> Real(n)
      /\ \A n \in Nodes : Used(n)' <=> Used(n) /\ n # d
      /\ \A n \in Nodes : pos[n] = FirstInUse + 1 => n = b
      /\ \A n \in Nodes : pos[n] = FirstInUse => n = d
  <2>1. /\ Newest' = Newest /\ End' = End
        /\ \A n : Real(n)' <=> Real(n)
    BY <1>d DEF Newest, End, Real
  <2>2. \A n \in Nodes : pos[n] = FirstInUse => n = d
    BY <1>a, <1>g DEF Places
  <2>3. \A n \in Nodes : pos[n] = FirstInUse + 1 => n = b
    BY <1>a, <1>f, <1>g DEF Places
  <2>4. \A n \in Nodes : Used(n)' <=> Used(n) /\ n # d
    BY <1>d, <1>g, <2>2 DEF Used
  <2> QED
    BY <2>1, <2>2, <2>3, <2>4
<1>1. Places' /\ Links'
  <2>1. /\ 0 < pos[freeHead] /\ pos[freeHead] <= pos[f]
    BY <1>a, <1>e, ChainFacts DEF Places
  <2>2. FirstInUse' <= pos[tail]
    BY <1>g
  <2> QED
    BY <1>a, <1>d, <1>e, <1>h, <2>1, <2>2 DEF Places, Links
<1>2. /\ \A n \in Nodes : Upper(n)' = Upper(n) /\ From(n)' = From(n)
      /\ \A n \in Nodes : Missing(n)' = Missing(n)
      /\ \A u \in Threads : \A n \in Nodes : Has(u, n)' <=> Has(u, n)
  <2>1. \A n \in Nodes : Upper(n)' = Upper(n)
    BY <1>d DEF Upper
  <2>2. \A n \in Nodes : From(n)' = From(n)
    BY <1>d, <2>1 DEF From
  <2>3. \A u \in Threads : seq'[u] = seq[u]
    BY <1>c DEF Others
  <2> QED
    BY <1>d, <2>1, <2>2, <2>3 DEF Has, Missing
<1>3. \A u \in Threads : /\ ref[u] # d /\ own[u] # d /\ ~Has(u, d)
                         /\ u # t => drop[u] # d /\ ~Frees(u)
  <2> SUFFICES ASSUME NEW u \in Threads
               PROVE  /\ ref[u] # d /\ own[u] # d /\ ~Has(u, d)
                      /\ u # t => drop[u] # d /\ ~Frees(u)
    OBVIOUS
  <2>1. Shares(d) = 0
    <3>1. Missing(d) = 0
      BY <1>g DEF Missing, Odd
    <3>2. Shares(d) \in Nat
      BY SharesOf
    <3> QED
      BY <1>a, <1>b, <1>g, <3>1, <3>2 DEF Counts, REFERENCE
  <2>2. /\ ref[u] # d /\ own[u] # d /\ ~Has(u, d)
        /\ ~(drop[u] = d /\ pc[u] \in {"d_sub", "d_free"})
    <3>1. Share(u, d) = 0
      BY <2>1, Unshared
    <3> QED
      BY <3>1, ShareIs
  <2>3. u # t => ~Frees(u)
    BY <1>a, <1>c DEF Mine, Reclaim, Frees, Reclaiming
  <2>4. drop[u] = d => Dropping(u)
    BY <1>a DEF Mine, Role
  <2> QED
    BY <2>2, <2>3, <2>4 DEF Dropping, Frees, Reclaiming
<1>4. \A n \in Nodes : Used(n)' => Shares(n)' = Shares(n)
  <2> SUFFICES ASSUME NEW n \in Nodes, Used(n)' PROVE Shares(n)' = Shares(n)
    OBVIOUS
  <2>1. /\ Shares(n) \in Nat
        /\ Shares(n)' = Shares(n) + Share(t, n)' - Share(t, n) + Place(n)' - Place(n)
    BY <1>2, SharesStep
  <2>2. Share(t, n)' = Share(t, n) + (IF n = b THEN 1 ELSE 0)
    BY <1>2, <1>c, <1>f, ShareIs
  <2>3. Place(n)' = Place(n) - (IF n = b THEN 1 ELSE 0)
    <3>1. TailShare(n)' = TailShare(n) /\ TailShare(n) \in {0, 1}
      BY <1>d DEF TailShare
    <3>2. /\ LinkShare(n) = IF pos[n] > FirstInUse THEN 1 ELSE 0
          /\ LinkShare(n)' = IF pos[n] > FirstInUse + 1 THEN 1 ELSE 0
      BY <1>d, <1>g DEF LinkShare
    <3>3. pos[n] > FirstInUse
      BY <1>d, <1>g DEF Used
    <3>4. pos[n] > FirstInUse + 1 <=> n # b
      BY <1>f, <1>g, <1>h, <3>3
    <3> QED
      BY <3>1, <3>2, <3>3, <3>4 DEF Place
  <2>4. Place(n) \in Nat /\ Share(t, n) \in Nat
    BY PlaceIs, SharesOf
  <2> QED
    BY <2>1, <2>2, <2>3, <2>4
<1>5. Counts'
  <2> SUFFICES ASSUME NEW n \in Nodes, Used(n)'
               PROVE  /\ count'[n] + Missing(n)' = REFERENCE * Shares(n)'
                      /\ Shares(n)' > 0
    BY DEF Counts
  <2>1. Used(n) /\ n # d /\ Shares(n)' = Shares(n)
    BY <1>h, <1>4
  <2>2. \A u \in Threads : Reclaiming(u) => u = t
    BY <1>3 DEF Frees
  <2>3. Shares(n) > 0
    BY <1>a, <1>b, <2>1, <2>2 DEF Counts
  <2> QED
    BY <1>a, <1>d, <1>2, <2>1, <2>3 DEF Counts
<1>6. \A n \in Nodes : (Passed(n)' <=> Passed(n)) /\ (Settled(n)' <=> Settled(n))
  BY <1>d DEF Passed, Settled
<1>7. Sequences'
  <2>1. /\ \A n \in Nodes : Real(n)' /\ pos'[n] < pos'[tail'] => Settled(n)'
        /\ \A n \in Nodes : Real(n)' /\ pos'[n] <= pos'[tail'] => prevSeq'[n] # 0
        /\ next'[tail'] # NULL => prevSeq'[next'[tail']] \in {0, nodeSeq'[tail']}
        /\ nodeSeq'[Newest'] = 0 /\ Odd(count'[Newest'])
    BY <1>a, <1>d, <1>h, <1>6 DEF Sequences
  <2>2. ~Odd(count'[tail']) => next'[tail'] # NULL /\ Passed(tail)'
    <3>1. Passed(tail)' <=> Passed(tail)
      BY <1>d DEF Passed
    <3> QED
      BY <1>a, <1>d, <3>1 DEF Sequences
  <2>3. /\ \A n \in Nodes : Real(n)' => From(n)' <= Upper(n)' /\ Upper(n)' <= sequence'
        /\ \A m, n \in Nodes : Real(m)' /\ pos'[m] < pos'[n] => Upper(m)' <= From(n)'
    BY <1>a, <1>d, <1>h, <1>2 DEF Sequences
  <2> QED
    BY <1>d, <2>1, <2>2, <2>3 DEF Sequences
<1>i. /\ ~Setting(t) /\ ~Setting(t)' /\ Dropping(t) /\ Dropping(t)' /\ Frees(t)' /\ ~Reclaiming(t)'
      /\ At(t) = ret[t] /\ At(t)' = ret[t]
      /\ \A u \in Threads : Reach(u)' = Reach(u) /\ Base(u)' = Base(u)
      /\ \A u \in Threads : cur'[u] = cur[u] /\ seq'[u] = seq[u]
      /\ \A u \in Threads : Looking(u)' <=> Looking(u)
  <2>1. /\ ~Setting(t) /\ ~Setting(t)' /\ Dropping(t) /\ Dropping(t)' /\ Frees(t)' /\ ~Reclaiming(t)'
        /\ At(t) = ret[t] /\ At(t)' = ret[t]
        /\ Looking(t)' <=> Looking(t)
    BY <1>c, <1>d DEF Setting, Dropping, At, Frees, Reclaiming, Looking
  <2>2. \A u \in Threads : cur'[u] = cur[u] /\ lat'[u] = lat[u] /\ seq'[u] = seq[u]
    BY <1>c DEF Others
  <2>3. \A u \in Threads : Reach(u)' = Reach(u) /\ Base(u)' = Base(u)
    BY <1>d, <2>2 DEF Reach, Base
  <2> QED
    BY <2>1, <2>2, <2>3, OthersControl
<1>8. Swinging'
  <2>1. \A u \in Threads : Setting(u) => Setting(u)'
    BY <1>i, OthersControl
  <2> QED
    BY <1>a, <1>d, <1>i, <2>1 DEF Swinging
<1>9. \A u \in Threads : Walk(u)'
  <2> SUFFICES ASSUME NEW u \in Threads PROVE Walk(u)'
    OBVIOUS
  <2>0. Walk(u)
    BY <1>a DEF Mine
  <2>1. Looking(u)' => Real(cur[u])' /\ pos'[cur'[u]] <= pos'[tail']
    BY <1>d, <1>h, <1>i, <2>0 DEF Walk
  <2>2. seq'[u] # 0 => seq'[u] <= sequence'
    BY <1>d, <1>i, <2>0 DEF Walk
  <2>3. ASSUME NEW n \in Nodes, Used(n), Has(u, n), pos[cur[u]] <= pos[n], pos[n] <= Reach(u)
        PROVE  Used(n)' /\ Has(u, n)' /\ pos'[cur'[u]] <= pos'[n] /\ pos'[n] <= Reach(u)'
    <3>1. n # d
      BY <1>3, <2>3
    <3> QED
      BY <1>2, <1>d, <1>h, <1>i, <2>3, <3>1
  <2> QED
    BY <1>i, <2>0, <2>1, <2>2, <2>3 DEF Walk
<1>10. ASSUME NEW u \in Threads \ {t}
       PROVE  Mine(u)'
  <2>0. /\ Role(u) /\ Caller(u) /\ Stage(u) /\ Pend(u) /\ Touch(u) /\ Pop(u)
        /\ pc'[u] = pc[u] /\ cur'[u] = cur[u] /\ old'[u] = old[u] /\ ref'[u] = ref[u]
        /\ own'[u] = own[u] /\ drop'[u] = drop[u] /\ nxt'[u] = nxt[u] /\ free'[u] = free[u]
    BY <1>a DEF Mine, Others
  <2>1. /\ Role(u)' /\ Caller(u)'
        /\ Setting(u)' <=> Setting(u)
        /\ Dropping(u)' <=> Dropping(u)
        /\ Frees(u)' <=> Frees(u)
        /\ Reclaiming(u)' <=> Reclaiming(u)
    BY <2>0, OthersControl
  <2>2. Stage(u)'
    <3>1. Setting(u) => cur[u] \in Nodes
      BY <2>0, Controls
    <3>2. /\ pc[u] \in {"g_cmp", "a_more", "a_end"} => pos'[cur[u]] < pos'[tail']
          /\ Dropping(u) /\ cur[u] # NULL => pos'[cur[u]] < pos'[tail']
          /\ pc[u] \in {"s_prev", "s_count", "s_tail"} => nodeSeq'[cur[u]] # 0
          /\ Setting(u) => next'[cur[u]] # NULL
      BY <1>d, <2>0 DEF Stage
    <3>3. /\ pc[u] \in {"s_count", "s_tail"} => Passed(cur[u])'
          /\ pc[u] = "s_tail" => Settled(cur[u])'
      <4>1. pc[u] \in {"s_count", "s_tail"} => (Passed(cur[u]) => Passed(cur[u])')
        BY <1>6, <2>0, <3>1 DEF Setting
      <4>2. pc[u] = "s_tail" => (Settled(cur[u]) => Settled(cur[u])')
        BY <1>6, <2>0, <3>1 DEF Setting
      <4> QED
        BY <2>0, <4>1, <4>2 DEF Stage
    <3>4. ASSUME pc[u] = "s_set", Unset(u)'
          PROVE  /\ prevSeq'[tail'] <= old'[u] /\ old'[u] <= sequence'
                 /\ REFERENCE * Cardinality(Above(old[u])') = sequence' - old'[u]
                 /\ \A v \in Above(old[u])' : End' <= Reach(v)'
      <4>1. Unset(u)
        BY <1>d, <2>0, <3>4 DEF Unset
      <4>2. /\ prevSeq[tail] <= old[u] /\ old[u] <= sequence
            /\ REFERENCE * Cardinality(Above(old[u])) = sequence - old[u]
            /\ \A v \in Above(old[u]) : End <= Reach(v)
        BY <2>0, <3>4, <4>1 DEF Stage
      <4>3. Above(old[u])' = Above(old[u])
        BY <2>0, <1>i DEF Above
      <4>4. \A v \in Above(old[u]) : Reach(v)' = Reach(v)
        BY <1>i DEF Above
      <4> QED
        BY <1>d, <1>h, <2>0, <4>2, <4>3, <4>4
    <3> QED
      BY <2>0, <2>1, <3>2, <3>3, <3>4 DEF Stage
  <2>3. Pend(u)'
    <3>1. SequenceMatches(u)' <=> SequenceMatches(u)
      BY <1>d, <2>0 DEF SequenceMatches
    <3>2. pc[u] = "g_cas" /\ SequenceMatches(u) =>
            /\ Real(cur[u])' /\ pos'[cur[u]] <= pos'[tail']
            /\ End' <= pos'[cur[u]] + Latency + 1
            /\ \A v \in Threads : Looking(v)' => Base(v)' <= pos'[cur[u]]
      BY <1>d, <1>h, <1>i, <2>0 DEF Pend
    <3> QED
      BY <1>d, <2>0, <3>1, <3>2 DEF Pend
  <2>4. Touch(u)'
    BY <1>3, <1>d, <1>h, <2>0 DEF Touch
  <2>5. Reclaim(u)'
    BY <1>3, <2>1 DEF Reclaim, Frees
  <2>6. Pop(u)'
    <3>1. \A k \in Nat : (k <= pos[freeTail] => k <= pos[f]) /\ (k < pos[freeTail] => k < pos[f])
      BY <1>e
    <3>2. pc[u] \in {"n_tail", "n_read", "n_cas"} => pos[free[u]] \in Nat
      BY <2>0 DEF Pop
    <3> QED
      BY <1>d, <1>e, <2>0, <3>1, <3>2 DEF Pop, Stayed
  <2> QED
    BY <1>9, <2>1, <2>2, <2>3, <2>4, <2>5, <2>6 DEF Mine
<1>11. Mine(t)'
  <2>0. Role(t) /\ Caller(t) /\ Touch(t) /\ Stage(t)
    BY <1>a DEF Mine
  <2>1. Role(t)'
    BY <1>c, <1>f, <1>i, <2>0 DEF Role, Seeks, Gets, Adds
  <2>2. Caller(t)'
    BY <1>c, <1>i, <2>0 DEF Caller
  <2>3. Stage(t)'
    BY <1>c, <1>d, <1>i, <2>0 DEF Stage
  <2>4. Touch(t)'
    <3>1. Used(b)'
      BY <1>d, <1>f, <1>g DEF Used
    <3> QED
      BY <1>3, <1>c, <1>d, <1>f, <1>h, <2>0, <3>1 DEF Touch
  <2>5. Pend(t)' /\ Pop(t)'
    BY <1>c DEF Pend, Pop
  <2>6. Reclaim(t)'
    <3>1. \A u \in Threads : Frees(u)' => u = t
      BY <1>3, OthersControl
    <3> QED
      BY <1>c, <1>d, <1>f, <1>g, <1>i, <3>1 DEF Reclaim
  <2> QED
    BY <1>9, <2>1, <2>2, <2>3, <2>4, <2>5, <2>6 DEF Mine
<1>12. Owners' /\ Allocated' /\ Accounted'
  <2>1. alive
    BY <1>a, <1>c DEF Allocated
  <2>2. Plain(t)
    BY <1>a, <1>c, <1>d, <1>i DEF Plain, SameHeap, Owns, Ready, IsBetween
  <2> QED
    BY <2>1, <2>2, PlainStep
<1> QED
  BY <1>1, <1>5, <1>7, <1>8, <1>10, <1>11, <1>12 DEF IInv, Mine

-------------------------------------------------------------------------------
(* What a thread may look at has not got to the free list.                 *)
LEMMA Reached ==
    ASSUME TypeOK, Places, Links, NEW t \in Threads,
           Role(t), Walk(t), Touch(t), Pend(t)
    PROVE  /\ Looking(t) => cur[t] \in Nodes /\ pos[cur[t]] > pos[freeTail]
           /\ pc[t] = "g_cas" /\ SequenceMatches(t) =>
                 cur[t] \in Nodes /\ pos[cur[t]] > pos[freeTail]
<1> USE Consts, TypesGive
<1>1. FirstInUse = pos[freeTail] + Latency + 2 /\ FirstInUse <= pos[tail] /\ pos[tail] <= End
  BY ChainFacts
<1>2. ASSUME Looking(t)
      PROVE  cur[t] \in Nodes /\ pos[cur[t]] > pos[freeTail]
  <2>1. cur[t] \in Nodes /\ (seq[t] # 0 \/ own[t] # NULL)
    BY <1>2, Controls
  <2>2. CASE seq[t] # 0
    <3>1. PICK n \in Nodes : Used(n) /\ pos[n] <= Reach(t)
      BY <2>2 DEF Walk
    <3>2. pos[n] >= pos[freeTail] + Latency + 2 /\ pos[n] <= pos[cur[t]] - lat[t] + Latency + 1
      BY <1>1, <3>1 DEF Used, Reach, Base
    <3> QED
      BY <2>1, <3>2
  <2>3. CASE own[t] # NULL
    <3>1. own[t] \in Nodes /\ pos[own[t]] >= FirstInUse /\ pos[own[t]] <= pos[cur[t]]
      BY <2>3, Types DEF Touch, Used
    <3> QED
      BY <1>1, <2>1, <3>1
  <2> QED
    BY <2>1, <2>2, <2>3
<1>3. ASSUME pc[t] = "g_cas", SequenceMatches(t)
      PROVE  cur[t] \in Nodes /\ pos[cur[t]] > pos[freeTail]
  <2>1. cur[t] \in Nodes
    BY <1>3, Controls
  <2>2. End <= pos[cur[t]] + Latency + 1 /\ End \in Nat
    BY <1>3, ChainFacts DEF Pend
  <2> QED
    BY <1>1, <2>1, <2>2
<1> QED
  BY <1>2, <1>3

(* Taking the first of the free nodes, which nobody looks at.              *)
LEMMA NewCasPop ==
    ASSUME TypeOK, TypeOK', IInv, NEW t \in Threads, Others(t), NewCas(t) /\ freeHead = free[t]
    PROVE  IInv'
<1> USE Consts, TypesGive, Types
<1>a. /\ Places /\ Links /\ Sequences /\ Counts /\ Swinging /\ Allocated /\ Owners /\ Accounted
      /\ ClientType /\ LocalType /\ NodeType /\ pos \in [Nodes -> Nat]
      /\ \A u \in Threads : Mine(u)
  BY DEF IInv, Mine, TypeOK, HistoryType
<1>b. PICK h \in Nodes : /\ h = free[t] /\ h = freeHead /\ pc[t] = "n_cas"
                         /\ pos[h] < pos[freeTail] /\ pos[h] > 0
                         /\ nxt[t] = next[h] /\ next[h] \in Nodes
                         /\ pos[next[h]] = pos[h] + 1
  BY <1>a, ThreadFacts DEF Mine, NewCas, Places
<1>c. /\ pc'[t] = "n_init" /\ drop'[t] = drop[t]
      /\ old'[t] = old[t] /\ seq'[t] = seq[t]
      /\ ret'[t] = ret[t] /\ ref'[t] = ref[t] /\ use'[t] = use[t]
      /\ cur'[t] = cur[t] /\ lat'[t] = lat[t] /\ own'[t] = own[t]
      /\ node'[t] = h /\ arg'[t] = arg[t]
  BY <1>a, <1>b DEF NewCas, Goto, clientVars, getVars, ClientType, LocalType
<1>d. /\ count' = count /\ prevSeq' = prevSeq /\ nodeSeq' = nodeSeq /\ sequence' = sequence
      /\ numNodes' = numNodes /\ heap' = heap /\ alive' = alive
      /\ freeHead' = next[h] /\ tail' = tail /\ freeTail' = freeTail
      /\ next' = next /\ data' = data /\ failed' = failed
  BY <1>b DEF NewCas, nodeVars, heapVars
<1>e. /\ pos'[h] = 0
      /\ \A n \in Nodes \ {h} : pos'[n] = pos[n]
  BY <1>a, <1>b DEF NewCas
<1>f. /\ FirstInUse \in Nat /\ FirstInUse > pos[freeTail] /\ FirstInUse <= pos[tail]
      /\ FirstInUse > 0
      /\ End \in Nat /\ pos[tail] <= End /\ Newest \in Nodes /\ pos[Newest] = End
  BY <1>a, ChainFacts
<1>g. /\ freeTail # h /\ tail # h /\ Newest # h /\ ~Used(h) /\ pos[h] < End
      /\ \A n \in Nodes : Used(n) => n # h
  BY <1>b, <1>f DEF Used
<1>h. /\ Newest' = Newest /\ End' = End /\ FirstInUse' = FirstInUse
      /\ \A n \in Nodes : Used(n)' <=> Used(n)
      /\ \A n \in Nodes : Real(n)' => Real(n) /\ n # h
      /\ \A n \in Nodes : Real(n) /\ n # h => Real(n)'
  <2>1. Newest' = Newest /\ End' = End
    BY <1>d, <1>e, <1>g DEF Newest, End
  <2>2. FirstInUse' = FirstInUse
    BY <1>d, <1>e, <1>g DEF FirstInUse
  <2>3. \A n \in Nodes : Used(n)' <=> Used(n)
    BY <1>e, <1>f, <1>g, <2>2 DEF Used
  <2>4. ASSUME NEW n \in Nodes
        PROVE  /\ Real(n)' => Real(n) /\ n # h
               /\ Real(n) /\ n # h => Real(n)'
    <3>1. CASE n = h
      BY <1>e, <3>1 DEF Real
    <3>2. CASE n # h
      BY <1>e, <3>2 DEF Real
    <3> QED
      BY <3>1, <3>2
  <2> QED
    BY <2>1, <2>2, <2>3, <2>4
<1>1. Places'
  <2>1. \A m, n \in Nodes : pos'[m] > 0 /\ pos'[m] = pos'[n] => m = n
    BY <1>a, <1>e DEF Places
  <2>2. 0 < pos'[next[h]] /\ pos'[next[h]] <= pos'[freeTail]
    <3>1. next[h] # h
      BY <1>b
    <3> QED
      BY <1>b, <1>e, <1>g, <3>1
  <2>3. FirstInUse' <= pos'[tail]
    BY <1>e, <1>f, <1>g, <1>h
  <2>4. ASSUME NEW n \in Nodes, pos'[n] > 0
        PROVE  pos'[next[h]] <= pos'[n] /\ pos'[n] <= End'
    <3>1. n # h /\ pos'[n] = pos[n]
      BY <1>e, <2>4
    <3>2. pos[h] <= pos[n] /\ pos[n] <= End
      BY <1>a, <1>b, <2>4, <3>1 DEF Places
    <3>3. pos[h] # pos[n]
      BY <1>a, <1>b, <3>1 DEF Places
    <3>4. next[h] # h
      BY <1>b
    <3> QED
      BY <1>b, <1>e, <1>h, <3>1, <3>2, <3>3, <3>4
  <2>5. ASSUME NEW p \in pos'[next[h]]..End'
        PROVE  \E n \in Nodes : pos'[n] = p
    <3>1. next[h] # h
      BY <1>b
    <3>2. p \in pos[h]..End /\ p # pos[h]
      BY <1>b, <1>e, <1>f, <1>h, <3>1
    <3>3. PICK n \in Nodes : pos[n] = p
      BY <1>a, <1>b, <3>2 DEF Places
    <3> QED
      BY <1>e, <3>2, <3>3
  <2> QED
    BY <1>d, <2>1, <2>2, <2>3, <2>4, <2>5 DEF Places
<1>2. Links'
  <2> SUFFICES ASSUME NEW n \in Nodes, pos'[n] > 0
               PROVE  \/ pos'[n] = End' /\ next'[n] = NULL
                      \/ pos'[n] < End' /\ next'[n] \in Nodes /\ pos'[next'[n]] = pos'[n] + 1
    BY DEF Links
  <2>1. n # h /\ pos'[n] = pos[n]
    BY <1>e
  <2>2. pos[h] <= pos[n]
    BY <1>a, <1>b, <2>1 DEF Places
  <2>3. CASE pos[n] = End /\ next[n] = NULL
    BY <1>d, <1>h, <2>1, <2>3
  <2>4. CASE pos[n] < End /\ next[n] \in Nodes /\ pos[next[n]] = pos[n] + 1
    <3>1. next[n] # h
      BY <2>2, <2>4
    <3>2. pos'[next[n]] = pos[next[n]]
      BY <1>e, <2>4, <3>1
    <3> QED
      BY <1>d, <1>h, <2>1, <2>4, <3>2
  <2> QED
    BY <1>a, <2>1, <2>3, <2>4 DEF Links
<1>3. /\ \A n \in Nodes : Upper(n)' = Upper(n) /\ From(n)' = From(n)
      /\ \A n \in Nodes : Missing(n)' = Missing(n)
      /\ \A u \in Threads : \A n \in Nodes : Has(u, n)' <=> Has(u, n)
      /\ \A n \in Nodes : (Passed(n)' <=> Passed(n)) /\ (Settled(n)' <=> Settled(n))
  <2>1. \A n \in Nodes : Upper(n)' = Upper(n)
    BY <1>d DEF Upper
  <2>2. \A n \in Nodes : From(n)' = From(n)
    BY <1>d, <2>1 DEF From
  <2>3. \A u \in Threads : seq'[u] = seq[u]
    BY <1>c DEF Others
  <2>4. \A n \in Nodes : (Passed(n)' <=> Passed(n)) /\ (Settled(n)' <=> Settled(n))
    BY <1>d DEF Passed, Settled
  <2> QED
    BY <1>d, <2>1, <2>2, <2>3, <2>4 DEF Has, Missing
<1>4. \A n \in Nodes : Used(n) => Shares(n)' = Shares(n)
  <2> SUFFICES ASSUME NEW n \in Nodes, Used(n) PROVE Shares(n)' = Shares(n)
    OBVIOUS
  <2>1. /\ Shares(n) \in Nat
        /\ Shares(n)' = Shares(n) + Share(t, n)' - Share(t, n) + Place(n)' - Place(n)
    BY <1>3, SharesStep
  <2>2. Share(t, n)' = Share(t, n)
    BY <1>3, <1>b, <1>c, ShareIs
  <2>3. Place(n)' = Place(n)
    BY <1>d, <1>e, <1>g, <1>h DEF Place, TailShare, LinkShare
  <2>4. Place(n) \in Nat /\ Share(t, n) \in Nat
    BY PlaceIs, SharesOf
  <2> QED
    BY <2>1, <2>2, <2>3, <2>4
<1>5. Counts'
  <2>1. \A u \in Threads : Reclaiming(u) => Reclaiming(u)' /\ drop'[u] = drop[u]
    BY <1>b, <1>c, OthersControl DEF Others, Reclaiming
  <2> QED
    BY <1>a, <1>d, <1>h, <1>3, <1>4, <2>1 DEF Counts
<1>6. Sequences'
  <2>1. ASSUME NEW n \in Nodes, Real(n)'
        PROVE  /\ pos'[n] < pos'[tail'] => Settled(n)'
               /\ pos'[n] <= pos'[tail'] => prevSeq'[n] # 0
               /\ From(n)' <= Upper(n)' /\ Upper(n)' <= sequence'
    <3>1. Real(n) /\ pos'[n] = pos[n] /\ pos'[tail'] = pos[tail]
      BY <1>d, <1>e, <1>g, <1>h, <2>1
    <3> QED
      BY <1>a, <1>d, <1>3, <3>1 DEF Sequences
  <2>2. ~Odd(count'[tail']) => next'[tail'] # NULL /\ Passed(tail)'
    <3>1. Passed(tail)' <=> Passed(tail)
      BY <1>d DEF Passed
    <3> QED
      BY <1>a, <1>d, <3>1 DEF Sequences
  <2>3. /\ next'[tail'] # NULL => prevSeq'[next'[tail']] \in {0, nodeSeq'[tail']}
        /\ nodeSeq'[Newest'] = 0 /\ Odd(count'[Newest'])
    BY <1>a, <1>d, <1>h DEF Sequences
  <2>4. ASSUME NEW m \in Nodes, NEW n \in Nodes, Real(m)', pos'[m] < pos'[n]
        PROVE  Upper(m)' <= From(n)'
    <3>1. Real(m) /\ m # h /\ pos'[m] = pos[m] /\ pos[m] \in Nat
      BY <1>e, <1>h, <2>4
    <3>2. n # h
      BY <1>e, <2>4, <3>1
    <3> QED
      BY <1>a, <1>e, <1>3, <2>4, <3>1, <3>2 DEF Sequences
  <2> QED
    BY <1>d, <2>1, <2>2, <2>3, <2>4 DEF Sequences
<1>i. /\ ~Setting(t) /\ ~Setting(t)' /\ ~Dropping(t) /\ ~Dropping(t)' /\ ~Frees(t) /\ ~Frees(t)'
      /\ ~Reclaiming(t) /\ ~Reclaiming(t)'
      /\ At(t) = "n_cas" /\ At(t)' = "n_init"
      /\ \A u \in Threads : cur'[u] = cur[u] /\ seq'[u] = seq[u] /\ lat'[u] = lat[u]
      /\ \A u \in Threads : Looking(u)' <=> Looking(u)
      /\ \A u \in Threads : Frees(u)' <=> Frees(u)
  <2>1. /\ ~Setting(t) /\ ~Setting(t)' /\ ~Dropping(t) /\ ~Dropping(t)' /\ ~Frees(t) /\ ~Frees(t)'
        /\ ~Reclaiming(t) /\ ~Reclaiming(t)'
        /\ At(t) = "n_cas" /\ At(t)' = "n_init"
        /\ Looking(t)' <=> Looking(t)
    BY <1>b, <1>c, <1>d DEF Setting, Dropping, At, Frees, Reclaiming, Looking
  <2>2. \A u \in Threads : cur'[u] = cur[u] /\ lat'[u] = lat[u] /\ seq'[u] = seq[u]
    BY <1>c DEF Others
  <2> QED
    BY <2>1, <2>2, OthersControl
<1>j. \A u \in Threads :
        /\ Looking(u) => cur[u] \in Nodes /\ cur[u] # h /\ pos'[cur[u]] = pos[cur[u]]
        /\ pc[u] = "g_cas" /\ SequenceMatches(u) =>
              cur[u] \in Nodes /\ cur[u] # h /\ pos'[cur[u]] = pos[cur[u]]
  <2> SUFFICES ASSUME NEW u \in Threads
               PROVE  /\ Looking(u) => cur[u] \in Nodes /\ cur[u] # h /\ pos'[cur[u]] = pos[cur[u]]
                      /\ pc[u] = "g_cas" /\ SequenceMatches(u) =>
                            cur[u] \in Nodes /\ cur[u] # h /\ pos'[cur[u]] = pos[cur[u]]
    OBVIOUS
  <2>1. /\ Looking(u) => cur[u] \in Nodes /\ pos[cur[u]] > pos[freeTail]
        /\ pc[u] = "g_cas" /\ SequenceMatches(u) =>
              cur[u] \in Nodes /\ pos[cur[u]] > pos[freeTail]
    BY <1>a, Reached DEF Mine
  <2> QED
    BY <1>b, <1>e, <2>1
<1>k. \A u \in Threads : Looking(u) => Base(u)' = Base(u) /\ Reach(u)' = Reach(u)
  BY <1>i, <1>j DEF Base, Reach
<1>7. Swinging'
  <2>1. \A u \in Threads : Setting(u) => Setting(u)'
    BY <1>i, OthersControl
  <2> QED
    BY <1>a, <1>d, <1>i, <2>1 DEF Swinging
<1>8. \A u \in Threads : Walk(u)'
  <2> SUFFICES ASSUME NEW u \in Threads PROVE Walk(u)'
    OBVIOUS
  <2>0. Walk(u) /\ (seq[u] # 0 => Looking(u))
    BY <1>a, Controls DEF Mine
  <2>1. Looking(u)' => Real(cur[u])' /\ pos'[cur'[u]] <= pos'[tail']
    <3>1. Looking(u) => cur[u] \in Nodes /\ Real(cur[u]) /\ pos[cur[u]] <= pos[tail]
      BY <1>j, <2>0 DEF Walk
    <3>2. cur'[u] = cur[u] /\ pos'[tail'] = pos[tail]
      BY <1>d, <1>e, <1>g, <1>i
    <3>3. Looking(u) => Real(cur[u])'
      BY <1>h, <1>j, <3>1, <3>2
    <3> QED
      BY <1>i, <1>j, <3>1, <3>2, <3>3
  <2>2. seq'[u] # 0 => seq'[u] <= sequence'
    BY <1>d, <1>i, <2>0 DEF Walk
  <2>3. ASSUME NEW n \in Nodes, Looking(u), Used(n), Has(u, n), pos[cur[u]] <= pos[n], pos[n] <= Reach(u)
        PROVE  Used(n)' /\ Has(u, n)' /\ pos'[cur'[u]] <= pos'[n] /\ pos'[n] <= Reach(u)'
    <3>1. n # h
      BY <1>g, <2>3
    <3> QED
      BY <1>3, <1>e, <1>h, <1>i, <1>j, <1>k, <2>3, <3>1
  <2> QED
    BY <1>i, <2>0, <2>1, <2>2, <2>3 DEF Walk
<1>9. \A u \in Threads : Touch(u)'
  <2> SUFFICES ASSUME NEW u \in Threads PROVE Touch(u)'
    OBVIOUS
  <2>0. /\ Touch(u) /\ (own[u] # NULL => Looking(u))
        /\ ref'[u] = ref[u] /\ own'[u] = own[u] /\ drop'[u] = drop[u]
    BY <1>a, <1>c, Controls DEF Mine, Others
  <2>1. own[u] # NULL => pos'[own[u]] = pos[own[u]] /\ pos'[cur[u]] = pos[cur[u]]
    BY <1>e, <1>g, <1>j, <2>0 DEF Touch
  <2> QED
    BY <1>h, <1>i, <2>0, <2>1 DEF Touch
<1>10. ASSUME NEW u \in Threads \ {t}
       PROVE  Mine(u)'
  <2>0. /\ Role(u) /\ Caller(u) /\ Stage(u) /\ Pend(u) /\ Touch(u) /\ Pop(u) /\ Reclaim(u)
        /\ pc'[u] = pc[u] /\ cur'[u] = cur[u] /\ old'[u] = old[u] /\ ref'[u] = ref[u]
        /\ own'[u] = own[u] /\ drop'[u] = drop[u] /\ nxt'[u] = nxt[u] /\ free'[u] = free[u]
    BY <1>a DEF Mine, Others
  <2>1. /\ Role(u)' /\ Caller(u)'
        /\ Setting(u)' <=> Setting(u)
        /\ Dropping(u)' <=> Dropping(u)
        /\ Frees(u)' <=> Frees(u)
        /\ Reclaiming(u)' <=> Reclaiming(u)
    BY <2>0, OthersControl
  <2>2. Stage(u)'
    <3>1. /\ Setting(u) => Looking(u)
          /\ pc[u] \in {"g_cmp", "a_more", "a_end"} => Looking(u)
          /\ Dropping(u) /\ cur[u] # NULL => Looking(u)
      BY <2>0, Controls DEF Looking, Seeks, Adds, Dropping
    <3>2. /\ pc[u] \in {"g_cmp", "a_more", "a_end"} => pos'[cur[u]] < pos'[tail']
          /\ Dropping(u) /\ cur[u] # NULL => pos'[cur[u]] < pos'[tail']
          /\ pc[u] \in {"s_prev", "s_count", "s_tail"} => nodeSeq'[cur[u]] # 0
          /\ Setting(u) => next'[cur[u]] # NULL
      BY <1>d, <1>e, <1>g, <1>j, <2>0, <3>1 DEF Stage
    <3>3. /\ pc[u] \in {"s_count", "s_tail"} => Passed(cur[u])'
          /\ pc[u] = "s_tail" => Settled(cur[u])'
      <4>0. pc[u] \in {"s_count", "s_tail"} => cur[u] \in Nodes
        BY <1>j, <3>1 DEF Setting
      <4>1. pc[u] \in {"s_count", "s_tail"} => (Passed(cur[u]) => Passed(cur[u])')
        BY <1>3, <2>0, <4>0
      <4>2. pc[u] = "s_tail" => (Settled(cur[u]) => Settled(cur[u])')
        BY <1>3, <2>0, <4>0
      <4> QED
        BY <2>0, <4>1, <4>2 DEF Stage
    <3>4. ASSUME pc[u] = "s_set", Unset(u)'
          PROVE  /\ prevSeq'[tail'] <= old'[u] /\ old'[u] <= sequence'
                 /\ REFERENCE * Cardinality(Above(old[u])') = sequence' - old'[u]
                 /\ \A v \in Above(old[u])' : End' <= Reach(v)'
      <4>1. Unset(u)
        BY <1>d, <2>0, <3>4 DEF Unset
      <4>2. /\ prevSeq[tail] <= old[u] /\ old[u] <= sequence
            /\ REFERENCE * Cardinality(Above(old[u])) = sequence - old[u]
            /\ \A v \in Above(old[u]) : End <= Reach(v)
        BY <2>0, <3>4, <4>1 DEF Stage
      <4>3. Above(old[u])' = Above(old[u])
        BY <2>0, <1>i DEF Above
      <4>4. \A v \in Above(old[u]) : Reach(v)' = Reach(v)
        <5> SUFFICES ASSUME NEW v \in Threads, seq[v] > old[u] PROVE Reach(v)' = Reach(v)
          BY DEF Above
        <5>1. seq[v] # 0 /\ Role(v)
          BY <1>a DEF Mine
        <5> QED
          BY <1>k, <5>1, Controls
      <4> QED
        BY <1>d, <1>h, <2>0, <4>2, <4>3, <4>4
    <3> QED
      BY <2>0, <2>1, <3>2, <3>3, <3>4 DEF Stage
  <2>3. Pend(u)'
    <3>1. SequenceMatches(u)' <=> SequenceMatches(u)
      BY <1>d, <2>0 DEF SequenceMatches
    <3>2. ASSUME pc[u] = "g_cas", SequenceMatches(u)
          PROVE  /\ Real(cur[u])' /\ pos'[cur[u]] <= pos'[tail']
                 /\ End' <= pos'[cur[u]] + Latency + 1
                 /\ \A v \in Threads : Looking(v)' => Base(v)' <= pos'[cur[u]]
      <4>1. cur[u] \in Nodes /\ cur[u] # h /\ pos'[cur[u]] = pos[cur[u]] /\ pos'[tail'] = pos[tail]
        BY <1>d, <1>e, <1>g, <1>j, <3>2
      <4>2. Real(cur[u])'
        BY <1>h, <2>0, <3>2, <4>1 DEF Pend
      <4> QED
        BY <1>h, <1>i, <1>k, <2>0, <3>2, <4>1, <4>2 DEF Pend
    <3> QED
      BY <1>d, <2>0, <3>1, <3>2 DEF Pend
  <2>5. Reclaim(u)'
    <3>1. Frees(u) => drop[u] \in Nodes \ {h}
      <4>1. Frees(u) => Dropping(u)
        BY DEF Frees, Reclaiming, Dropping
      <4> QED
        BY <1>g, <2>0, <4>1, Controls DEF Touch
    <3>2. Frees(u) => pos'[drop[u]] = pos[drop[u]]
      BY <1>e, <3>1
    <3> QED
      BY <1>d, <1>e, <1>g, <1>h, <1>i, <2>0, <2>1, <3>2 DEF Reclaim
  <2>6. Pop(u)'
    <3> SUFFICES ASSUME pc[u] \in {"n_tail", "n_read", "n_cas"} PROVE Pop(u)'
      BY <2>0 DEF Pop
    <3>1. free[u] \in Nodes /\ own[u] \in Nodes
      BY <2>0, Controls DEF Pop, Gets
    <3>2. pos'[own[u]] = pos[own[u]] /\ pos'[freeTail] = pos[freeTail]
      BY <1>e, <1>g, <2>0, <3>1 DEF Touch
    <3>3. Stayed(u)' => Stayed(u) /\ pos'[free[u]] = pos[free[u]]
      BY <1>e, <2>0, <3>1, <3>2 DEF Stayed
    <3> QED
      BY <1>d, <2>0, <3>1, <3>2, <3>3 DEF Pop
  <2> QED
    BY <1>8, <1>9, <2>1, <2>2, <2>3, <2>5, <2>6 DEF Mine
<1>11. Mine(t)' /\ node[t] = NULL
  <2>0. Role(t) /\ Caller(t)
    BY <1>a DEF Mine
  <2>1. Role(t)'
    BY <1>b, <1>c, <1>i, <2>0 DEF Role, Seeks, Gets, Adds
  <2>2. Caller(t)' /\ node[t] = NULL
    BY <1>b, <1>c, <1>i, <2>0 DEF Caller, Adds, Seeks
  <2>3. Stage(t)' /\ Pend(t)' /\ Pop(t)' /\ Reclaim(t)'
    BY <1>c, <1>i DEF Stage, Pend, Pop, Reclaim
  <2> QED
    BY <1>8, <1>9, <2>1, <2>2, <2>3 DEF Mine
<1>12. alive /\ h \in heap
  BY <1>a, <1>b DEF Allocated
<1>l. /\ ~Owns(t) /\ Owns(t)' /\ ~Ready(t)'
      /\ \A u \in Threads \ {t} : (Owns(u)' <=> Owns(u)) /\ (Ready(u)' <=> Ready(u)) /\ node'[u] = node[u]
      /\ \A u \in Threads : Owns(u) => node[u] \in Nodes /\ node[u] # h /\ pos'[node[u]] = 0
  <2>1. ~Owns(t) /\ Owns(t)' /\ ~Ready(t)'
    BY <1>c, <1>i, <1>11 DEF Owns, Ready
  <2>2. \A u \in Threads \ {t} : (Owns(u)' <=> Owns(u)) /\ (Ready(u)' <=> Ready(u)) /\ node'[u] = node[u]
    BY OthersControl DEF Others
  <2>3. \A u \in Threads : Owns(u) => node[u] \in Nodes /\ pos[node[u]] = 0
    BY <1>a DEF Owners, Owner, Owns
  <2>4. \A u \in Threads : Owns(u) => node[u] # h /\ pos'[node[u]] = 0
    BY <1>b, <1>e, <2>3
  <2> QED
    BY <2>1, <2>2, <2>3, <2>4
<1>13. Owners'
  <2>1. Owner(t)'
    BY <1>12, <1>c, <1>d, <1>e, <1>l DEF Owner
  <2>2. ASSUME NEW u \in Threads \ {t} PROVE Owner(u)'
    <3>1. Owner(u) /\ node'[u] = node[u] /\ arg'[u] = arg[u]
      BY <1>a DEF Owners, Others
    <3> QED
      BY <1>d, <1>l, <3>1 DEF Owner
  <2>3. \A u, v \in Threads : Owns(u)' /\ Owns(v)' /\ node'[u] = node'[v] => u = v
    BY <1>a, <1>c, <1>l DEF Owners
  <2> QED
    BY <2>1, <2>2, <2>3 DEF Owners
<1>14. Allocated'
  BY <1>a, <1>12, <1>d, <1>e DEF Allocated
<1>15. Accounted'
  <2>1. NodeAccounting'
    <3>1. \A u \in Threads : pc'[u] \in {"n_alloc", "t_dec"} <=> pc[u] \in {"n_alloc", "t_dec"}
      BY <1>b, <1>c DEF Others
    <3>2. {u \in Threads : pc'[u] \in {"n_alloc", "t_dec"}} = {u \in Threads : pc[u] \in {"n_alloc", "t_dec"}}
      BY <3>1
    <3> QED
      BY <1>a, <1>d, <3>2 DEF Accounted, NodeAccounting
  <2>2. ASSUME NEW n \in heap
        PROVE  pos'[n] > 0 \/ \E u \in Threads : Owns(u)' /\ node'[u] = n
    <3>0. n \in Nodes
      BY DEF TypeOK, HeapType
    <3>1. CASE n = h
      BY <1>c, <1>l, <3>1
    <3>2. CASE n # h
      <4>1. CASE pos[n] > 0
        BY <1>e, <3>0, <3>2, <4>1
      <4>2. CASE \E u \in Threads : Owns(u) /\ node[u] = n
        BY <1>l, <4>2
      <4> QED
        BY <1>12, <1>a, <4>1, <4>2 DEF Accounted
    <3> QED
      BY <3>1, <3>2
  <2> QED
    BY <1>d, <2>1, <2>2 DEF Accounted
<1> QED
  BY <1>1, <1>2, <1>5, <1>6, <1>7, <1>10, <1>11, <1>13, <1>14, <1>15 DEF IInv, Mine

-------------------------------------------------------------------------------
(* Linking a node: the new last node has the share of the link and that of *)
(* the tail, and as yet no numbers.                                        *)
LEMMA AddTryLink ==
    ASSUME TypeOK, TypeOK', IInv, NEW t \in Threads, Others(t),
           AddTry(t) /\ Near(lat[t]) /\ next[cur[t]] = NULL
    PROVE  IInv'
<1> USE Consts, TypesGive, Types
<1>a. /\ Places /\ Links /\ Sequences /\ Counts /\ Swinging /\ Allocated /\ Owners /\ Accounted
      /\ ClientType /\ LocalType /\ NodeType /\ pos \in [Nodes -> Nat]
      /\ \A u \in Threads : Mine(u)
  BY DEF IInv, Mine, TypeOK, HistoryType
<1>b. PICK c \in Nodes : /\ c = tail /\ c = cur[t] /\ next[c] = NULL /\ c = Newest /\ End = pos[c]
                         /\ lat[t] <= Latency /\ pc[t] = "a_try" /\ Looking(t)
  <2>1. pc[t] = "a_try" /\ Role(t) /\ Walk(t) /\ lat[t] <= Latency /\ next[cur[t]] = NULL
    BY <1>a DEF Mine, AddTry, Near
  <2>2. cur[t] \in Nodes /\ Looking(t)
    BY <2>1, Controls DEF Adds, Role
  <2>3. Real(cur[t]) /\ pos[cur[t]] <= pos[tail]
    BY <2>1, <2>2 DEF Walk
  <2>4. pos[cur[t]] > 0
    BY <2>2, <2>3 DEF Real
  <2>5. cur[t] = Newest /\ pos[Newest] = End /\ pos[tail] <= End /\ Newest \in Nodes /\ next[Newest] = NULL
    BY <1>a, <2>1, <2>2, <2>4, ChainFacts
  <2>6. pos[Newest] = pos[tail]
    BY <2>2, <2>3, <2>5
  <2>7. cur[t] = tail
    BY <1>a, <2>2, <2>5, <2>6, ChainFacts
  <2> QED
    BY <2>1, <2>2, <2>5, <2>6, <2>7
<1>c. PICK b \in Nodes : /\ b = node[t] /\ pos[b] = 0 /\ next[b] = NULL /\ b \in heap
                         /\ nodeSeq[b] = 0 /\ prevSeq[b] = 0 /\ count[b] = InitialCount
                         /\ Owns(t) /\ use[t] # "trim"
  <2>1. At(t) = "a_try" /\ Role(t) /\ Caller(t) /\ Owner(t)
    BY <1>a, <1>b DEF Mine, Owners, At, Setting, Dropping
  <2>2. node[t] # NULL /\ use[t] # "trim"
    BY <2>1 DEF Caller, Adds
  <2>3. Owns(t) /\ Ready(t)
    BY <2>1, <2>2 DEF Owns, Ready
  <2> QED
    BY <2>1, <2>2, <2>3 DEF Owner
<1>d. /\ pc'[t] = "s_load" /\ ret'[t] = "a_end" /\ drop'[t] = drop[t]
      /\ old'[t] = old[t] /\ seq'[t] = seq[t]
      /\ ref'[t] = ref[t] /\ use'[t] = use[t]
      /\ cur'[t] = cur[t] /\ lat'[t] = lat[t] /\ own'[t] = own[t]
      /\ node'[t] = node[t] /\ arg'[t] = arg[t]
  BY <1>a, <1>b DEF AddTry, Near, Goto, clientVars, newVars, ClientType, LocalType
<1>e. /\ count' = count /\ prevSeq' = prevSeq /\ nodeSeq' = nodeSeq /\ sequence' = sequence
      /\ numNodes' = numNodes /\ heap' = heap /\ alive' = alive
      /\ freeHead' = freeHead /\ tail' = tail /\ freeTail' = freeTail
      /\ data' = data /\ failed' = failed
      /\ next' = [next EXCEPT ![c] = b] /\ pos' = [pos EXCEPT ![b] = pos[c] + 1]
  BY <1>b, <1>c DEF AddTry, Near, proxyVars, heapVars
<1>f. /\ pos'[b] = pos[c] + 1 /\ next'[c] = b
      /\ \A n \in Nodes \ {b} : pos'[n] = pos[n]
      /\ \A n \in Nodes \ {c} : next'[n] = next[n]
  BY <1>a, <1>e DEF NodeType
<1>g. /\ FirstInUse \in Nat /\ FirstInUse > 0 /\ FirstInUse <= pos[c] /\ FirstInUse > Latency + 2
      /\ pos[freeTail] > 0 /\ pos[freeTail] < pos[c]
      /\ \A n \in Nodes : pos[n] <= pos[c]
      /\ \A n \in Nodes : pos[n] = pos[c] => n = c
      /\ c # b /\ freeTail # b /\ freeTail # c /\ freeHead # b /\ ~Used(b) /\ Used(c) /\ ~Real(b)
  <2>1. /\ FirstInUse \in Nat /\ FirstInUse = pos[freeTail] + Latency + 2 /\ FirstInUse <= pos[c]
        /\ pos[freeTail] > 0
    BY <1>a, <1>b, ChainFacts
  <2>2. \A n \in Nodes : pos[n] <= pos[c]
    <3>1. \A n \in Nodes : pos[n] > 0 => pos[n] <= End
      BY <1>a, ChainFacts
    <3> QED
      BY <1>b, <2>1, <3>1
  <2>3. \A n \in Nodes : pos[n] = pos[c] => n = c
    BY <1>a, <1>b, ChainFacts
  <2>4. freeHead # b
    BY <1>a, <1>c DEF Places
  <2>5. Used(c) /\ ~Used(b) /\ ~Real(b)
    BY <1>c, <2>1 DEF Used, Real
  <2> QED
    BY <1>c, <2>1, <2>2, <2>3, <2>4, <2>5
<1>h. /\ Newest' = b /\ End' = pos[c] + 1 /\ FirstInUse' = FirstInUse
      /\ \A n \in Nodes : Used(n)' <=> Used(n) \/ n = b
      /\ \A n \in Nodes : Real(n)' <=> Real(n) \/ n = b
      /\ \A n \in Nodes : Used(n) => n # b
      /\ \A n \in Nodes : Real(n) => n # b
  <2>1. Newest' = b /\ End' = pos[c] + 1
    <3>1. tail' = c /\ next'[c] = b /\ b # NULL /\ pos'[c] = pos[c]
      BY <1>b, <1>e, <1>f, <1>g
    <3> QED
      BY <3>1 DEF Newest, End
  <2>2. FirstInUse' = FirstInUse
    BY <1>e, <1>f, <1>g DEF FirstInUse
  <2>3. Used(b)' /\ Real(b)'
    BY <1>f, <1>g, <2>2 DEF Used, Real
  <2>4. \A n \in Nodes \ {b} : (Used(n)' <=> Used(n)) /\ (Real(n)' <=> Real(n))
    BY <1>f, <2>2 DEF Used, Real
  <2> QED
    BY <1>g, <2>1, <2>2, <2>3, <2>4
<1>1. Places'
  <2>1. ASSUME NEW m \in Nodes, NEW n \in Nodes, pos'[m] > 0, pos'[m] = pos'[n]
        PROVE  m = n
    <3>1. CASE m # b /\ n # b
      BY <1>a, <1>f, <2>1, <3>1 DEF Places
    <3>2. CASE m = b \/ n = b
      <4>1. \A k \in Nodes \ {b} : pos'[k] # pos[c] + 1
        BY <1>f, <1>g
      <4> QED
        BY <1>f, <2>1, <3>2, <4>1
    <3> QED
      BY <3>1, <3>2
  <2>2. pos'[freeHead] = pos[freeHead] /\ pos'[freeTail] = pos[freeTail] /\ pos'[tail] = pos[tail]
    BY <1>b, <1>f, <1>g
  <2>3. ASSUME NEW n \in Nodes, pos'[n] > 0
        PROVE  pos'[freeHead] <= pos'[n] /\ pos'[n] <= End'
    <3>1. CASE n = b
      <4>1. pos[freeHead] <= pos[c]
        BY <1>g
      <4> QED
        BY <1>f, <1>h, <2>2, <3>1, <4>1
    <3>2. CASE n # b
      <4>1. pos'[n] = pos[n] /\ pos[freeHead] <= pos[n] /\ pos[n] <= pos[c]
        BY <1>a, <1>f, <1>g, <2>3, <3>2 DEF Places
      <4> QED
        BY <1>h, <2>2, <4>1
    <3> QED
      BY <3>1, <3>2
  <2>4. ASSUME NEW p \in pos'[freeHead]..End'
        PROVE  \E n \in Nodes : pos'[n] = p
    <3>1. CASE p = pos[c] + 1
      BY <1>f, <3>1
    <3>2. CASE p # pos[c] + 1
      <4>1. p \in pos[freeHead]..End /\ p > 0
        <5>1. 0 < pos[freeHead] /\ pos[freeHead] \in Nat /\ End = pos[c] /\ End' = pos[c] + 1
          BY <1>a, <1>b, <1>h DEF Places
        <5> QED
          BY <2>2, <3>2, <5>1
      <4>2. PICK n \in Nodes : pos[n] = p
        BY <1>a, <4>1 DEF Places
      <4> QED
        BY <1>c, <1>f, <4>1, <4>2
    <3> QED
      BY <3>1, <3>2
  <2> QED
    BY <1>a, <1>e, <1>h, <2>1, <2>2, <2>3, <2>4 DEF Places
<1>2. Links'
  <2> SUFFICES ASSUME NEW n \in Nodes, pos'[n] > 0
               PROVE  \/ pos'[n] = End' /\ next'[n] = NULL
                      \/ pos'[n] < End' /\ next'[n] \in Nodes /\ pos'[next'[n]] = pos'[n] + 1
    BY DEF Links
  <2>1. CASE n = b
    BY <1>c, <1>f, <1>g, <1>h, <2>1
  <2>2. CASE n = c
    BY <1>f, <1>g, <1>h, <2>2
  <2>3. CASE n # b /\ n # c
    <3>1. pos'[n] = pos[n] /\ next'[n] = next[n] /\ pos[n] < pos[c]
      BY <1>f, <1>g, <2>3
    <3>2. next[n] \in Nodes /\ pos[next[n]] = pos[n] + 1
      BY <1>a, <1>b, <2>3, <3>1 DEF Links
    <3>3. pos'[next[n]] = pos[next[n]]
      BY <1>c, <1>f, <3>1, <3>2
    <3> QED
      BY <1>h, <3>1, <3>2, <3>3
  <2> QED
    BY <2>1, <2>2, <2>3
<1>3. /\ \A n \in Nodes : Upper(n)' = Upper(n) /\ From(n)' = From(n)
      /\ \A n \in Nodes : Missing(n)' = Missing(n)
      /\ \A u \in Threads : \A n \in Nodes : Has(u, n)' <=> Has(u, n)
  <2>1. \A n \in Nodes : Upper(n)' = Upper(n)
    BY <1>e DEF Upper
  <2>2. \A n \in Nodes : From(n)' = From(n)
    BY <1>e, <2>1 DEF From
  <2>3. \A u \in Threads : seq'[u] = seq[u]
    BY <1>d DEF Others
  <2> QED
    BY <1>e, <2>1, <2>2, <2>3 DEF Has, Missing
<1>4. /\ nodeSeq[c] = 0 /\ Odd(count[c]) /\ Upper(c) = sequence
      /\ From(b) = sequence /\ Upper(b) = sequence /\ Odd(count[b])
      /\ \A u \in Threads : ~Has(u, b)
  <2>1. nodeSeq[c] = 0 /\ Odd(count[c])
    BY <1>a, <1>b DEF Sequences
  <2>2. Upper(c) = sequence
    BY <2>1 DEF Upper
  <2>3. From(b) = sequence /\ Upper(b) = sequence
    BY <1>b, <1>c, <2>2 DEF From, Upper
  <2>4. Odd(count[b])
    BY <1>c DEF Odd, InitialCount, GUARD_BIT, REFERENCE
  <2> QED
    BY <2>1, <2>2, <2>3, <2>4 DEF Has
<1>5. \A n \in Nodes : n # c => (Passed(n)' <=> Passed(n)) /\ (Settled(n)' <=> Settled(n))
  BY <1>e, <1>f DEF Passed, Settled
<1>6. \A n \in Nodes : Used(n) => Shares(n)' = Shares(n)
  <2> SUFFICES ASSUME NEW n \in Nodes, Used(n) PROVE Shares(n)' = Shares(n)
    OBVIOUS
  <2>1. /\ Shares(n) \in Nat
        /\ Shares(n)' = Shares(n) + Share(t, n)' - Share(t, n) + Place(n)' - Place(n)
    BY <1>3, SharesStep
  <2>2. Share(t, n)' = Share(t, n)
    BY <1>3, <1>b, <1>d, ShareIs
  <2>3. Place(n)' = Place(n)
    BY <1>b, <1>e, <1>f, <1>g, <1>h DEF Place, TailShare, LinkShare
  <2>4. Place(n) \in Nat /\ Share(t, n) \in Nat
    BY PlaceIs, SharesOf
  <2> QED
    BY <2>1, <2>2, <2>3, <2>4
<1>7. Shares(b)' = 2
  <2>1. \A u \in Threads : ref[u] # b /\ own[u] # b /\ drop[u] # b
    BY <1>a, <1>g DEF Mine, Touch
  <2>2. \A u \in Threads : ref'[u] = ref[u] /\ own'[u] = own[u] /\ drop'[u] = drop[u]
    BY <1>d DEF Others
  <2>3. Refs(b)' = {} /\ Owned(b)' = {} /\ Numbers(b)' = {} /\ Drops(b)' = {}
    BY <1>3, <1>4, <2>1, <2>2 DEF Refs, Owned, Numbers, Drops
  <2>4. Cardinality({}) = 0
    BY FS_EmptySet
  <2>5. TailShare(b)' = 1 /\ LinkShare(b)' = 1
    <3>1. tail' = c /\ pos'[c] = pos[c] /\ pos'[b] = pos[c] + 1
      BY <1>b, <1>e, <1>f, <1>g
    <3>2. pos'[b] >= pos'[tail'] /\ pos'[b] > FirstInUse'
      BY <1>g, <1>h, <3>1
    <3> QED
      BY <3>2 DEF TailShare, LinkShare
  <2> QED
    BY <2>3, <2>4, <2>5 DEF Shares
<1>8. Counts'
  <2> SUFFICES ASSUME NEW n \in Nodes, Used(n)'
               PROVE  /\ count'[n] + Missing(n)' = REFERENCE * Shares(n)'
                      /\ Shares(n)' > 0 \/ \E u \in Threads : Reclaiming(u)' /\ drop'[u] = n
    BY DEF Counts
  <2>1. CASE n = b
    <3>1. Missing(b)' = -1
      <4>1. Missing(b) = sequence - sequence - 1
        BY <1>4 DEF Missing, GUARD_BIT
      <4> QED
        BY <1>3, <4>1
    <3>2. count'[b] = 5
      BY <1>c, <1>e DEF InitialCount, GUARD_BIT, REFERENCE
    <3> QED
      BY <1>7, <2>1, <3>1, <3>2 DEF REFERENCE
  <2>2. CASE n # b
    <3>1. Used(n) /\ count'[n] = count[n] /\ Missing(n)' = Missing(n) /\ Shares(n)' = Shares(n)
      BY <1>3, <1>6, <1>e, <1>h, <2>2
    <3>2. \A u \in Threads : Reclaiming(u) => Reclaiming(u)' /\ drop'[u] = drop[u]
      BY <1>b, <1>d, OthersControl DEF Others, Reclaiming
    <3> QED
      BY <1>a, <3>1, <3>2 DEF Counts
  <2> QED
    BY <2>1, <2>2
<1>9. Sequences'
  <2>0. pos'[tail'] = pos[c] /\ tail' = c
    BY <1>b, <1>e, <1>f, <1>g
  <2>1. ASSUME NEW n \in Nodes, Real(n)'
        PROVE  /\ pos'[n] < pos'[tail'] => Settled(n)'
               /\ pos'[n] <= pos'[tail'] => prevSeq'[n] # 0
               /\ From(n)' <= Upper(n)' /\ Upper(n)' <= sequence'
    <3>1. CASE n = b
      BY <1>3, <1>4, <1>e, <1>f, <2>0, <3>1
    <3>2. CASE n # b
      <4>1. Real(n) /\ pos'[n] = pos[n]
        BY <1>f, <1>h, <2>1, <3>2
      <4>2. pos[n] < pos[c] => n # c
        OBVIOUS
      <4> QED
        BY <1>a, <1>b, <1>e, <1>3, <1>5, <2>0, <4>1, <4>2 DEF Sequences
    <3> QED
      BY <3>1, <3>2
  <2>2. /\ Odd(count'[tail'])
        /\ nodeSeq'[Newest'] = 0 /\ Odd(count'[Newest'])
        /\ prevSeq'[next'[tail']] = 0
    BY <1>4, <1>c, <1>e, <1>f, <1>h, <2>0
  <2>3. ASSUME NEW m \in Nodes, NEW n \in Nodes, Real(m)', pos'[m] < pos'[n]
        PROVE  Upper(m)' <= From(n)'
    <3>1. m # b
      <4>1. \A k \in Nodes : pos'[k] <= pos[c] + 1
        BY <1>f, <1>g
      <4> QED
        BY <1>f, <1>g, <2>3, <4>1
    <3>2. Real(m) /\ pos'[m] = pos[m]
      BY <1>f, <1>h, <2>3, <3>1
    <3>3. CASE n = b
      <4>1. Upper(m) <= sequence
        BY <1>a, <3>2 DEF Sequences
      <4> QED
        BY <1>3, <1>4, <3>3, <4>1
    <3>4. CASE n # b
      BY <1>a, <1>3, <1>f, <2>3, <3>2, <3>4 DEF Sequences
    <3> QED
      BY <3>3, <3>4
  <2>4. next'[tail'] # NULL => prevSeq'[next'[tail']] \in {0, nodeSeq'[tail']}
    BY <2>2
  <2>5. ~Odd(count'[tail']) => next'[tail'] # NULL /\ Passed(tail)'
    BY <2>2
  <2> QED
    BY <2>1, <2>2, <2>3, <2>4, <2>5 DEF Sequences
<1>i. /\ ~Setting(t) /\ Setting(t)' /\ ~Dropping(t) /\ ~Dropping(t)' /\ ~Frees(t) /\ ~Frees(t)'
      /\ ~Reclaiming(t) /\ ~Reclaiming(t)'
      /\ At(t) = "a_try" /\ At(t)' = "a_end"
      /\ \A u \in Threads : cur'[u] = cur[u] /\ seq'[u] = seq[u] /\ lat'[u] = lat[u]
      /\ \A u \in Threads : Looking(u)' <=> Looking(u)
      /\ \A u \in Threads : Frees(u)' <=> Frees(u)
  <2>1. /\ ~Setting(t) /\ Setting(t)' /\ ~Dropping(t) /\ ~Dropping(t)' /\ ~Frees(t) /\ ~Frees(t)'
        /\ ~Reclaiming(t) /\ ~Reclaiming(t)'
        /\ At(t) = "a_try" /\ At(t)' = "a_end"
        /\ Looking(t)' <=> Looking(t)
    BY <1>b, <1>d DEF Setting, Dropping, At, Frees, Reclaiming, Looking
  <2>2. \A u \in Threads : cur'[u] = cur[u] /\ lat'[u] = lat[u] /\ seq'[u] = seq[u]
    BY <1>d DEF Others
  <2> QED
    BY <2>1, <2>2, OthersControl
<1>j. \A u \in Threads :
        /\ Looking(u) => cur[u] \in Nodes /\ cur[u] # b /\ pos'[cur[u]] = pos[cur[u]]
        /\ pc[u] = "g_cas" /\ SequenceMatches(u) =>
              cur[u] \in Nodes /\ cur[u] # b /\ pos'[cur[u]] = pos[cur[u]]
  <2> SUFFICES ASSUME NEW u \in Threads
               PROVE  /\ Looking(u) => cur[u] \in Nodes /\ cur[u] # b /\ pos'[cur[u]] = pos[cur[u]]
                      /\ pc[u] = "g_cas" /\ SequenceMatches(u) =>
                            cur[u] \in Nodes /\ cur[u] # b /\ pos'[cur[u]] = pos[cur[u]]
    OBVIOUS
  <2>1. /\ Looking(u) => cur[u] \in Nodes /\ pos[cur[u]] > pos[freeTail]
        /\ pc[u] = "g_cas" /\ SequenceMatches(u) =>
              cur[u] \in Nodes /\ pos[cur[u]] > pos[freeTail]
    BY <1>a, Reached DEF Mine
  <2> QED
    BY <1>c, <1>f, <2>1
<1>k. \A u \in Threads : Looking(u) => Base(u)' = Base(u) /\ Reach(u)' = Reach(u)
  BY <1>i, <1>j DEF Base, Reach
<1>10. Swinging'
  BY <1>b, <1>d, <1>e, <1>i DEF Swinging
<1>11. \A u \in Threads : Walk(u)'
  <2> SUFFICES ASSUME NEW u \in Threads PROVE Walk(u)'
    OBVIOUS
  <2>0. Walk(u) /\ (seq[u] # 0 => Looking(u))
    BY <1>a, Controls DEF Mine
  <2>1. Looking(u)' => Real(cur[u])' /\ pos'[cur'[u]] <= pos'[tail']
    <3>1. Looking(u) => cur[u] \in Nodes /\ Real(cur[u]) /\ pos[cur[u]] <= pos[tail]
      BY <1>j, <2>0 DEF Walk
    <3>2. cur'[u] = cur[u] /\ pos'[tail'] = pos[tail]
      BY <1>b, <1>e, <1>f, <1>g, <1>i
    <3>3. Looking(u) => Real(cur[u])'
      BY <1>h, <1>j, <3>1, <3>2
    <3> QED
      BY <1>i, <1>j, <3>1, <3>2, <3>3
  <2>2. seq'[u] # 0 => seq'[u] <= sequence'
    BY <1>e, <1>i, <2>0 DEF Walk
  <2>3. ASSUME NEW n \in Nodes, Looking(u), Used(n), Has(u, n), pos[cur[u]] <= pos[n], pos[n] <= Reach(u)
        PROVE  Used(n)' /\ Has(u, n)' /\ pos'[cur'[u]] <= pos'[n] /\ pos'[n] <= Reach(u)'
    <3>1. n # b
      BY <1>g, <2>3
    <3> QED
      BY <1>3, <1>f, <1>h, <1>i, <1>j, <1>k, <2>3, <3>1
  <2> QED
    BY <1>i, <2>0, <2>1, <2>2, <2>3 DEF Walk
<1>12. \A u \in Threads : Touch(u)'
  <2> SUFFICES ASSUME NEW u \in Threads PROVE Touch(u)'
    OBVIOUS
  <2>0. /\ Touch(u) /\ (own[u] # NULL => Looking(u))
        /\ ref'[u] = ref[u] /\ own'[u] = own[u] /\ drop'[u] = drop[u]
    BY <1>a, <1>d, Controls DEF Mine, Others
  <2>1. own[u] # NULL => pos'[own[u]] = pos[own[u]] /\ pos'[cur[u]] = pos[cur[u]]
    BY <1>f, <1>g, <1>j, <2>0 DEF Touch
  <2> QED
    BY <1>h, <1>i, <2>0, <2>1 DEF Touch
<1>13. ASSUME NEW u \in Threads \ {t}
       PROVE  Mine(u)'
  <2>0. /\ Role(u) /\ Caller(u) /\ Stage(u) /\ Pend(u) /\ Touch(u) /\ Pop(u) /\ Reclaim(u) /\ Walk(u)
        /\ pc'[u] = pc[u] /\ cur'[u] = cur[u] /\ old'[u] = old[u] /\ ref'[u] = ref[u]
        /\ own'[u] = own[u] /\ drop'[u] = drop[u] /\ nxt'[u] = nxt[u] /\ free'[u] = free[u]
    BY <1>a DEF Mine, Others
  <2>1. /\ Role(u)' /\ Caller(u)'
        /\ Setting(u)' <=> Setting(u)
        /\ Dropping(u)' <=> Dropping(u)
        /\ Frees(u)' <=> Frees(u)
        /\ Reclaiming(u)' <=> Reclaiming(u)
    BY <2>0, OthersControl
  <2>2. Stage(u)'
    <3>1. /\ Setting(u) => Looking(u)
          /\ pc[u] \in {"g_cmp", "a_more", "a_end"} => Looking(u)
          /\ Dropping(u) /\ cur[u] # NULL => Looking(u)
      BY <2>0, Controls DEF Looking, Seeks, Adds, Dropping
    <3>2. /\ pc[u] \in {"g_cmp", "a_more", "a_end"} => pos'[cur[u]] < pos'[tail']
          /\ Dropping(u) /\ cur[u] # NULL => pos'[cur[u]] < pos'[tail']
          /\ pc[u] \in {"s_prev", "s_count", "s_tail"} => nodeSeq'[cur[u]] # 0
      <4>1. tail' = tail /\ pos'[tail] = pos[tail] /\ nodeSeq' = nodeSeq
        BY <1>b, <1>e, <1>f, <1>g
      <4>2. /\ pc[u] \in {"g_cmp", "a_more", "a_end"} => pos'[cur[u]] < pos'[tail']
            /\ Dropping(u) /\ cur[u] # NULL => pos'[cur[u]] < pos'[tail']
        BY <1>j, <2>0, <3>1, <4>1 DEF Stage
      <4>3. pc[u] \in {"s_prev", "s_count", "s_tail"} => nodeSeq'[cur[u]] # 0
        BY <2>0, <4>1 DEF Stage
      <4> QED
        BY <4>2, <4>3
    <3>3. Setting(u) => next'[cur[u]] # NULL
      BY <1>f, <1>j, <2>0, <3>1 DEF Stage
    <3>4. /\ pc[u] \in {"s_count", "s_tail"} => Passed(cur[u])'
          /\ pc[u] = "s_tail" => Settled(cur[u])'
      <4>0. pc[u] \in {"s_count", "s_tail"} => cur[u] \in Nodes /\ cur[u] # c
        BY <1>4, <1>j, <2>0, <3>1 DEF Setting, Stage
      <4>1. pc[u] \in {"s_count", "s_tail"} => (Passed(cur[u]) => Passed(cur[u])')
        BY <1>5, <2>0, <4>0
      <4>2. pc[u] = "s_tail" => (Settled(cur[u]) => Settled(cur[u])')
        BY <1>5, <2>0, <4>0
      <4> QED
        BY <2>0, <4>1, <4>2 DEF Stage
    <3>5. pc[u] = "s_set" => ~Unset(u)'
      <4> SUFFICES ASSUME pc[u] = "s_set", Unset(u) PROVE FALSE
        BY <1>e, <2>0 DEF Unset
      <4>1. Setting(u) /\ ~Settled(cur[u])
        BY DEF Setting, Settled, Passed, Unset
      <4> QED
        BY <1>a, <1>b, <2>0, <4>1, Unsettled
    <3> QED
      BY <2>0, <2>1, <3>2, <3>3, <3>4, <3>5 DEF Stage
  <2>3. Pend(u)'
    <3>1. SequenceMatches(u)' <=> SequenceMatches(u)
      BY <1>e, <2>0 DEF SequenceMatches
    <3>2. ASSUME pc[u] = "g_cas", SequenceMatches(u)
          PROVE  /\ Real(cur[u])' /\ pos'[cur[u]] <= pos'[tail']
                 /\ End' <= pos'[cur[u]] + Latency + 1
                 /\ \A v \in Threads : Looking(v)' => Base(v)' <= pos'[cur[u]]
      <4>1. cur[u] \in Nodes /\ pos'[cur[u]] = pos[cur[u]] /\ pos'[tail'] = pos[tail]
        <5>1. tail' = c /\ tail = c /\ c \in Nodes \ {b}
          BY <1>b, <1>e, <1>g
        <5>2. pos'[c] = pos[c]
          BY <1>f, <5>1
        <5>3. cur[u] \in Nodes /\ pos'[cur[u]] = pos[cur[u]]
          BY <1>j, <3>2
        <5> QED
          BY <5>1, <5>2, <5>3
      <4>2. Real(cur[u])'
        BY <1>h, <2>0, <3>2, <4>1 DEF Pend
      <4>3. End' <= pos[cur[u]] + Latency + 1
        <5>1. pos[c] - lat[t] <= pos[cur[u]]
          BY <1>b, <2>0, <3>2 DEF Pend, Base
        <5> QED
          BY <1>b, <1>h, <4>1, <5>1
      <4> QED
        BY <1>i, <1>k, <2>0, <3>2, <4>1, <4>2, <4>3 DEF Pend
    <3> QED
      BY <1>e, <2>0, <3>1, <3>2 DEF Pend
  <2>5. Reclaim(u)'
    <3>1. Frees(u) => drop[u] \in Nodes \ {b}
      <4>1. Frees(u) => Dropping(u)
        BY DEF Frees, Reclaiming, Dropping
      <4> QED
        BY <1>g, <2>0, <4>1, Controls DEF Touch
    <3>2. Frees(u) => pos'[drop[u]] = pos[drop[u]]
      BY <1>f, <3>1
    <3>3. pos'[tail'] = pos[tail] /\ next'[freeTail'] = next[freeTail]
      BY <1>b, <1>e, <1>f, <1>g
    <3> QED
      BY <1>e, <1>h, <1>i, <2>0, <2>1, <3>2, <3>3 DEF Reclaim
  <2>6. Pop(u)'
    <3> SUFFICES ASSUME pc[u] \in {"n_tail", "n_read", "n_cas"} PROVE Pop(u)'
      BY <2>0 DEF Pop
    <3>1. free[u] \in Nodes /\ own[u] \in Nodes
      BY <2>0, Controls DEF Pop, Gets
    <3>2. pos'[own[u]] = pos[own[u]] /\ pos'[freeTail] = pos[freeTail] /\ pos[own[u]] <= pos[c]
      BY <1>f, <1>g, <2>0, <3>1 DEF Touch
    <3>3. Stayed(u)' => Stayed(u) /\ pos'[free[u]] = pos[free[u]]
      BY <1>f, <2>0, <3>1, <3>2 DEF Stayed
    <3>4. pos[free[u]] < pos[freeTail] => next'[free[u]] = next[free[u]]
      BY <1>f, <1>g, <3>1
    <3> QED
      BY <1>e, <2>0, <3>1, <3>2, <3>3, <3>4 DEF Pop
  <2> QED
    BY <1>11, <1>12, <2>1, <2>2, <2>3, <2>5, <2>6 DEF Mine
<1>14. Mine(t)'
  <2>0. Role(t) /\ Caller(t)
    BY <1>a DEF Mine
  <2>1. Role(t)'
    BY <1>b, <1>d, <1>i, <2>0 DEF Role, Seeks, Gets, Adds
  <2>2. Caller(t)'
    BY <1>b, <1>d, <1>i, <2>0 DEF Caller, Adds, Seeks
  <2>3. Stage(t)'
    BY <1>b, <1>d, <1>f, <1>i DEF Stage
  <2>4. Pend(t)' /\ Pop(t)' /\ Reclaim(t)'
    BY <1>d, <1>i DEF Pend, Pop, Reclaim
  <2> QED
    BY <1>11, <1>12, <2>1, <2>2, <2>3, <2>4 DEF Mine
<1>15. alive
  BY <1>a, <1>b DEF Allocated
<1>l. /\ ~Owns(t)' /\ ~Ready(t)'
      /\ \A u \in Threads \ {t} : (Owns(u)' <=> Owns(u)) /\ (Ready(u)' <=> Ready(u)) /\ node'[u] = node[u]
      /\ \A u \in Threads \ {t} : Owns(u) => /\ node[u] \in Nodes /\ node[u] # b /\ node[u] # c
                                            /\ pos'[node[u]] = 0
  <2>1. ~Owns(t)' /\ ~Ready(t)'
    BY <1>i DEF Owns, Ready
  <2>2. \A u \in Threads \ {t} : (Owns(u)' <=> Owns(u)) /\ (Ready(u)' <=> Ready(u)) /\ node'[u] = node[u]
    BY OthersControl DEF Others
  <2>3. \A u \in Threads \ {t} : Owns(u) => node[u] \in Nodes /\ pos[node[u]] = 0 /\ node[u] # b
    BY <1>a, <1>c DEF Owners, Owner, Owns
  <2>4. pos[c] > 0
    BY <1>g
  <2> QED
    BY <1>f, <2>1, <2>2, <2>3, <2>4
<1>16. Owners'
  <2>1. Owner(t)'
    BY <1>l DEF Owner
  <2>2. ASSUME NEW u \in Threads \ {t} PROVE Owner(u)'
    <3>1. Owner(u) /\ node'[u] = node[u] /\ arg'[u] = arg[u]
      BY <1>a DEF Owners, Others
    <3>2. Owns(u) => next'[node[u]] = next[node[u]]
      BY <1>f, <1>l
    <3>3. Ready(u) => Owns(u)
      BY DEF Ready
    <3> QED
      BY <1>e, <1>l, <3>1, <3>2, <3>3 DEF Owner
  <2>3. \A u, v \in Threads : Owns(u)' /\ Owns(v)' /\ node'[u] = node'[v] => u = v
    BY <1>a, <1>l DEF Owners
  <2> QED
    BY <2>1, <2>2, <2>3 DEF Owners
<1>17. Allocated'
  BY <1>15, <1>a, <1>c, <1>e, <1>f DEF Allocated
<1>18. Accounted'
  <2>1. NodeAccounting'
    <3>1. \A u \in Threads : pc'[u] \in {"n_alloc", "t_dec"} <=> pc[u] \in {"n_alloc", "t_dec"}
      BY <1>b, <1>d DEF Others
    <3>2. {u \in Threads : pc'[u] \in {"n_alloc", "t_dec"}} = {u \in Threads : pc[u] \in {"n_alloc", "t_dec"}}
      BY <3>1
    <3> QED
      BY <1>a, <1>e, <3>2 DEF Accounted, NodeAccounting
  <2>2. ASSUME NEW n \in heap
        PROVE  pos'[n] > 0 \/ \E u \in Threads : Owns(u)' /\ node'[u] = n
    <3>0. n \in Nodes
      BY DEF TypeOK, HeapType
    <3>1. CASE n = b
      BY <1>f, <3>1
    <3>2. CASE n # b
      <4>1. CASE pos[n] > 0
        BY <1>f, <3>0, <3>2, <4>1
      <4>2. CASE \E u \in Threads : Owns(u) /\ node[u] = n
        BY <1>c, <1>l, <3>2, <4>2
      <4> QED
        BY <1>15, <1>a, <4>1, <4>2 DEF Accounted
    <3> QED
      BY <3>1, <3>2
  <2> QED
    BY <1>e, <2>1, <2>2 DEF Accounted
<1> QED
  BY <1>1, <1>2, <1>8, <1>9, <1>10, <1>13, <1>14, <1>16, <1>17, <1>18 DEF IInv, Mine

-------------------------------------------------------------------------------
(* The invariant but for the allocator is about what DeleteProxy leaves.   *)
LEMMA SameStep ==
    ASSUME UNCHANGED <<proxyVars, nodeVars, pc, clientVars, localVars, historyVars>>
    PROVE  /\ Places' <=> Places
           /\ Links' <=> Links
           /\ Sequences' <=> Sequences
           /\ Counts' <=> Counts
           /\ Swinging' <=> Swinging
           /\ \A t \in Threads : (Mine(t)' <=> Mine(t)) /\ (Owns(t)' <=> Owns(t))
<1>1. /\ sequence' = sequence /\ tail' = tail /\ freeHead' = freeHead /\ freeTail' = freeTail
      /\ next' = next /\ nodeSeq' = nodeSeq /\ prevSeq' = prevSeq
      /\ count' = count /\ data' = data /\ pos' = pos
  BY DEF proxyVars, nodeVars, historyVars
<1>2. /\ pc' = pc /\ ret' = ret /\ ref' = ref /\ use' = use /\ old' = old
      /\ seq' = seq /\ cur' = cur /\ lat' = lat /\ own' = own /\ drop' = drop
      /\ nxt' = nxt /\ free' = free /\ node' = node /\ arg' = arg
  BY DEF clientVars, localVars, getVars, newVars
<1>3. /\ FirstInUse' = FirstInUse /\ Newest' = Newest /\ End' = End
      /\ \A n : (Real(n)' <=> Real(n)) /\ (Used(n)' <=> Used(n))
      /\ \A n : Upper(n)' = Upper(n)
      /\ \A n : (Passed(n)' <=> Passed(n)) /\ (Settled(n)' <=> Settled(n))
  BY <1>1 DEF FirstInUse, Newest, End, Real, Used, Upper, Passed, Settled
<1>4. \A n : From(n)' = From(n) /\ Missing(n)' = Missing(n)
  <2>1. \A n : From(n)' = From(n)
    BY <1>1, <1>3 DEF From, Upper
  <2> QED
    BY <1>1, <1>3, <2>1 DEF Missing
<1>5. \A u, n : Has(u, n)' <=> Has(u, n)
  BY <1>2, <1>3, <1>4 DEF Has
<1>6. \A n : Shares(n)' = Shares(n)
  BY <1>1, <1>2, <1>3, <1>5 DEF Shares, Refs, Owned, Numbers, Drops, TailShare, LinkShare
<1>7. /\ \A t : (Setting(t)' <=> Setting(t)) /\ (Dropping(t)' <=> Dropping(t))
      /\ \A t : At(t)' = At(t) /\ (Looking(t)' <=> Looking(t))
      /\ \A t : (Frees(t)' <=> Frees(t)) /\ (Reclaiming(t)' <=> Reclaiming(t))
      /\ \A t : Base(t)' = Base(t) /\ Reach(t)' = Reach(t)
      /\ \A t : (Owns(t)' <=> Owns(t)) /\ (Unset(t)' <=> Unset(t))
      /\ \A t : (SequenceMatches(t)' <=> SequenceMatches(t)) /\ (Stayed(t)' <=> Stayed(t))
  BY <1>1, <1>2 DEF Setting, Dropping, At, Looking, Frees, Reclaiming, Base, Reach, Owns,
                    Unset, SequenceMatches, Stayed
<1>8. (Places' <=> Places) /\ (Links' <=> Links) /\ (Swinging' <=> Swinging)
  BY <1>1, <1>2, <1>3, <1>7 DEF Places, Links, Swinging
<1>9. Sequences' <=> Sequences
  <2>1. Passed(tail)' <=> Passed(tail)
    BY <1>1 DEF Passed
  <2> QED
    BY <1>1, <1>3, <1>4, <2>1 DEF Sequences
<1>10. Counts' <=> Counts
  BY <1>1, <1>2, <1>3, <1>4, <1>6, <1>7 DEF Counts
<1>11. ASSUME NEW t \in Threads
       PROVE  Mine(t)' <=> Mine(t)
  <2>1. (Role(t)' <=> Role(t)) /\ (Caller(t)' <=> Caller(t))
    BY <1>2, <1>7 DEF Role, Caller
  <2>2. Walk(t)' <=> Walk(t)
    <3>1. Real(cur[t])' <=> Real(cur[t])
      BY <1>1, <1>2 DEF Real
    <3> QED
      BY <1>1, <1>2, <1>3, <1>5, <1>7, <3>1 DEF Walk
  <2>3. Stage(t)' <=> Stage(t)
    <3>1. (Passed(cur[t])' <=> Passed(cur[t])) /\ (Settled(cur[t])' <=> Settled(cur[t]))
      BY <1>1, <1>2 DEF Passed, Settled
    <3>2. Above(old[t])' = Above(old[t])
      BY <1>2 DEF Above
    <3> QED
      BY <1>1, <1>2, <1>3, <1>7, <3>1, <3>2 DEF Stage
  <2>4. Pend(t)' <=> Pend(t)
    <3>1. Real(cur[t])' <=> Real(cur[t])
      BY <1>1, <1>2 DEF Real
    <3> QED
      BY <1>1, <1>2, <1>3, <1>7, <3>1 DEF Pend
  <2>5. Touch(t)' <=> Touch(t)
    <3>1. /\ Used(ref[t])' <=> Used(ref[t])
          /\ Used(own[t])' <=> Used(own[t])
          /\ Used(drop[t])' <=> Used(drop[t])
      BY <1>1, <1>2, <1>3 DEF Used
    <3> QED
      BY <1>1, <1>2, <3>1 DEF Touch
  <2>6. (Reclaim(t)' <=> Reclaim(t)) /\ (Pop(t)' <=> Pop(t))
    BY <1>1, <1>2, <1>3, <1>7 DEF Reclaim, Pop
  <2> QED
    BY <2>1, <2>2, <2>3, <2>4, <2>5, <2>6 DEF Mine
<1> QED
  BY <1>7, <1>8, <1>9, <1>10, <1>11

(* Nobody owns a node when the proxy is deleted.                           *)
LEMMA DeleteKept ==
    ASSUME TypeOK, IInv, DeleteProxy
    PROVE  TypeOK' /\ IInv'
<1>a. /\ UNCHANGED <<proxyVars, nodeVars, pc, clientVars, localVars, historyVars>>
      /\ heap' \subseteq heap /\ alive' = FALSE
      /\ \A t \in Threads : pc[t] = "idle" /\ ref[t] = NULL
  BY DEF DeleteProxy
<1>1. TypeOK'
  <2>1. ProxyType' /\ NodeType' /\ HeapType'
    BY <1>a DEF TypeOK, ProxyType, NodeType, HeapType, proxyVars, nodeVars
  <2>2. ClientType' /\ LocalType' /\ HistoryType'
    BY <1>a DEF TypeOK, ClientType, LocalType, HistoryType, clientVars, localVars,
                getVars, newVars, historyVars
  <2> QED
    BY <2>1, <2>2 DEF TypeOK
<1>2. \A t \in Threads : ~Owns(t)
  <2>1. \A t \in Threads : At(t) = "idle" /\ Caller(t)
    BY <1>a DEF IInv, At, Setting, Dropping
  <2> QED
    BY <2>1 DEF Owns, Caller, Seeks, Adds
<1>3. /\ Places' /\ Links' /\ Sequences' /\ Counts' /\ Swinging'
      /\ \A t \in Threads : Mine(t)' /\ ~Owns(t)'
  BY <1>a, <1>2, SameStep DEF IInv, Mine
<1>4. Owners'
  BY <1>3 DEF Owners, Owner, Ready
<1>5. Allocated'
  BY <1>a DEF Allocated, clientVars
<1>6. Accounted'
  BY <1>a DEF IInv, Accounted, NodeAccounting, proxyVars
<1> QED
  BY <1>1, <1>3, <1>4, <1>5, <1>6 DEF IInv, Mine

LEMMA StutterKept ==
    ASSUME TypeOK, IInv, UNCHANGED vars
    PROVE  TypeOK' /\ IInv'
<1>a. /\ UNCHANGED <<proxyVars, nodeVars, pc, clientVars, localVars, historyVars>>
      /\ heap' = heap /\ alive' = alive
  BY DEF vars, heapVars
<1>1. TypeOK'
  <2>1. ProxyType' /\ NodeType' /\ HeapType'
    BY <1>a DEF TypeOK, ProxyType, NodeType, HeapType, proxyVars, nodeVars
  <2>2. ClientType' /\ LocalType' /\ HistoryType'
    BY <1>a DEF TypeOK, ClientType, LocalType, HistoryType, clientVars, localVars,
                getVars, newVars, historyVars
  <2> QED
    BY <2>1, <2>2 DEF TypeOK
<1>3. /\ Places' /\ Links' /\ Sequences' /\ Counts' /\ Swinging'
      /\ \A t \in Threads : Mine(t)' /\ (Owns(t)' <=> Owns(t))
  BY <1>a, SameStep DEF IInv, Mine
<1>b. /\ numNodes' = numNodes /\ failed' = failed /\ pos' = pos /\ pc' = pc /\ ref' = ref
      /\ node' = node /\ arg' = arg /\ use' = use /\ ret' = ret
      /\ next' = next /\ nodeSeq' = nodeSeq /\ prevSeq' = prevSeq
      /\ count' = count /\ data' = data
  BY <1>a DEF proxyVars, nodeVars, historyVars, clientVars, localVars, getVars, newVars
<1>c. \A t : (Owns(t)' <=> Owns(t)) /\ (Ready(t)' <=> Ready(t))
  BY <1>b DEF Owns, Ready, At, Setting, Dropping
<1>4. Owners'
  BY <1>a, <1>b, <1>c DEF IInv, Owners, Owner
<1>5. Allocated'
  BY <1>a, <1>b DEF IInv, Allocated
<1>6. Accounted'
  BY <1>a, <1>b, <1>c DEF IInv, Accounted, NodeAccounting
<1> QED
  BY <1>1, <1>3, <1>4, <1>5, <1>6 DEF IInv, Mine

-------------------------------------------------------------------------------
(* What rcpcInitProxy makes: the nodes of the chain have the places 1 to   *)
(* End, and the last of them is the tail.                                  *)
LEMMA InitChain ==
    ASSUME Init
    PROVE  /\ sequence = 1 /\ numNodes = 0 /\ alive = TRUE /\ failed = 0
           /\ \A i \in 1..(Latency + 3) : FirstNodes[i] \in Nodes /\ pos[FirstNodes[i]] = i
           /\ pos \in [Nodes -> Nat]
           /\ \A n \in Nodes : /\ pos[n] \in 0..(Latency + 3)
                               /\ pos[n] > 0 => FirstNodes[pos[n]] = n
           /\ tail = FirstNodes[Latency + 3]
           /\ freeHead = FirstNodes[1] /\ freeTail = FirstNodes[1]
           /\ next \in [Nodes -> NodeOrNull]
           /\ \A n \in Nodes : next[n] = IF pos[n] \in 1..(Latency + 2)
                                         THEN FirstNodes[pos[n] + 1] ELSE NULL
           /\ nodeSeq = [n \in Nodes |-> 0] /\ data = [n \in Nodes |-> NULL]
           /\ prevSeq = [n \in Nodes |-> IF n = tail THEN 1 ELSE 0]
           /\ count = [n \in Nodes |-> IF n = tail THEN 3 ELSE 0]
           /\ heap = {FirstNodes[i] : i \in 1..(Latency + 3)}
<1> DEFINE last == Latency + 3
           place == [n \in Nodes |-> IF \E i \in 1..last : FirstNodes[i] = n
                                     THEN CHOOSE i \in 1..last : FirstNodes[i] = n ELSE 0]
<1>a. /\ Latency \in Nat /\ MaxLatency + 1 = last /\ last \in Nat
      /\ FirstNodes \in Seq(Nodes) /\ Len(FirstNodes) = last
      /\ \A i, j \in 1..last : FirstNodes[i] = FirstNodes[j] => i = j
  BY RcpcAssumption, Consts
<1>b. /\ InitialChain \in Seq(Nodes) /\ Len(InitialChain) = last
      /\ \A i \in 1..last : InitialChain[i] = FirstNodes[i]
  BY <1>a DEF InitialChain
<1>c. \A i \in 1..last : FirstNodes[i] \in Nodes
  BY <1>a
<1>1. /\ sequence = 1 /\ numNodes = 0 /\ alive = TRUE /\ failed = 0
      /\ nodeSeq = [n \in Nodes |-> 0] /\ data = [n \in Nodes |-> NULL]
  BY DEF Init, INITIAL_SEQUENCE
<1>2. /\ tail = FirstNodes[last] /\ freeHead = FirstNodes[1] /\ freeTail = FirstNodes[1]
      /\ heap = {FirstNodes[i] : i \in 1..last}
  <2>1. /\ tail = InitialChain[Len(InitialChain)]
        /\ freeHead = InitialChain[1] /\ freeTail = InitialChain[1]
        /\ heap = {InitialChain[i] : i \in 1..Len(InitialChain)}
    BY DEF Init
  <2>2. last \in 1..last /\ 1 \in 1..last
    BY <1>a
  <2> QED
    BY <1>b, <2>1, <2>2
<1>3. pos = place
  <2>1. pos = [n \in Nodes |-> IF \E i \in 1..Len(InitialChain) : InitialChain[i] = n
                               THEN CHOOSE i \in 1..Len(InitialChain) : InitialChain[i] = n ELSE 0]
    BY DEF Init
  <2>2. ASSUME NEW n \in Nodes
        PROVE  /\ (\E i \in 1..last : InitialChain[i] = n) <=> (\E i \in 1..last : FirstNodes[i] = n)
               /\ (CHOOSE i \in 1..last : InitialChain[i] = n) = (CHOOSE i \in 1..last : FirstNodes[i] = n)
    <3>1. \A i : (i \in 1..last /\ InitialChain[i] = n) <=> (i \in 1..last /\ FirstNodes[i] = n)
      BY <1>b
    <3> QED
      BY <3>1
  <2> QED
    BY <1>b, <2>1, <2>2, ZenonT(60)
<1>4. /\ \A i \in 1..last : pos[FirstNodes[i]] = i
      /\ \A n \in Nodes : pos[n] \in 0..last /\ (pos[n] > 0 => FirstNodes[pos[n]] = n)
      /\ pos \in [Nodes -> Nat]
  <2>1. ASSUME NEW n \in Nodes
        PROVE  pos[n] \in 0..last /\ (pos[n] > 0 => FirstNodes[pos[n]] = n)
    <3>1. CASE \E i \in 1..last : FirstNodes[i] = n
      <4>1. pos[n] = CHOOSE i \in 1..last : FirstNodes[i] = n
        BY <1>3, <3>1
      <4>2. pos[n] \in 1..last /\ FirstNodes[pos[n]] = n
        BY <3>1, <4>1
      <4> QED
        BY <1>a, <4>2
    <3>2. CASE ~\E i \in 1..last : FirstNodes[i] = n
      <4>1. pos[n] = 0
        BY <1>3, <3>2
      <4> QED
        BY <1>a, <4>1
    <3> QED
      BY <3>1, <3>2
  <2>2. ASSUME NEW i \in 1..last
        PROVE  pos[FirstNodes[i]] = i
    <3>1. FirstNodes[i] \in Nodes /\ \E j \in 1..last : FirstNodes[j] = FirstNodes[i]
      BY <1>c
    <3>2. pos[FirstNodes[i]] = CHOOSE j \in 1..last : FirstNodes[j] = FirstNodes[i]
      BY <1>3, <3>1
    <3>3. pos[FirstNodes[i]] \in 1..last /\ FirstNodes[pos[FirstNodes[i]]] = FirstNodes[i]
      BY <3>1, <3>2
    <3> QED
      BY <1>a, <3>3
  <2>3. pos = [n \in Nodes |-> pos[n]]
    BY <1>3
  <2>4. \A k \in 0..last : k \in Nat
    BY <1>a
  <2> QED
    BY <2>1, <2>2, <2>3, <2>4
<1>5. \A n \in Nodes : pos[n] = last <=> n = tail
  <2>1. last \in 1..last /\ last > 0
    BY <1>a
  <2> QED
    BY <1>2, <1>4, <2>1
<1>6. /\ prevSeq = [n \in Nodes |-> IF n = tail THEN 1 ELSE 0]
      /\ count = [n \in Nodes |-> IF n = tail THEN 3 ELSE 0]
  <2>1. /\ prevSeq = [n \in Nodes |-> IF pos[n] = Len(InitialChain) THEN INITIAL_SEQUENCE ELSE 0]
        /\ count = [n \in Nodes |-> IF pos[n] = Len(InitialChain) THEN GUARD_BIT + REFERENCE ELSE 0]
    BY DEF Init
  <2>2. GUARD_BIT + REFERENCE = 3 /\ INITIAL_SEQUENCE = 1
    BY DEF GUARD_BIT, REFERENCE, INITIAL_SEQUENCE
  <2> QED
    BY <1>b, <1>5, <2>1, <2>2
<1>7. /\ next \in [Nodes -> NodeOrNull]
      /\ \A n \in Nodes : next[n] = IF pos[n] \in 1..(Latency + 2)
                                    THEN FirstNodes[pos[n] + 1] ELSE NULL
  <2>1. next = [n \in Nodes |-> IF pos[n] \in 1..(Len(InitialChain) - 1)
                                THEN InitialChain[pos[n] + 1] ELSE NULL]
    BY DEF Init
  <2>2. Len(InitialChain) - 1 = Latency + 2
    BY <1>a, <1>b
  <2>3. \A k \in 1..(Latency + 2) : k + 1 \in 1..last
    BY <1>a
  <2>4. \A n \in Nodes : next[n] = IF pos[n] \in 1..(Latency + 2)
                                   THEN FirstNodes[pos[n] + 1] ELSE NULL
    BY <1>b, <2>1, <2>2, <2>3
  <2>5. \A n \in Nodes : next[n] \in NodeOrNull
    BY <1>c, <2>3, <2>4, Types
  <2> QED
    BY <2>1, <2>4, <2>5
<1> HIDE DEF place
<1> QED
  BY <1>1, <1>2, <1>4, <1>6, <1>7, <1>c

(* Nobody is in the library when the proxy is made.                        *)
LEMMA InitIdle ==
    ASSUME Init
    PROVE  \A t \in Threads :
              /\ pc[t] = "idle" /\ ret[t] = "idle" /\ ref[t] = NULL /\ use[t] = "hold"
              /\ old[t] = 0 /\ seq[t] = 0 /\ cur[t] = NULL /\ lat[t] = 0
              /\ own[t] = NULL /\ drop[t] = NULL /\ nxt[t] = NULL /\ free[t] = NULL
              /\ node[t] = NULL /\ arg[t] = NULL /\ left[t] = 0
  BY DEF Init

LEMMA InitType ==
    ASSUME Init
    PROVE  TypeOK
<1> USE Types, Bounds
<1>1. ProxyType /\ HeapType
  <2>1. 1 \in 1..(Latency + 3) /\ Latency + 3 \in 1..(Latency + 3)
    BY Consts
  <2> QED
    BY <2>1, InitChain DEF ProxyType, HeapType
<1>2. NodeType
  BY InitChain DEF NodeType
<1>3. ClientType
  BY RcpcAssumption DEF Init, ClientType, PCs
<1>4. LocalType
  BY DEF Init, LocalType
<1>5. HistoryType
  BY InitChain DEF Init, HistoryType
<1> QED
  BY <1>1, <1>2, <1>3, <1>4, <1>5 DEF TypeOK

LEMMA InitInv ==
    ASSUME Init
    PROVE  IInv
<1> USE Consts, Types, InitType, TypesGive
<1>a. /\ sequence = 1 /\ numNodes = 0 /\ alive = TRUE /\ failed = 0
      /\ \A i \in 1..(Latency + 3) : FirstNodes[i] \in Nodes /\ pos[FirstNodes[i]] = i
      /\ \A n \in Nodes : /\ pos[n] \in 0..(Latency + 3)
                          /\ pos[n] > 0 => FirstNodes[pos[n]] = n
      /\ tail = FirstNodes[Latency + 3]
      /\ freeHead = FirstNodes[1] /\ freeTail = FirstNodes[1]
      /\ \A n \in Nodes : next[n] = IF pos[n] \in 1..(Latency + 2)
                                    THEN FirstNodes[pos[n] + 1] ELSE NULL
      /\ \A n \in Nodes : /\ nodeSeq[n] = 0
                          /\ prevSeq[n] = IF n = tail THEN 1 ELSE 0
                          /\ count[n] = IF n = tail THEN 3 ELSE 0
      /\ heap = {FirstNodes[i] : i \in 1..(Latency + 3)}
  BY InitChain
<1>b. \A t \in Threads :
        /\ pc[t] = "idle" /\ ret[t] = "idle" /\ ref[t] = NULL /\ use[t] = "hold"
        /\ old[t] = 0 /\ seq[t] = 0 /\ cur[t] = NULL /\ lat[t] = 0
        /\ own[t] = NULL /\ drop[t] = NULL /\ node[t] = NULL
  BY InitIdle
<1>c. /\ pos[tail] = Latency + 3 /\ pos[freeHead] = 1 /\ pos[freeTail] = 1
      /\ \A n \in Nodes : pos[n] = Latency + 3 => n = tail
      /\ \A n \in Nodes : pos[n] <= Latency + 3
      /\ next[tail] = NULL
  <2>1. 1 \in 1..(Latency + 3) /\ Latency + 3 \in 1..(Latency + 3) /\ Latency + 3 > 0
        /\ Latency + 3 \notin 1..(Latency + 2)
    OBVIOUS
  <2>2. pos[tail] = Latency + 3 /\ pos[freeHead] = 1 /\ pos[freeTail] = 1
    BY <1>a, <2>1
  <2>3. \A n \in Nodes : pos[n] = Latency + 3 => n = tail
    BY <1>a, <2>1
  <2>4. \A n \in Nodes : pos[n] <= Latency + 3
    BY <1>a
  <2> QED
    BY <1>a, <2>1, <2>2, <2>3, <2>4
<1>d. /\ Newest = tail /\ End = Latency + 3 /\ FirstInUse = Latency + 3
      /\ \A n \in Nodes : Used(n) <=> n = tail
      /\ \A n \in Nodes : Real(n) <=> n = tail
  <2>1. Newest = tail /\ End = Latency + 3 /\ FirstInUse = Latency + 3
    BY <1>c DEF Newest, End, FirstInUse
  <2> QED
    BY <1>c, <2>1 DEF Used, Real
<1>1. Places
  <2>1. \A m, n \in Nodes : pos[m] > 0 /\ pos[m] = pos[n] => m = n
    BY <1>a
  <2>2. \A p \in pos[freeHead]..End : \E n \in Nodes : pos[n] = p
    BY <1>a, <1>c, <1>d
  <2>3. \A n \in Nodes : pos[n] > 0 => pos[freeHead] <= pos[n] /\ pos[n] <= End
    BY <1>c, <1>d
  <2> QED
    BY <1>c, <1>d, <2>1, <2>2, <2>3 DEF Places
<1>2. Links
  <2> SUFFICES ASSUME NEW n \in Nodes, pos[n] > 0
               PROVE  \/ pos[n] = End /\ next[n] = NULL
                      \/ pos[n] < End /\ next[n] \in Nodes /\ pos[next[n]] = pos[n] + 1
    BY DEF Links
  <2>1. CASE pos[n] = Latency + 3
    BY <1>c, <1>d, <2>1
  <2>2. CASE pos[n] # Latency + 3
    <3>1. pos[n] \in 1..(Latency + 2) /\ pos[n] + 1 \in 1..(Latency + 3) /\ pos[n] < Latency + 3
      BY <1>c, <2>2
    <3> QED
      BY <1>a, <1>d, <3>1
  <2> QED
    BY <2>1, <2>2
<1>e. \A t \in Threads : At(t) = "idle" /\ ~Setting(t) /\ ~Dropping(t) /\ ~Owns(t)
  BY <1>b DEF At, Setting, Dropping, Owns
<1>3. Owners /\ Allocated
  <2>1. ASSUME NEW n \in Nodes, pos[n] > 0
        PROVE  n \in heap
    <3>1. pos[n] \in 1..(Latency + 3) /\ FirstNodes[pos[n]] = n
      BY <1>a, <2>1
    <3> QED
      BY <1>a, <3>1
  <2> QED
    BY <1>a, <1>e, <2>1 DEF Owners, Owner, Ready, Allocated
<1>f. From(tail) = 1 /\ Upper(tail) = 1
  BY <1>a DEF From, Upper
<1>4. Sequences
  <2>1. Odd(count[tail]) /\ nodeSeq[tail] = 0 /\ prevSeq[tail] = 1
    BY <1>a DEF Odd
  <2>2. \A n \in Nodes : pos[n] < pos[tail] => n # tail
    OBVIOUS
  <2>3. \A n \in Nodes : ~(pos[tail] < pos[n])
    BY <1>c
  <2> QED
    BY <1>a, <1>c, <1>d, <1>f, <2>1, <2>2, <2>3 DEF Sequences
<1>5. Counts
  <2>1. count[tail] + Missing(tail) = 2
    BY <1>a, <1>f DEF Missing, Odd, GUARD_BIT
  <2>2. \A t \in Threads : ref[t] # tail /\ own[t] # tail /\ drop[t] # tail /\ ~Has(t, tail)
    BY <1>b, <1>f DEF Has
  <2>3. Refs(tail) = {} /\ Owned(tail) = {} /\ Numbers(tail) = {} /\ Drops(tail) = {}
    BY <2>2 DEF Refs, Owned, Numbers, Drops
  <2>4. TailShare(tail) = 1 /\ LinkShare(tail) = 0
    BY <1>c, <1>d DEF TailShare, LinkShare
  <2>5. Shares(tail) = 1
    BY <2>3, <2>4, FS_EmptySet DEF Shares
  <2> QED
    BY <1>d, <2>1, <2>5 DEF Counts, REFERENCE
<1>6. Swinging
  BY <1>c DEF Swinging
<1>7. Accounted
  <2>1. Cardinality(heap) = Latency + 3
    <3> DEFINE I == 1..(Latency + 3)
               f == [i \in I |-> FirstNodes[i]]
    <3>1. f \in Surjection(I, heap) /\ f \in Injection(I, heap)
      <4>1. \A i, j \in I : FirstNodes[i] = FirstNodes[j] => i = j
        BY <1>a
      <4>2. \A i \in I : f[i] = FirstNodes[i] /\ f[i] \in heap
        BY <1>a
      <4>3. f \in [I -> heap]
        BY <4>2
      <4>4. \A n \in heap : \E i \in I : f[i] = n
        BY <1>a
      <4>5. \A i, j \in I : f[i] = f[j] => i = j
        BY <4>1, <4>2
      <4> HIDE DEF f, I
      <4> QED
        BY <4>3, <4>4, <4>5 DEF Surjection, Injection, IsInjective
    <3>2. IsFiniteSet(I) /\ Cardinality(I) = Latency + 3
      <4>1. \A a, b \in Int : IsFiniteSet(a..b) /\ Cardinality(a..b) = IF a > b THEN 0 ELSE b - a + 1
        BY FS_Interval
      <4>2. 1 \in Int /\ Latency + 3 \in Int /\ ~(1 > Latency + 3) /\ (Latency + 3) - 1 + 1 = Latency + 3
        OBVIOUS
      <4> QED
        BY <4>1, <4>2
    <3> HIDE DEF I, f
    <3> QED
      BY <3>1, <3>2, FS_Surjection
  <2>2. {t \in Threads : pc[t] \in {"n_alloc", "t_dec"}} = {}
    BY <1>b
  <2>3. Cardinality({}) = 0
    BY FS_EmptySet
  <2>4. NodeAccounting
    <3>1. Cardinality(heap) + failed = numNodes + MaxLatency + 1 - 0
      BY <1>a, <2>1
    <3>2. numNodes \in 0..MaxNodes
      BY <1>a, Bounds
    <3> QED
      BY <2>2, <2>3, <3>1, <3>2 DEF NodeAccounting
  <2>5. \A n \in heap : pos[n] > 0
    BY <1>a
  <2> QED
    BY <2>4, <2>5 DEF Accounted
<1>8. ASSUME NEW t \in Threads
      PROVE  Mine(t)
  <2>1. Role(t) /\ Caller(t)
    BY <1>b, <1>e DEF Role, Caller, Seeks, Gets, Adds
  <2>2. Stage(t) /\ Walk(t) /\ Pend(t) /\ Touch(t) /\ Reclaim(t) /\ Pop(t)
    BY <1>b, <1>e DEF Stage, Walk, Pend, Touch, Reclaim, Pop, Looking, Frees, Reclaiming
  <2> QED
    BY <2>1, <2>2 DEF Mine
<1> QED
  BY <1>1, <1>2, <1>3, <1>4, <1>5, <1>6, <1>7, <1>8 DEF IInv, Mine

-------------------------------------------------------------------------------
LEMMA EnterKept ==
    ASSUME TypeOK, IInv, NEW t \in Threads, Enter(t)
    PROVE  TypeOK' /\ IInv'
<1>1. TypeOK'
  BY EnterType
<1>2. Others(t)
  BY EnterOwn DEF TypeOK
<1> QED
  BY <1>1, <1>2, GetCallKept, DropCallKept, DeferCallKept, TrimCallKept DEF Enter

LEMMA StepKept ==
    ASSUME TypeOK, IInv, NEW t \in Threads, Step(t)
    PROVE  TypeOK' /\ IInv'
<1>1. TypeOK'
  BY StepType
<1>2. Others(t)
  BY StepOwn DEF TypeOK
<1>3. ASSUME Get(t) PROVE IInv'
  <2>1. CASE GetLoadSeq(t)
    BY <1>1, <1>2, <2>1, GetLoadSeqKept
  <2>2. CASE GetLoadTail(t)
    BY <1>1, <1>2, <2>2, GetLoadTailKept
  <2>3. CASE GetCas(t)
    BY <1>1, <1>2, <2>3, GetCasTaken, GetCasKept
  <2>4. CASE GetTest(t)
    BY <1>1, <1>2, <2>4, GetTestKept, ReturnKept
  <2>5. CASE GetCompare(t)
    BY <1>1, <1>2, <2>5, ReturnKept, AdvanceKept
  <2> QED
    BY <1>3, <2>1, <2>2, <2>3, <2>4, <2>5 DEF Get
<1>4. ASSUME Set(t) PROVE IInv'
  <2>1. CASE SetLoad(t)
    BY <1>1, <1>2, <2>1, SetLoadKept
  <2>2. CASE SetCas(t)
    BY <1>1, <1>2, <2>2, SetCasWrite, SetCasKept
  <2>3. CASE SetPrev(t)
    BY <1>1, <1>2, <2>3, SetPrevWrite, SetPrevKept
  <2>4. CASE SetCount(t)
    BY <1>1, <1>2, <2>4, SetCountWrite, SetCountKept
  <2>5. CASE SetTail(t)
    BY <1>1, <1>2, <2>5, SetTailSwing, SetTailKept
  <2> QED
    BY <1>4, <2>1, <2>2, <2>3, <2>4, <2>5 DEF Set
<1>5. ASSUME Drop(t) PROVE IInv'
  BY <1>1, <1>2, <1>5, DropSubKept, DropNextKept, DropStoreKept, DropFreeKept DEF Drop
<1>6. ASSUME New(t) PROVE IInv'
  <2>1. CASE NewLoad(t) \/ NewTest(t) \/ NewRead(t)
    BY <1>1, <1>2, <2>1, NewLoadKept, NewTestKept, NewReadKept
  <2>2. CASE NewCas(t)
    BY <1>1, <1>2, <2>2, NewCasPop, NewCasKept
  <2>3. CASE NewCount(t)
    BY <1>1, <1>2, <2>3, NewCountKept, GiveUpKept
  <2>4. CASE NewAlloc(t)
    BY <1>1, <1>2, <2>4, NewAllocKept, GiveUpKept
  <2>5. CASE NewInit(t)
    BY <1>1, <1>2, <2>5, NewInitKept, GiveUpKept
  <2> QED
    BY <1>6, <2>1, <2>2, <2>3, <2>4, <2>5 DEF New
<1>7. ASSUME Add(t) PROVE IInv'
  <2>1. CASE AddTry(t)
    BY <1>1, <1>2, <2>1, AddTryLink, AddTryKept, GiveUpKept
  <2>2. CASE AddMore(t)
    BY <1>1, <1>2, <2>2, AdvanceKept
  <2>3. CASE AddEnd(t)
    BY <1>1, <1>2, <2>3, GiveUpKept
  <2> QED
    BY <1>7, <2>1, <2>2, <2>3 DEF Add
<1>8. ASSUME Trim(t) \/ Backoff(t) PROVE IInv'
  BY <1>1, <1>2, <1>8, TrimFreeKept, TrimDecKept, BackoffKept DEF Trim
<1> QED
  BY <1>1, <1>3, <1>4, <1>5, <1>6, <1>7, <1>8 DEF Step

(* The invariant is inductive: whatever the threads do, in any order, the  *)
(* chain, the counts and the numbers go together.                          *)
THEOREM Invariance == Spec => [](TypeOK /\ IInv)
<1>1. Init => TypeOK /\ IInv
  BY InitType, InitInv
<1>2. TypeOK /\ IInv /\ [Next]_vars => TypeOK' /\ IInv'
  BY NextCases, EnterKept, StepKept, DeleteKept, StutterKept
<1> QED
  BY <1>1, <1>2, PTL DEF Spec

-------------------------------------------------------------------------------
(* Every variable keeps to its type.                                       *)
THEOREM TypeCorrect == Spec => []TypeOK
  BY Invariance, PTL

(* A thread with a number looks only at nodes withheld from the free list, *)
(* and holds and drops only nodes in use, for every latency.               *)
THEOREM WalkSafe == Spec => []WalkedNotReused
<1>1. TypeOK /\ IInv => WalkedNotReused
  <2> SUFFICES ASSUME TypeOK, IInv, NEW t \in Threads
               PROVE  /\ Looking(t) => Withheld(cur[t])
                      /\ ref[t] # NULL => InUse(ref[t])
                      /\ own[t] # NULL => InUse(own[t])
                      /\ drop[t] # NULL => InUse(drop[t])
    BY DEF WalkedNotReused
  <2> USE Types, TypesGive
  <2>a. Places /\ Links /\ Allocated /\ Role(t) /\ Walk(t) /\ Touch(t) /\ Pend(t)
    BY DEF IInv
  <2>b. /\ FirstInUse \in Nat /\ FirstInUse > 0
        /\ pos[freeTail] \in Nat /\ pos[freeTail] > 0
    BY <2>a, Consts, ChainFacts
  <2>1. CASE alive
    <3>1. \A n \in Nodes : pos[n] > 0 => n \in heap
      BY <2>a, <2>1 DEF Allocated
    <3>2. \A n \in Nodes : Used(n) => InUse(n)
      BY <2>b, <3>1 DEF Used, InUse
    <3>3. Looking(t) => Withheld(cur[t])
      <4>1. Looking(t) => cur[t] \in Nodes /\ pos[cur[t]] > pos[freeTail]
        BY <2>a, Reached
      <4>2. Looking(t) => cur[t] \in Nodes /\ pos[cur[t]] > 0 /\ pos[cur[t]] >= pos[freeTail]
        BY <2>b, <4>1
      <4> QED
        BY <3>1, <4>2 DEF Withheld
    <3> QED
      BY <2>a, <3>2, <3>3 DEF Touch
  <2>2. CASE ~alive
    <3>1. pc[t] = "idle" /\ ref[t] = NULL
      BY <2>a, <2>2 DEF Allocated
    <3>2. ~Dropping(t)
      BY <3>1 DEF Dropping
    <3>3. cur[t] = NULL /\ own[t] = NULL /\ drop[t] = NULL
      BY <2>a, <3>1, <3>2, Controls
    <3> QED
      BY <3>1, <3>3 DEF Looking
  <2> QED
    BY <2>1, <2>2
<1> QED
  BY <1>1, Invariance, PTL

(* A walk makes at most Latency + 1 steps from the tail that was read.     *)
THEOREM WalkEnds == Spec => []WalkBounded
<1>1. TypeOK /\ IInv => WalkBounded
  <2> SUFFICES ASSUME TypeOK, IInv, NEW t \in Threads, seq[t] # 0
               PROVE  lat[t] <= Latency + 1
    BY DEF WalkBounded
  <2> USE Consts, TypesGive
  <2>1. PICK n \in Nodes : pos[cur[t]] <= pos[n] /\ pos[n] <= Reach(t)
    BY DEF IInv, Walk
  <2>2. cur[t] \in Nodes
    BY Types DEF IInv, Role
  <2>3. pos[cur[t]] <= pos[cur[t]] - lat[t] + Latency + 1
    BY <2>1, <2>2 DEF Reach, Base
  <2> QED
    BY <2>2, <2>3
<1> QED
  BY <1>1, Invariance, PTL

(* One thread at a time moves freeTail, and it is the first node in use    *)
(* that it lets go.                                                        *)
THEOREM OneReclaims == Spec => []SingleReclaimer
<1>1. IInv => SingleReclaimer
  BY DEF IInv, Reclaim, Frees, SingleReclaimer
<1> QED
  BY <1>1, Invariance, PTL

(* The count of a node in use is that of its users at any time.            *)
THEOREM CountsTrue == Spec => []CountsBalance
<1>1. TypeOK /\ IInv => CountsBalance
  <2> SUFFICES ASSUME TypeOK, IInv, NEW n \in Nodes, InUse(n)
               PROVE  count[n] + (IF Odd(count[n]) THEN Upper(n) - Lower(n) - GUARD_BIT ELSE 0)
                        = REFERENCE * Users(n)
    BY DEF CountsBalance
  <2> USE Consts, TypesGive, Types
  <2>a. Places /\ Links /\ Sequences /\ Counts
    BY DEF IInv
  <2>1. Used(n)
    BY DEF InUse, Used
  <2>2. Lower(n) = From(n)
    <3>1. CASE prevSeq[n] # 0
      BY <3>1 DEF Lower, From
    <3>2. CASE prevSeq[n] = 0
      <4>1. Real(n) /\ ~(pos[n] <= pos[tail])
        BY <2>1, <2>a, <3>2, ChainFacts DEF Sequences
      <4>2. n = next[tail] /\ n # tail
        BY <2>a, <4>1, ChainFacts
      <4>3. pos[n] = pos[tail] + 1
        BY <2>a, <4>1, <4>2, ChainFacts
      <4>4. \A m \in Nodes : next[m] = n /\ pos[m] = pos[n] - 1 <=> m = tail
        BY <2>a, <4>2, <4>3, ChainFacts
      <4>5. (CHOOSE m \in Nodes : next[m] = n /\ pos[m] = pos[n] - 1) = tail
        BY <4>4
      <4>6. Lower(n) = Upper(CHOOSE m \in Nodes : next[m] = n /\ pos[m] = pos[n] - 1)
        BY <3>2 DEF Lower
      <4>7. Lower(n) = Upper(tail)
        BY <4>5, <4>6, Zenon
      <4> QED
        BY <3>2, <4>7 DEF From
    <3> QED
      BY <3>1, <3>2
  <2>3. Users(n) = Shares(n)
    BY <2>2 DEF Users, Shares, Refs, Owned, Numbers, Drops, Has, TailShare, LinkShare
  <2>4. count[n] + Missing(n) = REFERENCE * Shares(n)
    BY <2>a, <2>1 DEF Counts
  <2> QED
    BY <2>2, <2>3, <2>4 DEF Missing
<1> QED
  BY <1>1, Invariance, PTL

(* numNodes tells how many nodes there are, and stays below the maximum.   *)
THEOREM NodesAccounted == Spec => []NodeAccounting
<1>1. IInv => NodeAccounting
  BY DEF IInv, Accounted
<1> QED
  BY <1>1, Invariance, PTL

(* A pop installs the present successor of the node that it takes.         *)
THEOREM PopsNext == Spec => PopInstallsNext
<1>1. TypeOK /\ IInv /\ [Next]_vars =>
        [freeHead' # freeHead =>
            /\ freeHead # freeTail
            /\ freeHead' = next[freeHead]]_vars
  <2> SUFFICES ASSUME TypeOK, IInv, [Next]_vars, freeHead' # freeHead
               PROVE  freeHead # freeTail /\ freeHead' = next[freeHead]
    OBVIOUS
  <2>1. PICK t \in Threads : Enter(t) \/ Step(t)
    BY NextCases DEF DeleteProxy, vars, proxyVars
  <2>2. NewCas(t) /\ freeHead = free[t]
    <3>1. ~Enter(t)
      BY DEF Enter, GetCall, DropCall, DeferCall, TrimCall, proxyVars
    <3>2. ~Get(t) /\ ~Set(t) /\ ~Drop(t)
      BY DEF Get, GetLoadSeq, GetLoadTail, GetCas, GetTest, GetCompare,
             Set, SetLoad, SetCas, SetPrev, SetCount, SetTail,
             Drop, DropSub, DropNext, DropStore, DropFree, proxyVars
    <3>3. ~Add(t) /\ ~Trim(t) /\ ~Backoff(t)
      BY DEF Add, AddTry, AddMore, AddEnd, Trim, TrimFree, TrimDec, Backoff, proxyVars
    <3>4. New(t) => NewCas(t)
      BY DEF New, NewLoad, NewTest, NewRead, NewCount, NewAlloc, NewInit, proxyVars
    <3>5. NewCas(t)
      BY <2>1, <3>1, <3>2, <3>3, <3>4 DEF Step
    <3> QED
      BY <3>5 DEF NewCas
  <2>3. /\ pos[freeHead] < pos[freeTail] /\ nxt[t] = next[freeHead]
    BY <2>2, ThreadFacts DEF IInv, NewCas
  <2>4. freeHead # freeTail
    BY <2>3, TypesGive
  <2> QED
    BY <2>2, <2>3, <2>4 DEF NewCas
<1> QED
  BY <1>1, Invariance, PTL DEF Spec, PopInstallsNext
===============================================================================
