------------------------------ MODULE QueueFacts ------------------------------
(***************************************************************************)
(* Facts about queues without duplicates, for captchaManualMu (who holds   *)
(* it, then who waits) and for RouteManager.rules (in the order they were  *)
(* added).                                                                 *)
(***************************************************************************)
EXTENDS Naturals, Sequences, SequenceTheorems, TLAPS

In(q, x) == \E i \in DOMAIN q : q[i] = x
Once(q) == \A i, j \in DOMAIN q : q[i] = q[j] => i = j

LEMMA EmptyQueue == ~(\E x : In(<<>>, x)) /\ Once(<<>>)
  BY DEF In, Once

(* Joining the end of a queue.                                             *)
LEMMA JoinsBack ==
  ASSUME NEW S, NEW q \in Seq(S), NEW x \in S
  PROVE  /\ Append(q, x) \in Seq(S)
         /\ Append(q, x) # <<>>
         /\ \A y : In(Append(q, x), y) <=> In(q, y) \/ y = x
         /\ Once(q) /\ ~In(q, x) => Once(Append(q, x))
         /\ Head(Append(q, x)) = IF q = <<>> THEN x ELSE Head(q)
<1>1. /\ Append(q, x) \in Seq(S)
      /\ Len(q) \in Nat /\ DOMAIN q = 1..Len(q)
      /\ DOMAIN Append(q, x) = 1..Len(q)+1
      /\ \A i \in 1..Len(q) : Append(q, x)[i] = q[i]
      /\ Append(q, x)[Len(q)+1] = x
  BY AppendProperties, LenProperties
<1>2. Append(q, x) # <<>>
  BY <1>1
<1>3. ASSUME NEW y
      PROVE  In(Append(q, x), y) <=> In(q, y) \/ y = x
  BY <1>1 DEF In
<1>4. Once(q) /\ ~In(q, x) => Once(Append(q, x))
  BY <1>1 DEF In, Once
<1>5. Head(Append(q, x)) = IF q = <<>> THEN x ELSE Head(q)
  BY <1>1
<1>6. QED
  BY <1>1, <1>2, <1>3, <1>4, <1>5

(* Leaving from the front of a queue.                                      *)
LEMMA LeavesFront ==
  ASSUME NEW S, NEW q \in Seq(S), q # <<>>
  PROVE  /\ Tail(q) \in Seq(S)
         /\ Head(q) \in S /\ In(q, Head(q))
         /\ \A y : In(q, y) <=> y = Head(q) \/ In(Tail(q), y)
         /\ Once(q) => Once(Tail(q)) /\ ~In(Tail(q), Head(q))
<1>1. /\ Tail(q) \in Seq(S) /\ Head(q) \in S /\ Head(q) = q[1]
      /\ Len(q) \in Nat \ {0} /\ DOMAIN q = 1..Len(q)
      /\ DOMAIN Tail(q) = 1..Len(q)-1
      /\ \A i \in 1..Len(q)-1 : Tail(q)[i] = q[i+1]
  BY HeadTailProperties, EmptySeq, LenProperties
<1>2. ASSUME NEW y
      PROVE  In(q, y) <=> y = Head(q) \/ In(Tail(q), y)
  <2>1. ASSUME NEW i \in DOMAIN q, q[i] = y, y # Head(q)
        PROVE  In(Tail(q), y)
    <3>1. i # 1 /\ i - 1 \in 1..Len(q)-1
      BY <1>1, <2>1
    <3>2. Tail(q)[i - 1] = y
      BY <1>1, <2>1, <3>1
    <3>3. QED
      BY <1>1, <3>1, <3>2 DEF In
  <2>2. ASSUME NEW i \in DOMAIN Tail(q), Tail(q)[i] = y
        PROVE  In(q, y)
    BY <1>1, <2>2 DEF In
  <2>3. In(q, Head(q))
    BY <1>1 DEF In
  <2>4. QED
    BY <2>1, <2>2, <2>3 DEF In
<1>3. In(q, Head(q))
  BY <1>1 DEF In
<1>4. ASSUME Once(q)
      PROVE  Once(Tail(q)) /\ ~In(Tail(q), Head(q))
  <2>1. ASSUME NEW i \in 1..Len(q)-1
        PROVE  i + 1 \in DOMAIN q /\ Tail(q)[i] = q[i+1]
    BY <1>1
  <2>2. Once(Tail(q))
    BY <1>1, <1>4, <2>1 DEF Once
  <2>3. ~In(Tail(q), Head(q))
    BY <1>1, <1>4, <2>1 DEF In, Once
  <2>4. QED
    BY <2>2, <2>3
<1>5. QED
  BY <1>1, <1>2, <1>3, <1>4
===============================================================================
