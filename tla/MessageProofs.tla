---------------------------- MODULE MessageProofs ----------------------------
(***************************************************************************)
(* Proofs about what the objects of Objects keep for the tasks, for any    *)
(* tasks, priorities, objects, attributes and sizes: message buffers and   *)
(* mailboxes lose no message and keep them in order; nobody waits for      *)
(* memory or room that is there; every variable keeps its type; and a data *)
(* queue implements Channel.  The queues, and the pools, are the subject   *)
(* of ObjectsProofs.                                                       *)
(***************************************************************************)
EXTENDS ObjectsProofs

-----------------------------------------------------------------------------
(* THE RINGS OF MESSAGE BUFFERS                                            *)

(* The messages that a buffer takes. *)
Fitting(o) == {m \in Mail : MailSz[m] <= MaxMsz[o]}

(* LEMMA: what a message takes in a ring. *)
LEMMA SpaceFacts ==
    ASSUME NEW o \in Mbf, NEW m \in Mail
    PROVE  /\ Header(o) \in Nat /\ MailSz[m] \in Nat /\ MailSz[m] > 0
           /\ Space(o, m) = MailSz[m] + Header(o)
           /\ Space(o, m) \in Nat /\ Space(o, m) > 0
           /\ m \in Fitting(o) /\ Header(o) = 0 => MailSz[m] = 1
<1>1. MailSz[m] \in Nat /\ MailSz[m] > 0 BY MessageBufferAssumption
<1>2. MaxMsz[o] \in Nat BY MessageBufferAssumption
<1>3. Header(o) \in Nat BY <1>2 DEF Header
<1>4. Space(o, m) = MailSz[m] + Header(o) BY DEF Space
<1>5. Header(o) = 0 => MaxMsz[o] = 1 BY <1>2 DEF Header
<1> QED BY <1>1, <1>2, <1>3, <1>4, <1>5 DEF Fitting

(* LEMMA: what messages take is the sum of what each takes. *)
LEMMA TakingFacts ==
    ASSUME NEW o \in Mbf, NEW q \in Seq(Mail)
    PROVE  /\ Len(q) \in Nat /\ Taking(o, q, 0) = 0
           /\ \A k \in 1..Len(q) : /\ q[k] \in Mail /\ Space(o, q[k]) \in Nat
                                   /\ Taking(o, q, k) = Taking(o, q, k - 1) + Space(o, q[k])
           /\ \A k \in 0..Len(q) : Taking(o, q, k) \in Nat
           /\ \A j \in 0..Len(q), k \in 0..Len(q) : j <= k => Taking(o, q, j) <= Taking(o, q, k)
<1>0. Len(q) \in Nat OBVIOUS
<1> DEFINE f == [j \in 1..Len(q) |-> Space(o, q[j])]
           bytes[j \in 0..Len(q)] == IF j = 0 THEN 0 ELSE bytes[j - 1] + Space(o, q[j])
           a == [k \in 0..Len(q) |-> Taking(o, q, k)]
<1>1. \A k : Taking(o, q, k) = bytes[k] BY DEF Taking
<1>2. \E b : b = [j \in 0..Len(q) |-> IF j = 0 THEN 0 ELSE b[j - 1] + Space(o, q[j])]
  <2>1. PICK b : b = [j \in 0..Len(q) |-> IF j = 0 THEN 0 ELSE b[j - 1] + f[j]]
    BY <1>0, SumsDefined
  <2>2. \A j \in 0..Len(q) : j # 0 => j \in 1..Len(q) BY <1>0
  <2>3. \A j \in 0..Len(q) : j # 0 => f[j] = Space(o, q[j]) BY <2>2
  <2> HIDE DEF f
  <2>4. b = [j \in 0..Len(q) |-> IF j = 0 THEN 0 ELSE b[j - 1] + Space(o, q[j])] BY <2>1, <2>3
  <2> QED BY <2>4
<1>3. bytes = [j \in 0..Len(q) |-> IF j = 0 THEN 0 ELSE bytes[j - 1] + Space(o, q[j])] BY <1>2
<1>4. \A k \in 1..Len(q) : q[k] \in Mail /\ Space(o, q[k]) \in Nat BY SpaceFacts
<1> HIDE DEF bytes
<1>5. bytes[0] = 0 BY <1>0, <1>3
<1>6. \A k \in 1..Len(q) : Space(o, q[k]) \in Nat /\ bytes[k] = bytes[k - 1] + Space(o, q[k])
  <2>1. \A k \in 1..Len(q) : k \in 0..Len(q) /\ k # 0 BY <1>0
  <2> QED BY <1>3, <1>4, <2>1
<1>7. \A k \in 1..Len(q) : f[k] \in Nat /\ bytes[k] = bytes[k - 1] + f[k] BY <1>6
<1> HIDE DEF f
<1>8. /\ \A k \in 0..Len(q) : bytes[k] \in Nat
      /\ \A j \in 0..Len(q), k \in 0..Len(q) : j <= k => bytes[j] <= bytes[k]
  BY <1>0, <1>5, <1>7, SumsGrow
<1> QED BY <1>0, <1>1, <1>4, <1>5, <1>6, <1>8

(* LEMMA: a message that is put behind others does not move them. *)
LEMMA TakingAppend ==
    ASSUME NEW o \in Mbf, NEW q \in Seq(Mail), NEW m \in Mail
    PROVE  /\ \A k \in 0..Len(q) : Taking(o, Append(q, m), k) = Taking(o, q, k)
           /\ Taking(o, Append(q, m), Len(q) + 1) = Taking(o, q, Len(q)) + Space(o, m)
<1>0. /\ Append(q, m) \in Seq(Mail) /\ Len(Append(q, m)) = Len(q) + 1
      /\ \A k \in 1..Len(q) : Append(q, m)[k] = q[k]
      /\ Append(q, m)[Len(q) + 1] = m
  OBVIOUS
<1>1. PICK r \in Seq(Mail) : /\ r = Append(q, m) /\ Len(r) = Len(q) + 1
                             /\ \A k \in 1..Len(q) : r[k] = q[k]
                             /\ r[Len(q) + 1] = m
  BY <1>0
<1>2. PICK n \in Nat : n = Len(q) OBVIOUS
<1> DEFINE a == [k \in 0..n |-> Taking(o, r, k)]
           b == [k \in 0..n |-> Taking(o, q, k)]
           f == [k \in 1..n |-> Space(o, q[k])]
<1>3. a[0] = b[0] BY TakingFacts
<1>4. ASSUME NEW k \in 1..n PROVE a[k] = a[k - 1] + f[k] /\ b[k] = b[k - 1] + f[k]
  <2>1. k \in 0..n /\ k - 1 \in 0..n /\ k \in 1..Len(r) /\ k \in 1..Len(q) BY <1>1, <1>2
  <2>2. r[k] = q[k] BY <1>1, <2>1
  <2>3. Taking(o, r, k) = Taking(o, r, k - 1) + Space(o, r[k]) BY <2>1, TakingFacts
  <2>4. Taking(o, q, k) = Taking(o, q, k - 1) + Space(o, q[k]) BY <2>1, TakingFacts
  <2> QED BY <1>2, <2>1, <2>2, <2>3, <2>4
<1>t. a \in [0..n -> Nat] /\ b \in [0..n -> Nat]
  <2>1. \A k \in 0..n : k \in 0..Len(r) /\ k \in 0..Len(q) BY <1>1, <1>2
  <2> QED BY <2>1, TakingFacts
<1> HIDE DEF a, b, f
<1>5. a = b
  <2>1. \A k \in 1..n : a[k - 1] = b[k - 1] => a[k] = b[k] BY <1>4
  <2>2. a[0] = b[0] BY <1>3
  <2> QED BY <2>1, <2>2, <1>t, SumsAgree
<1>6. \A k \in 0..n : Taking(o, r, k) = Taking(o, q, k) BY <1>5 DEF a, b
<1>7. n + 1 \in 1..Len(r) /\ (n + 1) - 1 = n /\ n \in 0..n BY <1>1, <1>2
<1>8. Taking(o, r, n + 1) = Taking(o, r, n) + Space(o, m) BY <1>1, <1>2, <1>7, TakingFacts
<1> QED BY <1>1, <1>2, <1>6, <1>7, <1>8

(* LEMMA: when the first message is taken, the others move up by what it took. *)
LEMMA TakingTail ==
    ASSUME NEW o \in Mbf, NEW q \in Seq(Mail), q # <<>>
    PROVE  \A k \in 0..(Len(q) - 1) :
              Taking(o, Tail(q), k) + Space(o, Head(q)) = Taking(o, q, k + 1)
<1>0. /\ Tail(q) \in Seq(Mail) /\ Len(Tail(q)) = Len(q) - 1
      /\ \A k \in 1..(Len(q) - 1) : Tail(q)[k] = q[k + 1]
  OBVIOUS
<1>1. PICK r \in Seq(Mail) : /\ r = Tail(q) /\ Len(r) = Len(q) - 1
                             /\ \A k \in 1..(Len(q) - 1) : r[k] = q[k + 1]
  BY <1>0
<1>a. Len(q) \in Nat /\ Len(q) # 0 OBVIOUS
<1>b. Len(r) \in Nat /\ Len(r) + 1 = Len(q) BY <1>1, <1>a
<1>2. PICK n \in Nat : n = Len(r) /\ n + 1 = Len(q) BY <1>b
<1>3. PICK s \in Nat : s = Space(o, Head(q)) /\ Head(q) = q[1]
  BY <1>2, SpaceFacts
<1> DEFINE a == [k \in 0..n |-> Taking(o, r, k) + s]
           b == [k \in 0..n |-> Taking(o, q, k + 1)]
           f == [k \in 1..n |-> Space(o, r[k])]
<1>4. a[0] = b[0]
  <2>1. 1 \in 1..Len(q) /\ 1 - 1 = 0 /\ 0 + 1 = 1 /\ 0 \in 0..n BY <1>2
  <2>2. Taking(o, q, 1) = 0 + s BY <1>3, <2>1, TakingFacts
  <2>3. Taking(o, r, 0) = 0 BY TakingFacts
  <2> QED BY <2>1, <2>2, <2>3
<1>5. ASSUME NEW k \in 1..n PROVE a[k] = a[k - 1] + f[k] /\ b[k] = b[k - 1] + f[k]
  <2>1. /\ k \in 0..n /\ k - 1 \in 0..n /\ k \in 1..Len(r) /\ k + 1 \in 1..Len(q)
        /\ (k + 1) - 1 = k /\ (k - 1) + 1 = k
    BY <1>1, <1>2
  <2>2. r[k] = q[k + 1] BY <1>1, <2>1
  <2>3. /\ Taking(o, r, k) = Taking(o, r, k - 1) + Space(o, r[k])
        /\ Taking(o, r, k - 1) \in Nat /\ Space(o, r[k]) \in Nat
    BY <1>2, <2>1, TakingFacts
  <2>4. Taking(o, q, k + 1) = Taking(o, q, k) + Space(o, q[k + 1]) BY <2>1, TakingFacts
  <2>5. Taking(o, r, k) + s = (Taking(o, r, k - 1) + s) + Space(o, r[k]) BY <2>3
  <2>6. f[k] = Space(o, r[k]) /\ a[k] = Taking(o, r, k) + s /\ a[k - 1] = Taking(o, r, k - 1) + s
    BY <2>1
  <2>7. b[k] = Taking(o, q, k + 1) /\ b[k - 1] = Taking(o, q, k) BY <2>1
  <2> QED BY <2>2, <2>4, <2>5, <2>6, <2>7
<1>t. a \in [0..n -> Nat] /\ b \in [0..n -> Nat]
  <2>1. \A k \in 0..n : k \in 0..Len(r) /\ k + 1 \in 0..Len(q) BY <1>1, <1>2
  <2>2. \A k \in 0..n : Taking(o, r, k) \in Nat /\ Taking(o, q, k + 1) \in Nat
    BY <2>1, TakingFacts
  <2>3. ASSUME NEW k \in 0..n PROVE Taking(o, r, k) + s \in Nat
    <3>1. PICK x \in Nat : x = Taking(o, r, k) BY <2>2
    <3>2. x + s \in Nat OBVIOUS
    <3> QED BY <3>1, <3>2
  <2> QED BY <2>2, <2>3
<1> HIDE DEF a, b, f
<1>6. a = b
  <2>1. \A k \in 1..n : a[k - 1] = b[k - 1] => a[k] = b[k] BY <1>5
  <2>2. a[0] = b[0] BY <1>4
  <2> QED BY <2>1, <2>2, <1>t, SumsAgree
<1>7. \A k \in 0..n : Taking(o, r, k) + s = Taking(o, q, k + 1) BY <1>6 DEF a, b
<1> QED BY <1>1, <1>2, <1>3, <1>7

(* A ring of S bytes that holds the messages q from gp on. *)
Ring(o, S, fr, pp, gp, c, q) ==
    /\ S \in Nat /\ fr \in Nat /\ gp \in Nat /\ q \in Seq(Fitting(o))
    /\ IF S = 0 THEN gp = 0 ELSE gp < S
    /\ fr + Taking(o, q, Len(q)) = S
    /\ pp = Walk(S, gp, Taking(o, q, Len(q)))
    /\ DOMAIN c = 0..(S - 1)
    /\ \A k \in 1..Len(q) : \A i \in 0..(Space(o, q[k]) - 1) :
          c[Walk(S, gp, Taking(o, q, k - 1) + i)]
             = IF i < Header(o) THEN MailSz[q[k]] ELSE q[k]

(* LEMMA: where the bytes of a message lie. *)
LEMMA PlaceFacts ==
    ASSUME NEW o \in Mbf, NEW q \in Seq(Mail), NEW k \in 1..Len(q),
           NEW i \in 0..(Space(o, q[k]) - 1)
    PROVE  /\ Taking(o, q, k - 1) \in Nat /\ i \in Nat
           /\ Taking(o, q, k - 1) + i \in Nat
           /\ Taking(o, q, k - 1) + i < Taking(o, q, k)
           /\ Taking(o, q, k) <= Taking(o, q, Len(q)) /\ Taking(o, q, Len(q)) \in Nat
<1>1. k - 1 \in 0..Len(q) /\ k \in 0..Len(q) /\ Len(q) \in 0..Len(q) /\ k <= Len(q)
  BY TakingFacts
<1>2. PICK x, y, z \in Nat : x = Taking(o, q, k - 1) /\ y = Taking(o, q, k) /\ z = Space(o, q[k])
  BY <1>1, TakingFacts
<1>3. y = x + z BY <1>2, TakingFacts
<1>4. i \in Nat /\ i < z BY <1>2
<1>5. x + i \in Nat /\ x + i < y BY <1>3, <1>4
<1>6. Taking(o, q, k) <= Taking(o, q, Len(q)) /\ Taking(o, q, Len(q)) \in Nat
  BY <1>1, TakingFacts
<1> QED BY <1>2, <1>4, <1>5, <1>6

(* LEMMA: a message that fits is put behind those that are in the ring. *)
LEMMA RingPut ==
    ASSUME NEW o \in Mbf, NEW S, NEW fr, NEW pp, NEW gp, NEW c, NEW q,
           Ring(o, S, fr, pp, gp, c, q), NEW m \in Fitting(o), fr >= Space(o, m)
    PROVE  LET start == Walk(S, pp, Header(o))
           IN Ring(o, S, fr - Space(o, m), Walk(S, start, MailSz[m]), gp,
                   [i \in DOMAIN c |-> IF Back(S, pp, i) < Header(o) THEN MailSz[m]
                                       ELSE IF Back(S, start, i) < MailSz[m] THEN m ELSE c[i]],
                   Append(q, m))
<1>0. S \in Nat /\ fr \in Nat /\ gp \in Nat /\ q \in Seq(Fitting(o)) BY DEF Ring
<1>1. m \in Mail /\ q \in Seq(Mail)
  <2>1. Fitting(o) \subseteq Mail BY DEF Fitting
  <2> QED BY <1>0, <2>1
<1>2. PICK h, n, T \in Nat : h = Header(o) /\ n = MailSz[m] /\ T = Taking(o, q, Len(q))
                             /\ n > 0 /\ Space(o, m) = n + h
  <2>1. Len(q) \in 0..Len(q) BY <1>1, TakingFacts
  <2> QED BY <1>1, <2>1, SpaceFacts, TakingFacts
<1>3. fr + T = S /\ fr >= n + h BY <1>2 DEF Ring
<1>4. S # 0 /\ gp < S /\ T + h + n <= S
  <2>1. S # 0 /\ T + h + n <= S BY <1>0, <1>2, <1>3
  <2> QED BY <2>1 DEF Ring
<1>5. pp = Walk(S, gp, T) BY <1>2 DEF Ring
<1>6. PICK st : st = Walk(S, pp, h) /\ st = Walk(S, gp, T + h)
                /\ Walk(S, st, n) = Walk(S, gp, T + h + n)
  <2>1. Walk(S, pp, h) = Walk(S, gp, T + h) BY <1>0, <1>4, <1>5, WalkWalk
  <2>2. T + h \in Nat /\ (T + h) + n <= S BY <1>4
  <2>3. Walk(S, Walk(S, gp, T + h), n) = Walk(S, gp, (T + h) + n)
    BY <1>0, <1>4, <2>2, WalkWalk
  <2> QED BY <2>1, <2>3
<1>7. PICK d : d = [i \in DOMAIN c |-> IF Back(S, pp, i) < h THEN MailSz[m]
                                       ELSE IF Back(S, st, i) < n THEN m ELSE c[i]]
  OBVIOUS
<1>8. PICK r \in Seq(Fitting(o)) :
         /\ r = Append(q, m) /\ Len(r) = Len(q) + 1 /\ r[Len(q) + 1] = m
         /\ \A k \in 1..Len(q) : r[k] = q[k]
         /\ r \in Seq(Mail)
  <2>1. /\ Append(q, m) \in Seq(Fitting(o)) /\ Len(Append(q, m)) = Len(q) + 1
        /\ Append(q, m)[Len(q) + 1] = m /\ \A k \in 1..Len(q) : Append(q, m)[k] = q[k]
    BY <1>0
  <2>2. Append(q, m) \in Seq(Mail) BY <1>1
  <2> QED BY <2>1, <2>2
<1>9. /\ \A k \in 0..Len(q) : Taking(o, r, k) = Taking(o, q, k)
      /\ Taking(o, r, Len(r)) = T + (n + h)
  BY <1>1, <1>2, <1>8, TakingAppend
<1>a. ASSUME NEW e \in Nat, e < S
      PROVE  LET w == Walk(S, gp, e) IN
             /\ w \in 0..(S - 1)
             /\ e < T => ~(Back(S, pp, w) < h) /\ ~(Back(S, st, w) < n)
             /\ T <= e /\ e < T + h => Back(S, pp, w) < h
             /\ T + h <= e /\ e < T + h + n => ~(Back(S, pp, w) < h) /\ Back(S, st, w) < n
  <2>0. T + h \in Nat /\ T + h <= S /\ T <= S BY <1>0, <1>4
  <2>1. PICK w \in Nat : w = Walk(S, gp, e) /\ w < S BY <1>0, <1>4, <1>a, WalkFacts
  <2>a. Back(S, Walk(S, gp, T), Walk(S, gp, e)) = IF e >= T THEN e - T ELSE e - T + S
    BY <1>0, <1>4, <1>a, <2>0, BackWalk
  <2>b. Back(S, Walk(S, gp, T + h), Walk(S, gp, e))
           = IF e >= T + h THEN e - (T + h) ELSE e - (T + h) + S
    BY <1>0, <1>4, <1>a, <2>0, BackWalk
  <2>2. PICK x : x = Back(S, pp, w) /\ x = IF e >= T THEN e - T ELSE e - T + S
    BY <1>5, <2>1, <2>a
  <2>3. PICK y : y = Back(S, st, w) /\ y = IF e >= T + h THEN e - (T + h) ELSE e - (T + h) + S
    BY <1>6, <2>1, <2>b
  <2>4. /\ e < T => ~(x < h) /\ ~(y < n)
        /\ T <= e /\ e < T + h => x < h
        /\ T + h <= e /\ e < T + h + n => ~(x < h) /\ y < n
    BY <1>0, <1>4, <1>a, <2>2, <2>3
  <2>5. w \in 0..(S - 1) BY <1>0, <2>1
  <2> QED BY <2>1, <2>2, <2>3, <2>4, <2>5
<1>10. Ring(o, S, fr - (n + h), Walk(S, st, n), gp, d, r)
  <2>1. fr - (n + h) \in Nat /\ (fr - (n + h)) + (T + (n + h)) = S BY <1>0, <1>3
  <2>2. Walk(S, st, n) = Walk(S, gp, Taking(o, r, Len(r)))
    <3>1. T + h + n = T + (n + h) BY <1>2
    <3> QED BY <1>6, <1>9, <3>1
  <2>3. DOMAIN d = 0..(S - 1) /\ DOMAIN c = 0..(S - 1) BY <1>7 DEF Ring
  <2>4. ASSUME NEW k \in 1..Len(r), NEW i \in 0..(Space(o, r[k]) - 1)
        PROVE  d[Walk(S, gp, Taking(o, r, k - 1) + i)] = IF i < h THEN MailSz[r[k]] ELSE r[k]
    <3>1. CASE k \in 1..Len(q)
      <4>1. r[k] = q[k] /\ k - 1 \in 0..Len(q) BY <1>1, <1>8, <3>1, TakingFacts
      <4>2. Taking(o, r, k - 1) = Taking(o, q, k - 1) BY <1>9, <4>1
      <4>3. i \in 0..(Space(o, q[k]) - 1) BY <4>1
      <4>4. PICK e \in Nat : e = Taking(o, q, k - 1) + i /\ e < T
        <5>1. PICK x \in Nat : x = Taking(o, q, k - 1) + i /\ x < Taking(o, q, k)
          BY <1>1, <3>1, <4>3, PlaceFacts
        <5>2. PICK y \in Nat : y = Taking(o, q, k) /\ y <= T
          BY <1>1, <1>2, <3>1, <4>3, PlaceFacts, TakingFacts
        <5> QED BY <5>1, <5>2
      <4>5. e < S BY <1>0, <1>3, <4>4
      <4>a. PICK w : w = Walk(S, gp, e) OBVIOUS
      <4>6. w \in 0..(S - 1) /\ ~(Back(S, pp, w) < h) /\ ~(Back(S, st, w) < n)
        BY <1>0, <1>a, <4>4, <4>5, <4>a
      <4>7. d[w] = c[w] BY <1>7, <2>3, <4>6
      <4>8. c[w] = IF i < h THEN MailSz[q[k]] ELSE q[k]
        BY <1>2, <3>1, <4>3, <4>4, <4>a DEF Ring
      <4> QED BY <4>1, <4>2, <4>4, <4>a, <4>7, <4>8
    <3>2. CASE k = Len(q) + 1
      <4>1. r[k] = m /\ k - 1 = Len(q) /\ Len(q) \in 0..Len(q)
        BY <1>1, <1>8, <3>2, TakingFacts
      <4>2. Taking(o, r, k - 1) = T BY <1>2, <1>9, <4>1
      <4>3. i \in Nat /\ i < n + h BY <1>2, <4>1
      <4>b. T + i \in Nat /\ T + i < S BY <1>0, <1>4, <4>3
      <4>4. PICK e \in Nat : e = T + i /\ e < S BY <4>b
      <4>a. PICK w : w = Walk(S, gp, e) OBVIOUS
      <4>5. /\ w \in 0..(S - 1)
            /\ T <= e /\ e < T + h => Back(S, pp, w) < h
            /\ T + h <= e /\ e < T + h + n => ~(Back(S, pp, w) < h) /\ Back(S, st, w) < n
        BY <1>a, <4>4, <4>a
      <4>6. CASE i < h
        <5>1. Back(S, pp, w) < h BY <4>3, <4>4, <4>5, <4>6
        <5>2. d[w] = MailSz[m] BY <1>7, <2>3, <4>5, <5>1
        <5> QED BY <4>1, <4>2, <4>4, <4>a, <4>6, <5>2
      <4>7. CASE ~(i < h)
        <5>1. ~(Back(S, pp, w) < h) /\ Back(S, st, w) < n BY <4>3, <4>4, <4>5, <4>7
        <5>2. d[w] = m BY <1>7, <2>3, <4>5, <5>1
        <5> QED BY <4>1, <4>2, <4>4, <4>a, <4>7, <5>2
      <4> QED BY <4>6, <4>7
    <3>3. k \in 1..Len(q) \/ k = Len(q) + 1 BY <1>1, <1>8, TakingFacts
    <3> QED BY <3>1, <3>2, <3>3
  <2>5. IF S = 0 THEN gp = 0 ELSE gp < S BY <1>4
  <2>6. (fr - (n + h)) + Taking(o, r, Len(r)) = S BY <1>9, <2>1
  <2>7. \A k \in 1..Len(r) : \A i \in 0..(Space(o, r[k]) - 1) :
           d[Walk(S, gp, Taking(o, r, k - 1) + i)]
              = IF i < Header(o) THEN MailSz[r[k]] ELSE r[k]
    BY <1>2, <2>4
  <2> QED BY <1>0, <1>8, <2>1, <2>2, <2>3, <2>5, <2>6, <2>7 DEF Ring
<1> QED BY <1>2, <1>6, <1>7, <1>8, <1>10

(* LEMMA: what is got from a ring is its first message, and the others     *)
(* stay where they are.                                                    *)
LEMMA RingGet ==
    ASSUME NEW o \in Mbf, NEW S, NEW fr, NEW pp, NEW gp, NEW c, NEW q,
           Ring(o, S, fr, pp, gp, c, q), q # <<>>,
           NEW n, n = IF Header(o) = 0 THEN 1 ELSE c[gp]
    PROVE  /\ c[Walk(S, gp, Header(o))] = Head(q)
           /\ Ring(o, S, fr + Header(o) + n, pp, Walk(S, Walk(S, gp, Header(o)), n),
                   [i \in DOMAIN c |-> IF Back(S, gp, i) < Header(o) + n THEN NONE ELSE c[i]],
                   Tail(q))
<1>0. /\ S \in Nat /\ fr \in Nat /\ gp \in Nat /\ q \in Seq(Fitting(o))
      /\ Fitting(o) \subseteq Mail
  BY DEF Ring, Fitting
<1>1. q \in Seq(Mail) /\ Len(q) \in Nat /\ Len(q) > 0 BY <1>0
<1>2. 1 \in 1..Len(q) /\ 1 - 1 = 0 /\ 1 \in 0..Len(q) /\ Len(q) \in 0..Len(q) /\ 1 <= Len(q)
  BY <1>1
<1>3. PICK m \in Fitting(o) : m = Head(q) /\ m = q[1] BY <1>0, <1>1
<1>4. PICK h, z, s, T \in Nat : /\ h = Header(o) /\ z = MailSz[m] /\ z > 0 /\ (h = 0 => z = 1)
                                /\ s = Space(o, m) /\ s = z + h
                                /\ T = Taking(o, q, Len(q))
  <2>1. m \in Mail BY <1>0
  <2>2. Taking(o, q, Len(q)) \in Nat BY <1>1, <1>2, TakingFacts
  <2> QED BY <2>1, <2>2, SpaceFacts
<1>5. Taking(o, q, 0) = 0 /\ Taking(o, q, 1) = s /\ s <= T
  <2>1. Taking(o, q, 0) = 0 BY <1>1, TakingFacts
  <2>2. Taking(o, q, 1) = 0 + s BY <1>1, <1>2, <1>3, <1>4, <2>1, TakingFacts
  <2>3. Taking(o, q, 1) <= Taking(o, q, Len(q)) BY <1>1, <1>2, TakingFacts
  <2> QED BY <1>4, <2>1, <2>2, <2>3
<1>6. fr + T = S BY <1>4 DEF Ring
<1>7. S # 0 /\ gp < S /\ T <= S /\ s <= S
  <2>1. s > 0 /\ s <= T BY <1>4, <1>5
  <2>2. fr \in Nat /\ S \in Nat BY <1>0
  <2>3. S # 0 /\ T <= S /\ s <= S BY <1>6, <2>1, <2>2
  <2> QED BY <2>3 DEF Ring
<1>8. Walk(S, gp, 0) = gp BY <1>0, <1>7 DEF Walk
<1>9. \A i \in 0..(s - 1) : c[Walk(S, gp, 0 + i)] = IF i < h THEN z ELSE m
  <2>1. \A i \in 0..(Space(o, q[1]) - 1) :
           c[Walk(S, gp, Taking(o, q, 1 - 1) + i)] = IF i < Header(o) THEN MailSz[q[1]] ELSE q[1]
    BY <1>2 DEF Ring
  <2>2. Space(o, q[1]) = s /\ Taking(o, q, 1 - 1) = 0 /\ MailSz[q[1]] = z
    BY <1>2, <1>3, <1>4, <1>5
  <2> QED BY <1>3, <1>4, <2>1, <2>2
<1>10. n = z
  <2>1. CASE h = 0 BY <1>4, <2>1
  <2>2. CASE h # 0
    <3>1. 0 \in 0..(s - 1) /\ 0 + 0 = 0 /\ 0 < h BY <1>4, <2>2
    <3>2. c[gp] = z BY <1>8, <1>9, <3>1
    <3> QED BY <1>4, <2>2, <3>2
  <2> QED BY <2>1, <2>2
<1>11. c[Walk(S, gp, h)] = m
  <2>1. h \in 0..(s - 1) /\ 0 + h = h /\ ~(h < h) BY <1>4
  <2> QED BY <1>9, <2>1
<1>12. PICK g \in Nat : /\ g = Walk(S, gp, s) /\ g < S
                        /\ g = Walk(S, Walk(S, gp, h), z)
  <2>1. h + z = s /\ h + z <= S BY <1>4, <1>7
  <2>2. Walk(S, Walk(S, gp, h), z) = Walk(S, gp, h + z) BY <1>0, <1>4, <1>7, <2>1, WalkWalk
  <2>3. Walk(S, gp, s) \in Nat /\ Walk(S, gp, s) < S BY <1>0, <1>4, <1>7, WalkFacts
  <2> QED BY <2>1, <2>2, <2>3
<1>13. \A e \in Nat : s + e <= S => Walk(S, g, e) = Walk(S, gp, s + e)
  <2> SUFFICES ASSUME NEW e \in Nat, s + e <= S PROVE Walk(S, g, e) = Walk(S, gp, s + e)
    OBVIOUS
  <2>1. S \in Nat /\ gp \in Nat /\ gp < S BY <1>0, <1>7
  <2>2. Walk(S, Walk(S, gp, s), e) = Walk(S, gp, s + e) BY <2>1, WalkWalk
  <2> QED BY <1>12, <2>2
<1>14. PICK r \in Seq(Fitting(o)) :
          /\ r = Tail(q) /\ Len(r) \in Nat /\ Len(r) + 1 = Len(q) /\ r \in Seq(Mail)
          /\ \A k \in 1..(Len(q) - 1) : r[k] = q[k + 1]
  <2>1. /\ Tail(q) \in Seq(Fitting(o)) /\ Len(Tail(q)) = Len(q) - 1 /\ Tail(q) \in Seq(Mail)
        /\ \A k \in 1..(Len(q) - 1) : Tail(q)[k] = q[k + 1]
    BY <1>0, <1>1
  <2>2. Len(Tail(q)) \in Nat /\ Len(Tail(q)) + 1 = Len(q) BY <1>1, <2>1
  <2> QED BY <2>1, <2>2
<1>15. \A k \in 0..Len(r) : Taking(o, r, k) \in Nat /\ Taking(o, r, k) + s = Taking(o, q, k + 1)
  <2>1. \A k \in 0..Len(r) : k \in 0..(Len(q) - 1) BY <1>14
  <2>2. \A k \in 0..Len(r) : Taking(o, r, k) \in Nat BY <1>14, TakingFacts
  <2>3. \A k \in 0..(Len(q) - 1) :
           Taking(o, Tail(q), k) + Space(o, Head(q)) = Taking(o, q, k + 1)
    BY <1>1, TakingTail
  <2> QED BY <1>3, <1>4, <1>14, <2>1, <2>2, <2>3
<1>16. PICK U \in Nat : U = Taking(o, r, Len(r)) /\ U + s = T
  <2>1. Len(r) \in 0..Len(r) BY <1>14
  <2> QED BY <1>4, <1>14, <1>15, <2>1
<1>17. PICK d : d = [i \in DOMAIN c |-> IF Back(S, gp, i) < h + n THEN NONE ELSE c[i]]
  OBVIOUS
<1>18. Ring(o, S, fr + h + n, pp, g, d, r)
  <2>1. fr + h + n \in Nat /\ (fr + h + n) + U = S
    <3>a. PICK x \in Nat : x = fr BY <1>0
    <3>c. s = z + h BY <1>4
    <3>b. x + h + z = x + s /\ (x + s) + U = x + (U + s) /\ x + h + z \in Nat
      BY ONLY <3>c, x \in Nat, h \in Nat, z \in Nat, U \in Nat
    <3>1. fr + h + z \in Nat /\ (fr + h + z) + U = S BY <1>6, <1>16, <3>a, <3>b
    <3> QED BY <1>10, <3>1
  <2>2. pp = Walk(S, g, U)
    <3>1. s + U = T /\ s + U <= S BY <1>7, <1>16
    <3>2. pp = Walk(S, gp, T) BY <1>4 DEF Ring
    <3> QED BY <1>13, <3>1, <3>2
  <2>3. DOMAIN d = 0..(S - 1) /\ DOMAIN c = 0..(S - 1) BY <1>17 DEF Ring
  <2>4. ASSUME NEW k \in 1..Len(r), NEW i \in 0..(Space(o, r[k]) - 1)
        PROVE  d[Walk(S, g, Taking(o, r, k - 1) + i)] = IF i < h THEN MailSz[r[k]] ELSE r[k]
    <3>1. /\ k \in 1..(Len(q) - 1) /\ k + 1 \in 1..Len(q) /\ (k + 1) - 1 = k
          /\ k - 1 \in 0..Len(r) /\ (k - 1) + 1 = k
      BY <1>14
    <3>2. r[k] = q[k + 1] BY <1>14, <3>1
    <3>3. i \in 0..(Space(o, q[k + 1]) - 1) BY <3>2
    <3>4. PICK x \in Nat : x = Taking(o, r, k - 1) /\ x + s = Taking(o, q, k)
      BY <1>15, <3>1
    <3>5. i \in Nat /\ (x + s) + i < T
      <4>1. PICK a \in Nat : a = Taking(o, q, k) + i /\ a < Taking(o, q, k + 1) /\ i \in Nat
        BY <1>1, <3>1, <3>3, PlaceFacts
      <4>2. PICK b \in Nat : b = Taking(o, q, k + 1) /\ b <= T
        <5>1. k + 1 \in 0..Len(q) /\ k + 1 <= Len(q) BY <1>1, <3>1
        <5> QED BY <1>1, <1>2, <1>4, <5>1, TakingFacts
      <4> QED BY <3>4, <4>1, <4>2
    <3>6. PICK e \in Nat : e = x + i /\ s + e < S /\ s + e = (x + s) + i
      <4>1. PICK j \in Nat : j = i BY <3>5
      <4>2. x + j \in Nat /\ s + (x + j) = (x + s) + j OBVIOUS
      <4>3. (x + s) + j < S
        <5>1. (x + s) + j < T BY <3>5, <4>1
        <5> QED BY <1>0, <1>7, <5>1
      <4> QED BY <4>1, <4>2, <4>3
    <3>7. PICK w \in Nat : w = Walk(S, gp, s + e) /\ w = Walk(S, g, e) /\ w < S
      <4>1. s + e \in Nat /\ s + e <= S BY <1>0, <3>6
      <4>2. Walk(S, gp, s + e) \in Nat /\ Walk(S, gp, s + e) < S BY <1>0, <1>7, <4>1, WalkFacts
      <4> QED BY <1>13, <4>1, <4>2
    <3>8. c[w] = IF i < h THEN MailSz[q[k + 1]] ELSE q[k + 1]
      <4>1. c[Walk(S, gp, Taking(o, q, (k + 1) - 1) + i)]
               = IF i < Header(o) THEN MailSz[q[k + 1]] ELSE q[k + 1]
        BY <3>1, <3>3 DEF Ring
      <4>2. Taking(o, q, (k + 1) - 1) + i = s + e BY <3>1, <3>4, <3>6
      <4> QED BY <1>4, <3>7, <4>1, <4>2
    <3>9. ~(Back(S, gp, w) < h + n)
      <4>1. s + e \in Nat /\ 0 <= S /\ s + e >= 0 /\ s + e - 0 = s + e BY <1>0, <3>6
      <4>2. Back(S, Walk(S, gp, 0), Walk(S, gp, s + e))
               = IF s + e >= 0 THEN s + e - 0 ELSE s + e - 0 + S
        BY <1>0, <1>7, <3>6, <4>1, BackWalk
      <4>3. Back(S, gp, w) = s + e BY <1>8, <3>7, <4>1, <4>2
      <4>4. ~(s + e < h + z) BY <1>4
      <4> QED BY <1>10, <4>3, <4>4
    <3>10. w \in DOMAIN c BY <1>0, <2>3, <3>7
    <3>11. d[w] = c[w] BY <1>17, <3>9, <3>10
    <3> QED BY <3>2, <3>4, <3>6, <3>7, <3>8, <3>11
  <2> QED BY <1>0, <1>4, <1>7, <1>12, <1>14, <1>16, <2>1, <2>2, <2>3, <2>4 DEF Ring
<1> QED BY <1>3, <1>4, <1>10, <1>11, <1>12, <1>14, <1>17, <1>18

(* Every ring holds the messages that were put and not got; that of a      *)
(* buffer that does not exist is of no size.                               *)
Void(S, gp, q) == S = 0 /\ gp = 0 /\ q = <<>>
RingInv ==
    /\ mbfsz \in [Mbf -> Nat] /\ frsz \in [Mbf -> Nat] /\ putp \in [Mbf -> Nat]
    /\ getp \in [Mbf -> Nat] /\ mcnt \in [Mbf -> Nat]
    /\ DOMAIN mbf = Mbf /\ mail \in [Mbf -> Seq(Mail)]
    /\ \A o \in Mbf :
          /\ Ring(o, mbfsz[o], frsz[o], putp[o], getp[o], mbf[o], mail[o])
          /\ mcnt[o] = Len(mail[o])
          /\ o \notin objs => Void(mbfsz[o], getp[o], mail[o])

(* LEMMA: a ring without messages. *)
LEMMA RingEmpty ==
    ASSUME NEW o \in Mbf, NEW S \in Nat, NEW c, DOMAIN c = 0..(S - 1)
    PROVE  Ring(o, S, S, 0, 0, c, <<>>)
<1>1. <<>> \in Seq(Fitting(o)) /\ <<>> \in Seq(Mail) /\ Len(<<>>) = 0 OBVIOUS
<1>2. Taking(o, <<>>, 0) = 0 BY <1>1, TakingFacts
<1>3. Walk(S, 0, 0) = 0 BY DEF Walk
<1>4. \A k \in 1..Len(<<>>) : FALSE BY <1>1
<1> QED BY <1>1, <1>2, <1>3, <1>4 DEF Ring

(* LEMMA: the places of a ring are places. *)
LEMMA RingPlaces ==
    ASSUME NEW o \in Mbf, NEW S, NEW fr, NEW pp, NEW gp, NEW c, NEW q,
           Ring(o, S, fr, pp, gp, c, q)
    PROVE  /\ S \in Nat /\ fr \in Nat /\ pp \in Nat /\ gp \in Nat /\ fr <= S
           /\ q \in Seq(Mail) /\ Len(q) \in Nat
           /\ fr = S <=> q = <<>>
<1>0. /\ S \in Nat /\ fr \in Nat /\ gp \in Nat /\ q \in Seq(Fitting(o))
      /\ Fitting(o) \subseteq Mail
  BY DEF Ring, Fitting
<1>1. q \in Seq(Mail) /\ Len(q) \in Nat BY <1>0
<1>2. PICK T \in Nat : T = Taking(o, q, Len(q))
  <2>1. Len(q) \in 0..Len(q) BY <1>1
  <2> QED BY <1>1, <2>1, TakingFacts
<1>3. fr + T = S /\ pp = Walk(S, gp, T) BY <1>2 DEF Ring
<1>4. T <= S /\ fr <= S /\ (fr = S <=> T = 0) BY <1>0, <1>3
<1>5. pp \in Nat
  <2>1. CASE S = 0
    <3>1. gp = 0 /\ T = 0 BY <1>4, <2>1 DEF Ring
    <3> QED BY <1>3, <2>1, <3>1 DEF Walk
  <2>2. CASE S # 0
    <3>1. gp < S BY <2>2 DEF Ring
    <3> QED BY <1>0, <1>3, <1>4, <3>1, WalkFacts
  <2> QED BY <2>1, <2>2
<1>6. q = <<>> => T = 0
  <2>1. q = <<>> => Len(q) = 0 OBVIOUS
  <2> QED BY <1>1, <1>2, <2>1, TakingFacts
<1>7. q # <<>> => T # 0
  <2> SUFFICES ASSUME q # <<>> PROVE T # 0 OBVIOUS
  <2>1. 1 \in 1..Len(q) /\ 1 - 1 = 0 /\ 1 \in 0..Len(q) /\ Len(q) \in 0..Len(q) /\ 1 <= Len(q)
    BY <1>1
  <2>2. PICK s \in Nat : s = Space(o, q[1]) /\ s > 0
    <3>1. q[1] \in Mail BY <1>1, <2>1
    <3> QED BY <3>1, SpaceFacts
  <2>3. Taking(o, q, 1) = 0 + s BY <1>1, <2>1, <2>2, TakingFacts
  <2>4. Taking(o, q, 1) <= Taking(o, q, Len(q)) BY <1>1, <2>1, TakingFacts
  <2> QED BY <1>2, <2>2, <2>3, <2>4
<1> QED BY <1>0, <1>1, <1>4, <1>5, <1>6, <1>7

(* LEMMA: a change to the ring of one buffer. *)
LEMMA OneRing ==
    ASSUME RingInv, NEW o \in Mbf, NEW S, NEW fr, NEW pp, NEW gp, NEW c, NEW q,
           mbfsz' = [mbfsz EXCEPT ![o] = S], frsz' = [frsz EXCEPT ![o] = fr],
           putp' = [putp EXCEPT ![o] = pp], getp' = [getp EXCEPT ![o] = gp],
           mbf' = [mbf EXCEPT ![o] = c], mail' = [mail EXCEPT ![o] = q],
           mcnt' = [mcnt EXCEPT ![o] = Len(q)],
           Ring(o, S, fr, pp, gp, c, q), o \notin objs' => Void(S, gp, q),
           \A x \in Mbf \ {o} : x \in objs => x \in objs'
    PROVE  RingInv'
<1>1. /\ S \in Nat /\ fr \in Nat /\ pp \in Nat /\ gp \in Nat /\ Len(q) \in Nat
      /\ q \in Seq(Mail)
  BY RingPlaces
<1>2. /\ mbfsz' \in [Mbf -> Nat] /\ frsz' \in [Mbf -> Nat] /\ putp' \in [Mbf -> Nat]
      /\ getp' \in [Mbf -> Nat] /\ mcnt' \in [Mbf -> Nat]
      /\ DOMAIN mbf' = Mbf /\ mail' \in [Mbf -> Seq(Mail)]
  BY <1>1 DEF RingInv
<1>3. ASSUME NEW x \in Mbf
      PROVE  /\ Ring(x, mbfsz'[x], frsz'[x], putp'[x], getp'[x], mbf'[x], mail'[x])
             /\ mcnt'[x] = Len(mail'[x])
             /\ x \notin objs' => Void(mbfsz'[x], getp'[x], mail'[x])
  <2>1. CASE x = o
    <3>1. /\ mbfsz'[x] = S /\ frsz'[x] = fr /\ putp'[x] = pp /\ getp'[x] = gp
          /\ mbf'[x] = c /\ mail'[x] = q /\ mcnt'[x] = Len(q)
      BY <2>1 DEF RingInv
    <3> QED BY <2>1, <3>1
  <2>2. CASE x # o
    <3>1. /\ mbfsz'[x] = mbfsz[x] /\ frsz'[x] = frsz[x] /\ putp'[x] = putp[x]
          /\ getp'[x] = getp[x] /\ mbf'[x] = mbf[x] /\ mail'[x] = mail[x]
          /\ mcnt'[x] = mcnt[x]
      BY <2>2 DEF RingInv
    <3> QED BY <2>2, <3>1 DEF RingInv
  <2> QED BY <2>1, <2>2
<1> QED BY <1>2, <1>3 DEF RingInv

(* LEMMA: rings that nobody touches. *)
LEMMA RingsUntouched ==
    ASSUME RingInv, UNCHANGED mbfvars, objs \cap Mbf \subseteq objs'
    PROVE  RingInv'
BY DEF RingInv, mbfvars

(* LEMMA: a message is put in a ring. *)
LEMMA PutMbfKeeps ==
    ASSUME RingInv, NEW o \in Mbf, o \in objs, objs' = objs, NEW m \in Fitting(o),
           Fit(o, m), PutMbf(o, m)
    PROVE  RingInv'
<1>1. /\ Ring(o, mbfsz[o], frsz[o], putp[o], getp[o], mbf[o], mail[o])
      /\ mcnt[o] = Len(mail[o]) /\ mbf[o] = mbf[o]
  BY DEF RingInv
<1>2. PICK S, fr, pp, gp, c, q :
         /\ S = mbfsz[o] /\ fr = frsz[o] /\ pp = putp[o] /\ gp = getp[o]
         /\ c = mbf[o] /\ q = mail[o]
  OBVIOUS
<1>3. Ring(o, S, fr, pp, gp, c, q) /\ fr >= Space(o, m) BY <1>1, <1>2 DEF Fit
<1>4. \A p, n : Along(o, p, n) = Walk(S, p, n) BY <1>2 DEF Along, Walk
<1>5. \A p, i : Behind(o, p, i) = Back(S, p, i) BY <1>2 DEF Behind, Back
<1>6. PICK st, d, r : /\ st = Walk(S, pp, Header(o))
                      /\ d = [i \in DOMAIN c |->
                                IF Back(S, pp, i) < Header(o) THEN MailSz[m]
                                ELSE IF Back(S, st, i) < MailSz[m] THEN m ELSE c[i]]
                      /\ r = Append(q, m)
  OBVIOUS
<1>7. Ring(o, S, fr - Space(o, m), Walk(S, st, MailSz[m]), gp, d, r)
  BY <1>3, <1>6, RingPut
<1>8. Len(r) = mcnt[o] + 1
  <2>1. q \in Seq(Mail) BY <1>3, RingPlaces
  <2>2. m \in Mail BY DEF Fitting
  <2> QED BY <1>1, <1>2, <1>6, <2>1, <2>2
<1>9. mbf' = [mbf EXCEPT ![o] = d]
  <2>1. mbf' = [mbf EXCEPT ![o] = [i \in DOMAIN mbf[o] |->
                   IF Behind(o, putp[o], i) < Header(o) THEN MailSz[m]
                   ELSE IF Behind(o, Along(o, putp[o], Header(o)), i) < MailSz[m] THEN m
                   ELSE mbf[o][i]]]
    BY DEF PutMbf
  <2>2. Along(o, putp[o], Header(o)) = st BY <1>2, <1>4, <1>6
  <2>3. d = [i \in DOMAIN mbf[o] |->
                   IF Behind(o, putp[o], i) < Header(o) THEN MailSz[m]
                   ELSE IF Behind(o, Along(o, putp[o], Header(o)), i) < MailSz[m] THEN m
                   ELSE mbf[o][i]]
    BY <1>2, <1>5, <1>6, <2>2
  <2> QED BY <2>1, <2>3
<1>10. /\ putp' = [putp EXCEPT ![o] = Walk(S, st, MailSz[m])]
       /\ frsz' = [frsz EXCEPT ![o] = fr - Space(o, m)]
       /\ mcnt' = [mcnt EXCEPT ![o] = Len(r)]
       /\ mail' = [mail EXCEPT ![o] = r]
  BY <1>2, <1>4, <1>6, <1>8 DEF PutMbf
<1>11. mbfsz' = [mbfsz EXCEPT ![o] = S] /\ getp' = [getp EXCEPT ![o] = gp]
  BY <1>2 DEF PutMbf, RingInv
<1> QED BY <1>7, <1>9, <1>10, <1>11, OneRing

(* LEMMA: the first message is got from a ring; it is what is handed over. *)
LEMMA GetMbfKeeps ==
    ASSUME RingInv, NEW o \in Mbf, RcvMbf(o), frsz[o] # mbfsz[o]
    PROVE  RingInv' /\ mail[o] # <<>> /\ out' = <<o, Head(mail[o])>>
<1>1. /\ Ring(o, mbfsz[o], frsz[o], putp[o], getp[o], mbf[o], mail[o])
      /\ mcnt[o] = Len(mail[o])
  BY DEF RingInv
<1>2. PICK S, fr, pp, gp, c, q :
         /\ S = mbfsz[o] /\ fr = frsz[o] /\ pp = putp[o] /\ gp = getp[o]
         /\ c = mbf[o] /\ q = mail[o]
  OBVIOUS
<1>3. Ring(o, S, fr, pp, gp, c, q) BY <1>1, <1>2
<1>4. q # <<>> /\ q \in Seq(Mail) BY <1>2, <1>3, RingPlaces
<1>5. \A p, n : Along(o, p, n) = Walk(S, p, n) BY <1>2 DEF Along, Walk
<1>6. \A p, i : Behind(o, p, i) = Back(S, p, i) BY <1>2 DEF Behind, Back
<1>7. PICK n : n = IF Header(o) = 0 THEN 1 ELSE c[gp] OBVIOUS
<1>8. Length(o, getp[o]) = n BY <1>2, <1>7 DEF Length
<1>9. PICK d, g, r : /\ d = [i \in DOMAIN c |->
                               IF Back(S, gp, i) < Header(o) + n THEN NONE ELSE c[i]]
                     /\ g = Walk(S, Walk(S, gp, Header(o)), n)
                     /\ r = Tail(q)
  OBVIOUS
<1>10. /\ c[Walk(S, gp, Header(o))] = Head(q)
       /\ Ring(o, S, fr + Header(o) + n, pp, g, d, r)
  BY <1>3, <1>4, <1>7, <1>9, RingGet
<1>11. Len(r) = mcnt[o] - 1 BY <1>1, <1>2, <1>4, <1>9
<1>12. mbf' = [mbf EXCEPT ![o] = d]
  <2>1. mbf' = [mbf EXCEPT ![o] = [i \in DOMAIN mbf[o] |->
                   IF Behind(o, getp[o], i) < Header(o) + n THEN NONE ELSE mbf[o][i]]]
    BY <1>8 DEF RcvMbf
  <2>2. mbf' = [mbf EXCEPT ![o] = [i \in DOMAIN c |->
                   IF Back(S, gp, i) < Header(o) + n THEN NONE ELSE c[i]]]
    BY <1>2, <1>6, <2>1
  <2> QED BY <1>9, <2>2
<1>13. getp' = [getp EXCEPT ![o] = g]
  <2>1. getp' = [getp EXCEPT ![o] = Along(o, Along(o, getp[o], Header(o)), n)]
    BY <1>8 DEF RcvMbf
  <2> QED BY <1>2, <1>5, <1>9, <2>1
<1>14. frsz' = [frsz EXCEPT ![o] = fr + Header(o) + n]
  <2>1. frsz' = [frsz EXCEPT ![o] = frsz[o] + Header(o) + n] BY <1>8 DEF RcvMbf
  <2> QED BY <1>2, <2>1
<1>15. /\ mcnt' = [mcnt EXCEPT ![o] = Len(r)] /\ mail' = [mail EXCEPT ![o] = r]
       /\ mbfsz' = [mbfsz EXCEPT ![o] = S] /\ putp' = [putp EXCEPT ![o] = pp]
       /\ objs' = objs /\ o \in objs
  BY <1>2, <1>9, <1>11 DEF RcvMbf, RingInv
<1>16. RingInv' BY <1>10, <1>12, <1>13, <1>14, <1>15, OneRing
<1>17. out' = <<o, Head(mail[o])>>
  <2>1. out' = <<o, Content(o, getp[o])>> BY DEF RcvMbf, Gives
  <2> QED BY <1>2, <1>5, <1>10, <2>1 DEF Content
<1> QED BY <1>2, <1>4, <1>16, <1>17

(* LEMMA: the services of message buffers keep the rings. *)
LEMMA MbfNextKeeps ==
    ASSUME RingInv, MbfNext
    PROVE  RingInv'
<1>1. PICK o \in Mbf \cap ids :
         \/ \E a \in MbfAtr, n \in MbfSz : CreMbf(o, a, n)
         \/ DelMbf(o) \/ RcvMbf(o)
         \/ \E m \in Mail : SndMbf(o, m)
         \/ \E t \in Task, timed \in BOOLEAN :
               \/ \E m \in Mail : SndMbfWait(t, o, m, timed)
               \/ RcvMbfWait(t, o, timed)
  BY DEF MbfNext
<1>2. ASSUME NEW a \in MbfAtr, NEW n \in MbfSz, CreMbf(o, a, n) PROVE RingInv'
  <2>1. n \in Nat BY MessageBufferAssumption
  <2>2. o \notin objs /\ objs' = objs \cup {o} BY <1>2 DEF CreMbf, Create
  <2>3. Void(mbfsz[o], getp[o], mail[o]) BY <2>2 DEF RingInv
  <2>4. putp[o] = 0
    <3>1. Ring(o, mbfsz[o], frsz[o], putp[o], getp[o], mbf[o], mail[o]) BY DEF RingInv
    <3>2. putp[o] = Walk(0, 0, Taking(o, <<>>, 0)) BY <2>3, <3>1 DEF Ring, Void
    <3>3. <<>> \in Seq(Mail) OBVIOUS
    <3>4. Taking(o, <<>>, 0) = 0 BY <3>3, TakingFacts
    <3> QED BY <3>2, <3>4 DEF Walk
  <2>5. PICK c : c = [i \in 0..(n - 1) |-> NONE] OBVIOUS
  <2>6. Ring(o, n, n, 0, 0, c, <<>>) BY <2>1, <2>5, RingEmpty
  <2>7. /\ mbfsz' = [mbfsz EXCEPT ![o] = n] /\ frsz' = [frsz EXCEPT ![o] = n]
        /\ mbf' = [mbf EXCEPT ![o] = c]
    BY <1>2, <2>5 DEF CreMbf
  <2>8. /\ putp' = [putp EXCEPT ![o] = 0] /\ getp' = [getp EXCEPT ![o] = 0]
        /\ mail' = [mail EXCEPT ![o] = <<>>] /\ mcnt' = [mcnt EXCEPT ![o] = Len(<<>>)]
    <3>1. UNCHANGED <<putp, getp, mcnt, mail>> BY <1>2 DEF CreMbf
    <3>2. getp[o] = 0 /\ mail[o] = <<>> BY <2>3 DEF Void
    <3>3. mcnt[o] = Len(<<>>) BY <3>2 DEF RingInv
    <3> QED BY <2>4, <3>1, <3>2, <3>3 DEF RingInv
  <2> QED BY <2>2, <2>6, <2>7, <2>8, OneRing
<1>3. CASE DelMbf(o)
  <2>1. objs' = objs \ {o} BY <1>3 DEF DelMbf, Delete
  <2>2. DOMAIN <<>> = 0..(0 - 1) OBVIOUS
  <2>3. Ring(o, 0, 0, 0, 0, <<>>, <<>>) BY <2>2, RingEmpty
  <2>4. Void(0, 0, <<>>) /\ Len(<<>>) = 0 BY DEF Void
  <2>5. /\ mbfsz' = [mbfsz EXCEPT ![o] = 0] /\ frsz' = [frsz EXCEPT ![o] = 0]
        /\ putp' = [putp EXCEPT ![o] = 0] /\ getp' = [getp EXCEPT ![o] = 0]
        /\ mbf' = [mbf EXCEPT ![o] = <<>>] /\ mail' = [mail EXCEPT ![o] = <<>>]
        /\ mcnt' = [mcnt EXCEPT ![o] = Len(<<>>)]
    BY <1>3, <2>4 DEF DelMbf
  <2> QED BY <2>1, <2>3, <2>4, <2>5, OneRing
<1>4. CASE RcvMbf(o)
  <2>1. CASE frsz[o] # mbfsz[o] BY <1>4, <2>1, GetMbfKeeps
  <2>2. CASE frsz[o] = mbfsz[o]
    <3>1. UNCHANGED mbfvars /\ objs' = objs BY <1>4, <2>2 DEF RcvMbf
    <3> QED BY <3>1, RingsUntouched
  <2> QED BY <2>1, <2>2
<1>5. ASSUME NEW m \in Mail, SndMbf(o, m) PROVE RingInv'
  <2>1. objs' = objs /\ o \in objs /\ m \in Fitting(o) BY <1>5 DEF SndMbf, steady, Fitting
  <2>2. CASE UNCHANGED mbfvars BY <2>1, <2>2, RingsUntouched
  <2>3. CASE Fit(o, m) /\ PutMbf(o, m) BY <2>1, <2>3, PutMbfKeeps
  <2> QED BY <1>5, <2>2, <2>3 DEF SndMbf
<1>6. ASSUME NEW t \in Task, NEW timed \in BOOLEAN, NEW m \in Mail, SndMbfWait(t, o, m, timed)
      PROVE  RingInv'
  <2>1. UNCHANGED mbfvars /\ objs' = objs BY <1>6 DEF SndMbfWait, steady
  <2> QED BY <2>1, RingsUntouched
<1>7. ASSUME NEW t \in Task, NEW timed \in BOOLEAN, RcvMbfWait(t, o, timed) PROVE RingInv'
  <2>1. UNCHANGED mbfvars /\ objs' = objs BY <1>7 DEF RcvMbfWait, steady
  <2> QED BY <2>1, RingsUntouched
<1> QED BY <1>1, <1>2, <1>3, <1>4, <1>5, <1>6, <1>7

(* LEMMA: the kernel puts the message of the first sender that waits. *)
LEMMA ChkMbfKeeps ==
    ASSUME RingInv, Linked, Asking, NEW o \in Mbf, ChkMbf(o)
    PROVE  RingInv'
<1>1. o \in objs /\ objs' = objs BY DEF ChkMbf
<1>2. CASE sque[o] # <<>> /\ Fit(o, par[Head(sque[o])]) /\ PutMbf(o, par[Head(sque[o])])
  <2>1. o \in Obj BY KindsApart
  <2>2. Head(sque[o]) \in Task /\ InSque(Head(sque[o]), o) BY <1>2, <2>1, HeadFacts
  <2>3. wsts[Head(sque[o])] = "SMBF" BY <2>1, <2>2, KindFacts DEF InSque
  <2>4. par[Head(sque[o])] \in Fitting(o)
    BY <2>2, <2>3 DEF Asking, Asks, InSque, Fitting
  <2> QED BY <1>1, <1>2, <2>4, PutMbfKeeps
<1>3. CASE UNCHANGED mbfvars BY <1>1, <1>3, RingsUntouched
<1> QED BY <1>2, <1>3 DEF ChkMbf

(* LEMMA: no other step deletes a message buffer. *)
LEMMA OthersDeleteNone ==
    ASSUME TaskNext \/ SemNext \/ FlgNext \/ DtqNext \/ MbxNext \/ PorNext
             \/ MpfNext \/ MplNext \/ Serving
    PROVE  objs \cap Mbf \subseteq objs'
<1>1. CASE TaskNext BY <1>1 DEF TaskNext, TimeOut, RelWai, TerTsk, ChgPri
<1>2. CASE FlgNext
  BY <1>2, KindsApart DEF FlgNext, CreFlg, DelFlg, SetFlg, ClrFlg, WaiFlg, WaiFlgWait,
     Create, Delete, steady
<1>3. CASE DtqNext
  BY <1>3, KindsApart DEF DtqNext, CreDtq, DelDtq, SndDtq, SndDtqWait, RcvDtq, RcvDtqWait,
     Create, Delete, steady
<1>4. CASE MbxNext
  BY <1>4, KindsApart DEF MbxNext, CreMbx, DelMbx, SndMbx, RcvMbx, RcvMbxWait,
     Create, Delete, steady
<1>5. CASE MpfNext
  BY <1>5, KindsApart DEF MpfNext, CreMpf, DelMpf, GetMpf, RelMpf, GetMpfWait,
     Create, Delete, steady
<1>6. CASE PorNext
  <2>1. ASSUME NEW o, NEW c, NEW ptn, NEW n, NEW timed,
               \/ CalPor(c, o, ptn, timed) \/ CalPorWait(c, o, ptn, n, timed)
               \/ AcpPor(o, ptn) \/ AcpPorWait(c, o, ptn, timed)
               \/ FwdPor(c, o, ptn, n) \/ FwdPorWait(c, o, ptn, n)
               \/ RplRdv(c, n)
        PROVE  objs' = objs
    <3>1. CASE CalPor(c, o, ptn, timed) BY <3>1 DEF CalPor, steady
    <3>2. CASE CalPorWait(c, o, ptn, n, timed) BY <3>2 DEF CalPorWait, steady
    <3>3. CASE AcpPor(o, ptn) BY <3>3 DEF AcpPor, steady
    <3>4. CASE AcpPorWait(c, o, ptn, timed) BY <3>4 DEF AcpPorWait, steady
    <3>5. CASE FwdPor(c, o, ptn, n) BY <3>5 DEF FwdPor, steady
    <3>6. CASE FwdPorWait(c, o, ptn, n) BY <3>6 DEF FwdPorWait, steady
    <3>7. CASE RplRdv(c, n) BY <3>7 DEF RplRdv, steady
    <3> QED BY <2>1, <3>1, <3>2, <3>3, <3>4, <3>5, <3>6, <3>7
  <2>2. ASSUME NEW o \in Por, (\E a : CrePor(o, a)) \/ DelPor(o)
        PROVE  objs \cap Mbf \subseteq objs'
    BY <2>2, KindsApart DEF CrePor, DelPor, Create, Delete
  <2> QED BY <1>6, <2>1, <2>2 DEF PorNext
<1>7. CASE MplNext
  <2>1. ASSUME NEW o \in Mpl, (\E a, n : CreMpl(o, a, n)) \/ DelMpl(o)
        PROVE  objs \cap Mbf \subseteq objs'
    BY <2>1, KindsApart DEF CreMpl, DelMpl, Create, Delete
  <2>2. ASSUME NEW o, NEW t, NEW n, NEW timed,
               \/ GetMpl(o, n) \/ GetMplWait(t, o, n, timed) \/ RelMpl(o, n) \/ LookMpl(t)
        PROVE  objs' = objs
    BY <2>2 DEF GetMpl, GetMplWait, RelMpl, LookMpl, steady
  <2> QED BY <1>7, <2>1, <2>2 DEF MplNext
<1>8. CASE Serving BY <1>8 DEF Serving, ChkMpl, ChkMbf
<1>9. CASE SemNext
  BY <1>9, KindsApart DEF SemNext, CreSem, DelSem, WaiSem, WaiSemWait, SigSem,
     Create, Delete, steady
<1> QED BY <1>1, <1>2, <1>3, <1>4, <1>5, <1>6, <1>7, <1>8, <1>9

(* LEMMA: at first there is no ring. *)
LEMMA RingInit ==
    ASSUME Init
    PROVE  RingInv
<1>1. MbfInit BY DEF Init
<1>2. ASSUME NEW o \in Mbf
      PROVE  /\ Ring(o, mbfsz[o], frsz[o], putp[o], getp[o], mbf[o], mail[o])
             /\ mcnt[o] = Len(mail[o]) /\ Void(mbfsz[o], getp[o], mail[o])
  <2>1. /\ mbfsz[o] = 0 /\ frsz[o] = 0 /\ putp[o] = 0 /\ getp[o] = 0 /\ mcnt[o] = 0
        /\ mbf[o] = <<>> /\ mail[o] = <<>>
    BY <1>1 DEF MbfInit
  <2>2. DOMAIN <<>> = 0..(0 - 1) /\ Len(<<>>) = 0 OBVIOUS
  <2>3. Ring(o, 0, 0, 0, 0, <<>>, <<>>) BY <2>2, RingEmpty
  <2> QED BY <2>1, <2>2, <2>3 DEF Void
<1>3. /\ mbfsz \in [Mbf -> Nat] /\ frsz \in [Mbf -> Nat] /\ putp \in [Mbf -> Nat]
      /\ getp \in [Mbf -> Nat] /\ mcnt \in [Mbf -> Nat] /\ DOMAIN mbf = Mbf
      /\ mail \in [Mbf -> Seq(Mail)]
  BY <1>1 DEF MbfInit
<1> QED BY <1>2, <1>3 DEF RingInv

(* LEMMA: every step keeps the rings. *)
LEMMA RingStep ==
    ASSUME Linked, Asking, RingInv, [Next]_vars
    PROVE  RingInv'
<1>1. CASE UNCHANGED apart
  <2>1. UNCHANGED mbfvars /\ objs' = objs BY <1>1 DEF apart, wvars, steady
  <2> QED BY <2>1, RingsUntouched
<1>2. CASE MbfNext BY <1>2, MbfNextKeeps
<1>3. CASE /\ UNCHANGED mbfvars
           /\ TaskNext \/ SemNext \/ FlgNext \/ DtqNext \/ MbxNext \/ PorNext
                \/ MpfNext \/ MplNext
  BY <1>3, RingsUntouched, OthersDeleteNone
<1>4. CASE Serving
  <2>1. CASE \E o \in Mbf : ChkMbf(o) BY <2>1, ChkMbfKeeps
  <2>2. CASE UNCHANGED mbfvars BY <1>4, <2>2, RingsUntouched, OthersDeleteNone
  <2> QED BY <1>4, <2>1, <2>2 DEF Serving
<1> QED BY <1>1, <1>2, <1>3, <1>4, StepCases DEF Service

(* THEOREM: reading the ring of a message buffer from the place to get     *)
(* from gives the messages that were put and not received, in their order, *)
(* each whole and with its length, also across the end of the ring; and    *)
(* what they take and what is free is all there is.                        *)
THEOREM RingAlwaysHolds ==
    ASSUME FwdPri = FALSE
    PROVE  Spec => []RingHolds
<1>1. Init => Steady /\ Linked /\ Asking /\ RingInv BY WaitsInit, RingInit
<1>2. Steady /\ Linked /\ Asking /\ RingInv /\ [Next]_vars
         => Steady' /\ Linked' /\ Asking' /\ RingInv'
  BY WaitsStep, RingStep
<1>3. RingInv => RingHolds
  <2> SUFFICES ASSUME RingInv, NEW o \in objs \cap Mbf
               PROVE  /\ frsz[o] + Taking(o, mail[o], Len(mail[o])) = mbfsz[o]
                      /\ mail[o] # <<>> =>
                            putp[o] = Along(o, getp[o], Taking(o, mail[o], Len(mail[o])))
                      /\ \A k \in 1..Len(mail[o]) : \A i \in 0..(Space(o, mail[o][k]) - 1) :
                            mbf[o][Along(o, getp[o], Taking(o, mail[o], k - 1) + i)] =
                               IF i < Header(o) THEN MailSz[mail[o][k]] ELSE mail[o][k]
    BY DEF RingHolds
  <2>1. Ring(o, mbfsz[o], frsz[o], putp[o], getp[o], mbf[o], mail[o]) BY DEF RingInv
  <2>2. \A p, n : Along(o, p, n) = Walk(mbfsz[o], p, n) BY DEF Along, Walk
  <2> QED BY <2>1, <2>2 DEF Ring
<1> QED BY <1>1, <1>2, <1>3, PTL DEF Spec

-----------------------------------------------------------------------------
(* NOBODY WAITS FOR MEMORY THAT IS THERE                                   *)

(* Somebody has to look at the tasks that wait for o, or should have.      *)
Pending(o) == o \in owed \/ chk = o \/ \E t \in Task : post[t] = o

(* What the first task that waits for o asks for is there. *)
Room(o, p) == IF o \in Mpl THEN Fits(o, p) ELSE Fit(o, p)
LookedAt(o) == sque[o] # <<>> /\ Room(o, par[Head(sque[o])]) => Pending(o)

(* Who has to look at a pool does not wait meanwhile. *)
Posted == \A t \in Task : post[t] # NONE => wsts[t] = NONE /\ post[t] \in Mpl
Looked == \A o \in objs \cap (Mpl \cup Mbf) : LookedAt(o)

(* A step after which nothing new can be said of those who wait for o: they *)
(* are the same and ask for the same; or at least the first of them does,   *)
(* if there is one.                                                         *)
SameQueue(o) == sque'[o] = sque[o] /\ \A t \in Task : InSque(t, o) => par'[t] = par[t]
SameFirst(o) == sque'[o] # <<>> =>
    /\ sque[o] # <<>> /\ Head(sque'[o]) = Head(sque[o])
    /\ par'[Head(sque[o])] = par[Head(sque[o])]
Calm(o)  == SameQueue(o) /\ (o \in objs' <=> o \in objs)
Still(o) == Calm(o) /\ (Pending(o) => Pending(o)')
StillFirst(o) == SameFirst(o) /\ (o \in objs' => o \in objs) /\ (Pending(o) => Pending(o)')

LEMMA QueueFirst ==
    ASSUME Linked, NEW o \in Obj, SameQueue(o)
    PROVE  SameFirst(o)
<1>1. sque[o] # <<>> => Head(sque[o]) \in Task /\ InSque(Head(sque[o]), o) BY HeadFacts
<1> QED BY <1>1 DEF SameQueue, SameFirst

(* LEMMA: what was looked at needs no new look then, unless memory became  *)
(* free.                                                                   *)
LEMMA StillLooked ==
    ASSUME Linked, Looked, NEW o \in Mpl \cup Mbf, o \in objs', Still(o) \/ StillFirst(o),
           \A p \in {par[Head(sque[o])]} : Room(o, p)' => Room(o, p)
    PROVE  LookedAt(o)'
<1> SUFFICES ASSUME sque'[o] # <<>>, Room(o, par[Head(sque[o])])'
             PROVE  Pending(o)'
  BY DEF LookedAt
<1>1. /\ sque[o] # <<>> /\ Head(sque'[o]) = Head(sque[o])
      /\ par'[Head(sque[o])] = par[Head(sque[o])]
  <2>1. o \in Obj BY KindsApart
  <2> QED BY <2>1, QueueFirst DEF Still, StillFirst, Calm, SameFirst
<1>2. PICK p : p = par[Head(sque[o])] OBVIOUS
<1>3. Room(o, p)' BY <1>1, <1>2 DEF Room, Fits, Fit
<1>4. Room(o, p) BY <1>2, <1>3
<1>5. Pending(o) BY <1>1, <1>2, <1>4 DEF Looked, LookedAt, Still, StillFirst, Calm
<1> QED BY <1>5 DEF Still, StillFirst

(* LEMMA: the first task stays if it is not released. *)
LEMMA ReleaseSame ==
    ASSUME Linked, NEW ts, NEW deq \in SUBSET ts, NEW off, Release(ts, deq, off),
           NEW o \in Obj, sque[o] # <<>> => Head(sque[o]) \notin ts
    PROVE  SameFirst(o)
<1>1. sque[o] \in Seq(Task) /\ sque'[o] = Keep(sque[o], Task \ deq)
  BY DEF Linked, Typed, Release, Without
<1>2. CASE sque[o] = <<>>
  <2>1. ToSet(<<>>) \subseteq Task \ deq BY <1>1, <1>2, ToSetFacts
  <2>2. sque'[o] = <<>> BY <1>1, <1>2, <2>1, KeepEnds
  <2> QED BY <2>2 DEF SameFirst
<1>3. CASE sque[o] # <<>>
  <2>1. Head(sque[o]) \in Task /\ Head(sque[o]) \notin ts BY <1>3, HeadFacts
  <2>2. Head(sque[o]) \in Task \ deq BY <2>1
  <2>3. Head(sque'[o]) = Head(sque[o]) BY <1>1, <1>3, <2>2, KeepEnds
  <2>4. par'[Head(sque[o])] = par[Head(sque[o])] BY <2>1 DEF Release
  <2> QED BY <1>3, <2>3, <2>4 DEF SameFirst
<1> QED BY <1>2, <1>3

(* LEMMA: a queue of which no task is released stays as it is. *)
LEMMA ReleaseAside ==
    ASSUME Linked, NEW ts, NEW deq \in SUBSET ts, NEW off, Release(ts, deq, off),
           NEW o \in Obj, \A t \in Task : InSque(t, o) => t \notin ts
    PROVE  SameQueue(o)
<1>1. sque[o] \in Seq(Task) /\ sque'[o] = Keep(sque[o], Task \ deq)
  BY DEF Linked, Typed, Release, Without
<1>2. ToSet(sque[o]) \subseteq Task \ deq
  <2>1. ToSet(sque[o]) \subseteq Task BY <1>1, ToSetFacts
  <2> QED BY <2>1 DEF Linked, Queued
<1>3. sque'[o] = sque[o] BY <1>1, <1>2, KeepEnds
<1>4. \A t \in Task : InSque(t, o) => par'[t] = par[t] BY DEF Release
<1> QED BY <1>3, <1>4 DEF SameQueue

(* LEMMA: so does one that a task does not join. *)
LEMMA BlockSame ==
    ASSUME Linked, NEW t \in Task, "RDY" \in msts[t], NEW x, NEW why, NEW p, NEW timed,
           Block(t, x, why, p, timed), NEW o \in Obj, o # x \/ why \in QueWaits
    PROVE  SameQueue(o)
<1>1. ~InSque(t, o) /\ DOMAIN par = Task /\ DOMAIN sque = Obj
  BY ReadyFacts DEF Linked, Typed, InSque, InQueue
<1>2. why \in QueWaits => why \notin SqueWaits BY DEF QueWaits, SqueWaits
<1>3. sque'[o] = sque[o] BY <1>1, <1>2 DEF Block
<1>4. \A u \in Task : InSque(u, o) => par'[u] = par[u] BY <1>1 DEF Block
<1> QED BY <1>3, <1>4 DEF SameQueue

(* LEMMA: and when nothing happens to a wait. *)
LEMMA QuietSame ==
    ASSUME UNCHANGED waiting
    PROVE  \A o : SameQueue(o)
BY DEF waiting, SameQueue

(* LEMMA: the tasks of one queue that are woken are not those of another.  *)
LEMMA WakeSame ==
    ASSUME Linked, NEW x \in Obj, NEW ts, ts \subseteq ToSet(que[x]) \cup ToSet(sque[x]),
           Wake(ts), NEW o \in Obj, o # x \/ ts \subseteq ToSet(que[x])
    PROVE  SameQueue(o)
<1>1. Release(ts, ts, Timed(ts)) /\ ts \in SUBSET ts BY DEF Wake
<1>2. \A t \in Task : t \in ts => InQue(t, x) \/ (o # x /\ InSque(t, x))
  BY DEF Linked, Queued
<1>3. \A t \in Task : InSque(t, o) => t \notin ts
  BY <1>2 DEF InQue, InSque, QueWaits, SqueWaits
<1> QED BY <1>1, <1>3, ReleaseAside

LEMMA WakeHeadSame ==
    ASSUME Linked, NEW x \in Obj, NEW o \in Obj,
           \/ que[x] # <<>> /\ Wake({Head(que[x])})
           \/ o # x /\ sque[x] # <<>> /\ Wake({Head(sque[x])})
    PROVE  SameQueue(o)
<1>1. CASE que[x] # <<>> /\ Wake({Head(que[x])})
  <2>1. que[x] \in Seq(Task) BY DEF Linked, Typed
  <2>2. {Head(que[x])} \subseteq ToSet(que[x]) BY <1>1, <2>1, TailOnce
  <2>3. {Head(que[x])} \subseteq ToSet(que[x]) \cup ToSet(sque[x]) BY <2>2
  <2> QED BY <1>1, <2>2, <2>3, WakeSame
<1>2. CASE o # x /\ sque[x] # <<>> /\ Wake({Head(sque[x])})
  <2>1. sque[x] \in Seq(Task) BY DEF Linked, Typed
  <2>2. {Head(sque[x])} \subseteq ToSet(que[x]) \cup ToSet(sque[x]) BY <1>2, <2>1, TailOnce
  <2> QED BY <1>2, <2>2, WakeSame
<1> QED BY <1>1, <1>2

(* LEMMA: the first of those who wait for a pool or a buffer. *)
LEMMA FirstAsks ==
    ASSUME Linked, Asking, NEW o \in Mpl \cup Mbf, sque[o] # <<>>
    PROVE  /\ Head(sque[o]) \in Task /\ wobj[Head(sque[o])] = o
           /\ InSque(Head(sque[o]), o) /\ Waits(Head(sque[o]))
           /\ o \in Mpl => wsts[Head(sque[o])] = "MPL" /\ par[Head(sque[o])] \in BlkSz
           /\ o \in Mbf => wsts[Head(sque[o])] = "SMBF" /\ par[Head(sque[o])] \in Mail
<1>1. o \in Obj BY KindsApart
<1>2. Head(sque[o]) \in Task /\ InSque(Head(sque[o]), o) BY <1>1, HeadFacts
<1>3. wobj[Head(sque[o])] = o /\ wsts[Head(sque[o])] # NONE
  BY <1>2, KindsApart DEF InSque
<1>4. Waits(Head(sque[o])) BY <1>2, <1>3 DEF Linked, Flagged, Waits
<1>5. /\ o \in Mpl => wsts[Head(sque[o])] = "MPL"
      /\ o \in Mbf => wsts[Head(sque[o])] = "SMBF"
  BY <1>1, <1>2, KindFacts
<1> QED BY <1>2, <1>3, <1>4, <1>5 DEF Asking, Asks

(* LEMMA: other objects are created, deleted and waited for.              *)
LEMMA CreateStill ==
    ASSUME NEW x, NEW a, Create(x, a), NEW o, o # x
    PROVE  Still(o)
<1>1. SameQueue(o) BY QuietSame DEF Create
<1> QED BY <1>1 DEF Create, Still, Calm, Pending

LEMMA DeleteStill ==
    ASSUME Linked, NEW x \in Obj, Delete(x), NEW o \in Obj, o # x
    PROVE  Still(o)
<1>1. Members(que[x]) \cup Members(sque[x]) \subseteq ToSet(que[x]) \cup ToSet(sque[x])
  BY HeadFacts
<1>2. SameQueue(o) BY <1>1, WakeSame DEF Delete
<1> QED BY <1>2 DEF Delete, Still, Calm, Pending

(* LEMMA: a service that creates and deletes nothing owes nobody a look.   *)
LEMMA SteadyStill ==
    ASSUME NEW o, SameQueue(o), UNCHANGED steady
    PROVE  Still(o)
BY DEF Still, Calm, Pending, steady

LEMMA WaitStill ==
    ASSUME Linked, NEW t \in Task, Ready(t), NEW x, NEW why, NEW p, NEW timed,
           Block(t, x, why, p, timed), NEW o \in Obj, o # x \/ why \in QueWaits,
           UNCHANGED steady
    PROVE  Still(o)
<1>1. SameQueue(o) BY BlockSame DEF Ready
<1> QED BY <1>1, SteadyStill

LEMMA QuietStill ==
    ASSUME UNCHANGED <<waiting, steady>>, NEW o
    PROVE  Still(o)
BY QuietSame, SteadyStill

LEMMA WakeStill ==
    ASSUME Linked, NEW x \in Obj, NEW o \in Obj, UNCHANGED steady,
           \/ UNCHANGED waiting
           \/ que[x] # <<>> /\ Wake({Head(que[x])})
           \/ o # x /\ sque[x] # <<>> /\ Wake({Head(sque[x])})
    PROVE  Still(o)
BY QuietSame, WakeHeadSame, SteadyStill

(* LEMMA: the services of one object leave those who wait for another      *)
(* alone.                                                                  *)
LEMMA SemStill ==
    ASSUME Linked, SemNext, NEW o \in Obj \ Sem
    PROVE  Still(o)
<1>1. PICK x \in Sem \cap ids :
         \/ \E a \in SemAtr, n \in 0..MaxSem[x] : CreSem(x, a, n)
         \/ DelSem(x) \/ WaiSem(x) \/ SigSem(x)
         \/ \E t \in Task, timed \in BOOLEAN : WaiSemWait(t, x, timed)
  BY DEF SemNext
<1>2. x \in Obj /\ o \in Obj /\ o # x BY KindsApart
<1>3. ASSUME NEW a, NEW n, CreSem(x, a, n) PROVE Still(o)
  BY <1>2, <1>3, CreateStill DEF CreSem
<1>4. CASE DelSem(x) BY <1>2, <1>4, DeleteStill DEF DelSem
<1>5. CASE WaiSem(x) \/ SigSem(x)
  <2>1. UNCHANGED steady BY <1>5 DEF WaiSem, SigSem
  <2>2. UNCHANGED waiting \/ (sque[x] # <<>> /\ Wake({Head(sque[x])})) BY <1>5 DEF WaiSem, SigSem
  <2> QED BY <1>2, <2>1, <2>2, WakeStill
<1>6. ASSUME NEW t \in Task, NEW timed, WaiSemWait(t, x, timed)
      PROVE  Still(o)
  BY <1>2, <1>6, WaitStill DEF WaiSemWait
<1> QED BY <1>1, <1>3, <1>4, <1>5, <1>6

LEMMA FlgStill ==
    ASSUME Linked, FlgNext, NEW o \in Obj \ Flg
    PROVE  Still(o)
<1>1. PICK x \in Flg \cap ids :
         \/ \E a \in FlgAtr, p \in SUBSET Bit : CreFlg(x, a, p)
         \/ DelFlg(x)
         \/ \E p \in SUBSET Bit : SetFlg(x, p) \/ ClrFlg(x, p)
         \/ \E w \in Wish :
               \/ WaiFlg(x, w)
               \/ \E t \in Task, timed \in BOOLEAN : WaiFlgWait(t, x, w, timed)
  BY DEF FlgNext
<1>2. x \in Obj /\ o \in Obj /\ o # x BY KindsApart
<1>3. ASSUME NEW a, NEW p, CreFlg(x, a, p) PROVE Still(o)
  BY <1>2, <1>3, CreateStill DEF CreFlg
<1>4. CASE DelFlg(x) BY <1>2, <1>4, DeleteStill DEF DelFlg
<1>5. ASSUME NEW p, SetFlg(x, p) PROVE Still(o)
  <2>1. PICK done : done = Served(x, flgptn[x] \cup p) OBVIOUS
  <2>2. Wake({sque[x][i] : i \in done}) /\ UNCHANGED steady BY <1>5, <2>1 DEF SetFlg
  <2>3. done \subseteq 1..Len(sque[x]) BY <2>1 DEF Served, ServedFirst
  <2>4. sque[x] \in Seq(Task) BY <1>2 DEF Linked, Typed
  <2>5. PICK ts : ts = {sque[x][i] : i \in done} OBVIOUS
  <2>6. Wake(ts) /\ ts \subseteq ToSet(que[x]) \cup ToSet(sque[x])
    BY <2>2, <2>3, <2>4, <2>5, ToSetFacts
  <2>7. SameQueue(o) BY <1>2, <2>6, WakeSame
  <2> QED BY <2>2, <2>7, SteadyStill
<1>6. ASSUME NEW p, ClrFlg(x, p) \/ WaiFlg(x, p) PROVE Still(o)
  BY <1>6, QuietStill DEF ClrFlg, WaiFlg
<1>7. ASSUME NEW t \in Task, NEW timed, NEW w, WaiFlgWait(t, x, w, timed)
      PROVE  Still(o)
  BY <1>2, <1>7, WaitStill DEF WaiFlgWait
<1> QED BY <1>1, <1>3, <1>4, <1>5, <1>6, <1>7

DtqService(x) ==
    \/ \E a \in DtqAtr, n \in DtqCnt : CreDtq(x, a, n)
    \/ DelDtq(x) \/ RcvDtq(x)
    \/ \E v \in Data, f \in BOOLEAN : SndDtq(x, v, f)
    \/ \E t \in Task, timed \in BOOLEAN :
          \/ \E v \in Data : SndDtqWait(t, x, v, timed)
          \/ RcvDtqWait(t, x, timed)

LEMMA DtqStill ==
    ASSUME Linked, NEW x \in Dtq, DtqService(x), NEW o \in Obj \ {x}
    PROVE  Still(o)
<1>1. \/ \E a \in DtqAtr, n \in DtqCnt : CreDtq(x, a, n)
      \/ DelDtq(x) \/ RcvDtq(x)
      \/ \E v \in Data, f \in BOOLEAN : SndDtq(x, v, f)
      \/ \E t \in Task, timed \in BOOLEAN :
            \/ \E v \in Data : SndDtqWait(t, x, v, timed)
            \/ RcvDtqWait(t, x, timed)
  BY DEF DtqService
<1>2. x \in Obj /\ o \in Obj /\ o # x BY KindsApart
<1>3. ASSUME NEW a, NEW n, CreDtq(x, a, n) PROVE Still(o)
  BY <1>2, <1>3, CreateStill DEF CreDtq
<1>4. CASE DelDtq(x) BY <1>2, <1>4, DeleteStill DEF DelDtq
<1>5. ASSUME RcvDtq(x) \/ \E v, f : SndDtq(x, v, f) PROVE Still(o)
  <2>1. /\ UNCHANGED steady
        /\ \/ UNCHANGED waiting
           \/ que[x] # <<>> /\ Wake({Head(que[x])})
           \/ sque[x] # <<>> /\ Wake({Head(sque[x])})
    BY <1>5 DEF RcvDtq, SndDtq
  <2> QED BY <1>2, <2>1, WakeStill
<1>6. ASSUME NEW t \in Task, NEW timed, NEW v,
             SndDtqWait(t, x, v, timed) \/ RcvDtqWait(t, x, timed)
      PROVE  Still(o)
  BY <1>2, <1>6, WaitStill DEF SndDtqWait, RcvDtqWait
<1> QED BY <1>1, <1>3, <1>4, <1>5, <1>6

LEMMA MbxStill ==
    ASSUME Linked, MbxNext, NEW o \in Obj \ Mbx
    PROVE  Still(o)
<1>1. PICK x \in Mbx \cap ids :
         \/ \E a \in MbxAtr : CreMbx(x, a)
         \/ DelMbx(x) \/ RcvMbx(x)
         \/ \E m \in Msg : SndMbx(x, m)
         \/ \E t \in Task, timed \in BOOLEAN : RcvMbxWait(t, x, timed)
  BY DEF MbxNext
<1>2. x \in Obj /\ o \in Obj /\ o # x BY KindsApart
<1>3. ASSUME NEW a, CreMbx(x, a) PROVE Still(o)
  BY <1>2, <1>3, CreateStill DEF CreMbx
<1>4. CASE DelMbx(x) BY <1>2, <1>4, DeleteStill DEF DelMbx
<1>5. CASE RcvMbx(x) BY <1>5, QuietStill DEF RcvMbx
<1>6. ASSUME NEW m, SndMbx(x, m) PROVE Still(o)
  <2>1. UNCHANGED steady BY <1>6 DEF SndMbx
  <2>2. UNCHANGED waiting \/ (sque[x] # <<>> /\ Wake({Head(sque[x])})) BY <1>6 DEF SndMbx
  <2> QED BY <1>2, <2>1, <2>2, WakeStill
<1>7. ASSUME NEW t \in Task, NEW timed, RcvMbxWait(t, x, timed)
      PROVE  Still(o)
  BY <1>2, <1>7, WaitStill DEF RcvMbxWait
<1> QED BY <1>1, <1>3, <1>4, <1>5, <1>6, <1>7

LEMMA MpfStill ==
    ASSUME Linked, MpfNext, NEW o \in Obj \ Mpf
    PROVE  Still(o)
<1>1. PICK x \in Mpf \cap ids :
         \/ \E a \in MpfAtr : CreMpf(x, a)
         \/ DelMpf(x) \/ GetMpf(x)
         \/ \E b \in lent[x] : RelMpf(x, b)
         \/ \E t \in Task, timed \in BOOLEAN : GetMpfWait(t, x, timed)
  BY DEF MpfNext
<1>2. x \in Obj /\ o \in Obj /\ o # x BY KindsApart
<1>3. ASSUME NEW a, CreMpf(x, a) PROVE Still(o)
  BY <1>2, <1>3, CreateStill DEF CreMpf
<1>4. CASE DelMpf(x) BY <1>2, <1>4, DeleteStill DEF DelMpf
<1>5. CASE GetMpf(x) BY <1>5, QuietStill DEF GetMpf
<1>6. ASSUME NEW b, RelMpf(x, b) PROVE Still(o)
  <2>1. UNCHANGED steady BY <1>6 DEF RelMpf
  <2>2. UNCHANGED waiting \/ (sque[x] # <<>> /\ Wake({Head(sque[x])})) BY <1>6 DEF RelMpf
  <2> QED BY <1>2, <2>1, <2>2, WakeStill
<1>7. ASSUME NEW t \in Task, NEW timed, GetMpfWait(t, x, timed)
      PROVE  Still(o)
  BY <1>2, <1>7, WaitStill DEF GetMpfWait
<1> QED BY <1>1, <1>3, <1>4, <1>5, <1>6, <1>7

(* LEMMA: in a rendezvous nobody moves in the queue of another object.     *)
LEMMA PorStill ==
    ASSUME Linked, PorNext, NEW o \in Obj \ Por
    PROVE  Still(o)
<1>1. o \in Obj /\ \A x \in Por : x \in Obj /\ o # x BY KindsApart
<1>2. DOMAIN par = Task /\ DOMAIN sque = Obj BY DEF Linked, Typed
<1>3. ASSUME NEW x \in Por, NEW a, CrePor(x, a) PROVE Still(o)
  BY <1>1, <1>3, CreateStill DEF CrePor
<1>4. ASSUME NEW x \in Por, DelPor(x) PROVE Still(o)
  BY <1>1, <1>4, DeleteStill DEF DelPor
<1>5. ASSUME NEW x \in Por, NEW p, AcpPor(x, p) PROVE Still(o)
  <2>1. PICK c \in Task :
           /\ First(sque[x], p, c) /\ sque' = Without(sque, {c})
           /\ par' = [par EXCEPT ![c].ptn = {}, ![c].p4 = MaxRmsz[x]]
    BY <1>5 DEF AcpPor
  <2>2. InSque(c, x) BY <1>1, <2>1, FirstFacts
  <2>3. c \notin ToSet(sque[o]) BY <1>1, <2>2 DEF Linked, Queued, InSque
  <2>4. sque[o] \in Seq(Task) /\ ToSet(sque[o]) \subseteq Task \ {c}
    BY <1>1, <2>3, ToSetFacts DEF Linked, Typed
  <2>5. sque'[o] = sque[o] BY <1>1, <2>1, <2>4, KeepEnds DEF Without
  <2>6. \A t \in Task \ {c} : par'[t] = par[t] BY <1>2, <2>1
  <2>7. \A t \in {c} : ~InSque(t, o) BY <1>1, <2>2 DEF InSque
  <2>8. SameQueue(o) BY <2>5, <2>6, <2>7 DEF SameQueue
  <2> QED BY <1>5, <2>8, SteadyStill DEF AcpPor
<1>6. ASSUME NEW x \in Por, NEW p, NEW t \in Task, NEW timed, CalPor(t, x, p, timed)
      PROVE  Still(o)
  <2>1. PICK a \in Task : /\ First(que[x], p, a)
                          /\ par' = [par EXCEPT ![a] = NONE, ![t] = Call(x, {}, MaxRmsz[x])]
    BY <1>6 DEF CalPor
  <2>2. InQue(a, x) BY <1>1, <2>1, FirstFacts
  <2>3. \A u \in Task \ {a, t} : par'[u] = par[u] BY <1>2, <2>1
  <2>4. sque'[o] = sque[o] /\ "RDY" \in msts[t] BY <1>6 DEF CalPor, Ready
  <2>5. ~InSque(t, o) BY <2>4, ReadyFacts DEF InSque, InQueue
  <2>6. \A u \in {a, t} : ~InSque(u, o) BY <2>2, <2>5 DEF InQue, InSque, QueWaits, SqueWaits
  <2>7. SameQueue(o) BY <2>3, <2>4, <2>6 DEF SameQueue
  <2> QED BY <1>6, <2>7, SteadyStill DEF CalPor
<1>7. ASSUME NEW x \in Por, NEW p, NEW t \in Task, NEW timed, AcpPorWait(t, x, p, timed)
      PROVE  Still(o)
  BY <1>1, <1>7, WaitStill DEF AcpPorWait
<1>8. ASSUME NEW x \in Por, NEW p, NEW t \in Task, NEW n, NEW timed, CalPorWait(t, x, p, n, timed)
      PROVE  Still(o)
  BY <1>1, <1>8, WaitStill DEF CalPorWait
<1>a. ASSUME NEW c \in Task, InRdv(c) PROVE ~InSque(c, o)
  BY <1>a, RdvFacts DEF InSque, InQueue
<1>9. ASSUME NEW x \in Por, NEW p, NEW c \in Task, NEW n, FwdPor(c, x, p, n)
      PROVE  Still(o)
  <2>1. PICK a \in Task : /\ First(que[x], p, a)
                          /\ par' = [par EXCEPT ![a] = NONE, ![c].p4 = MaxRmsz[x]]
    BY <1>9 DEF FwdPor
  <2>2. InQue(a, x) BY <1>1, <2>1, FirstFacts
  <2>3. \A u \in Task \ {a, c} : par'[u] = par[u] BY <1>2, <2>1
  <2>4. sque'[o] = sque[o] /\ InRdv(c) BY <1>9 DEF FwdPor, Forwardable
  <2>5. \A u \in {a, c} : ~InSque(u, o)
    BY <1>a, <2>2, <2>4 DEF InQue, InSque, QueWaits, SqueWaits
  <2>6. SameQueue(o) BY <2>3, <2>4, <2>5 DEF SameQueue
  <2> QED BY <1>9, <2>6, SteadyStill DEF FwdPor
<1>10. ASSUME NEW x \in Por, NEW p, NEW c \in Task, NEW n, FwdPorWait(c, x, p, n)
       PROVE  Still(o)
  <2>1. /\ par' = [par EXCEPT ![c].ptn = p, ![c].p4 = n] /\ InRdv(c)
        /\ \E q : sque' = [sque EXCEPT ![x] = q]
    BY <1>10 DEF FwdPorWait, Forwardable
  <2>2. \A u \in Task \ {c} : par'[u] = par[u] BY <1>2, <2>1
  <2>3. sque'[o] = sque[o] BY <1>1, <1>2, <2>1
  <2>4. \A u \in {c} : ~InSque(u, o) BY <1>a, <2>1
  <2>5. SameQueue(o) BY <2>2, <2>3, <2>4 DEF SameQueue
  <2> QED BY <1>10, <2>5, SteadyStill DEF FwdPorWait
<1>11. ASSUME NEW c \in Task, NEW n, RplRdv(c, n) PROVE Still(o)
  <2>1. Release({c}, {}, Timed({c})) /\ InRdv(c) BY <1>11 DEF RplRdv
  <2>2. \A u \in Task : InSque(u, o) => u \notin {c} BY <1>a, <2>1
  <2>3. {} \in SUBSET {c} OBVIOUS
  <2>4. SameQueue(o) BY <1>1, <2>1, <2>2, <2>3, ReleaseAside
  <2> QED BY <1>11, <2>4, SteadyStill DEF RplRdv
<1> QED BY <1>3, <1>4, <1>5, <1>6, <1>7, <1>8, <1>9, <1>10, <1>11 DEF PorNext

(* LEMMA: a timeout, rel_wai, ter_tsk and chg_pri see to it that somebody  *)
(* looks, or that it is known that nobody does.                            *)
LEMMA TaskStill ==
    ASSUME Steady, Linked, Asking, Posted, chk = NONE, TaskNext, NEW o \in Mpl \cup Mbf
    PROVE  /\ o \in objs' => o \in objs
           /\ (SameFirst(o) /\ (Pending(o) => Pending(o)')) \/ Pending(o)'
           /\ Posted'
<1>1. PICK t \in Task : \/ TimeOut(t) \/ RelWai(t) \/ TerTsk(t)
                        \/ \E p \in 1..MaxPri : ChgPri(t, p)
  BY DEF TaskNext
<1>2. o \in Obj BY KindsApart
<1>3. objs' = objs BY <1>1 DEF TimeOut, RelWai, TerTsk, ChgPri
<1>4. CASE TimeOut(t)
  <2>1. PICK deq \in SUBSET {t} : deq = (IF Waits(t) /\ wsts[t] # "RDV" THEN {t} ELSE {})
    OBVIOUS
  <2>2. Release({t}, deq, {t}) BY <1>4, <2>1 DEF TimeOut
  <2>3. post' = (IF wsts[t] = "MPL" THEN [post EXCEPT ![t] = wobj[t]] ELSE post)
    BY <1>4 DEF TimeOut
  <2>4. wsts[t] = "MPL" => post[t] = NONE /\ wobj[t] \in Mpl
    BY KindsApart DEF Posted, SqueWaits, Asking, Asks
  <2>5. DOMAIN post = Task BY DEF Steady
  <2>8. Posted'
    <3>1. \A u \in Task : u # t => post'[u] = post[u] /\ wsts'[u] = wsts[u]
      BY <2>2, <2>3, <2>5 DEF Release
    <3>2. wsts'[t] = NONE BY <2>2 DEF Release
    <3>3. post'[t] # NONE => post'[t] \in Mpl BY <2>3, <2>4, <2>5 DEF Posted
    <3> QED BY <3>1, <3>2, <3>3 DEF Posted
  <2>6. CASE sque[o] # <<>> /\ Head(sque[o]) = t
    <3>1. /\ wobj[t] = o
          /\ o \in Mpl => wsts[t] = "MPL"
          /\ o \in Mbf => wsts[t] = "SMBF"
      BY <2>6, FirstAsks
    <3>2. o \in Mpl => post'[t] = o BY <2>3, <2>5, <3>1
    <3>3. o \in Mbf => o \in owed' BY <1>2, <1>4, <2>6, <3>1 DEF TimeOut
    <3> QED BY <1>3, <2>8, <3>2, <3>3 DEF Pending
  <2>7. CASE ~(sque[o] # <<>> /\ Head(sque[o]) = t)
    <3>1. SameFirst(o) BY <1>2, <2>2, <2>7, ReleaseSame
    <3>2. chk' = chk /\ owed \subseteq owed' BY <1>4 DEF TimeOut
    <3>3. \A u \in Task : post[u] = o => post'[u] = o
      BY <1>2, <2>3, <2>4, <2>5, KindsApart
    <3> QED BY <1>3, <2>8, <3>1, <3>2, <3>3 DEF Pending
  <2> QED BY <2>6, <2>7
<1>5. CASE RelWai(t)
  <2>1. PICK deq \in SUBSET {t} : deq = (IF wsts[t] # "RDV" THEN {t} ELSE {})
    OBVIOUS
  <2>2. Release({t}, deq, Timed({t})) /\ UNCHANGED <<post, owed>> /\ LookAfter(t)
    BY <1>5, <2>1 DEF RelWai
  <2>5. Posted'
    <3>1. \A u \in Task : wsts'[u] \in {wsts[u], NONE} BY <2>2 DEF Release
    <3> QED BY <2>2, <3>1 DEF Posted
  <2>3. CASE sque[o] # <<>> /\ Head(sque[o]) = t
    <3>1. wobj[t] = o /\ wsts[t] \in {"MPL", "SMBF"} /\ Waits(t) BY <2>3, FirstAsks
    <3> QED BY <1>3, <2>2, <2>5, <3>1 DEF LookAfter, Pending
  <2>4. CASE ~(sque[o] # <<>> /\ Head(sque[o]) = t)
    <3>0. PICK off : Release({t}, deq, off) BY <2>2
    <3>a. sque[o] # <<>> => Head(sque[o]) \notin {t} BY <2>4
    <3>1. SameFirst(o) BY <1>2, <3>0, <3>a, ReleaseSame
    <3>2. Pending(o) => Pending(o)' BY <1>2, <2>2, KindsApart DEF Pending
    <3> QED BY <1>3, <2>5, <3>1, <3>2
  <2> QED BY <2>3, <2>4
<1>6. CASE TerTsk(t)
  <2>1. /\ post' = [post EXCEPT ![t] = NONE] /\ owed' = owed \cup {post[t]}
        /\ UNCHANGED <<waiting, chk>>
    BY <1>6 DEF TerTsk
  <2>2. SameFirst(o) BY <1>2, <2>1, QuietSame, QueueFirst
  <2>3. \A u \in Task : u # t => post'[u] = post[u] BY <2>1 DEF Steady
  <2>4. post'[t] = NONE BY <2>1 DEF Steady
  <2>5. Pending(o) => Pending(o)' BY <2>1, <2>3 DEF Pending
  <2>6. Posted' BY <2>1, <2>3, <2>4 DEF Posted, waiting
  <2> QED BY <1>3, <2>2, <2>5, <2>6
<1>7. ASSUME NEW p \in 1..MaxPri, ChgPri(t, p)
      PROVE  /\ (SameFirst(o) /\ (Pending(o) => Pending(o)')) \/ Pending(o)'
             /\ Posted'
  <2>1. UNCHANGED <<post, owed, wsts, par>> BY <1>7 DEF ChgPri
  <2>2. Posted' BY <2>1 DEF Posted
  <2>3. CASE ~(Waits(t) /\ "FIFO" \notin msts[t] /\ wsts[t] # "RDV")
    <3>1. UNCHANGED <<sque, chk>> BY <1>7, <2>3 DEF ChgPri
    <3> QED BY <2>1, <2>2, <3>1 DEF SameFirst, Pending
  <2>4. CASE Waits(t) /\ "FIFO" \notin msts[t] /\ wsts[t] # "RDV"
    <3>1. /\ LookAfter(t)
          /\ \E q : sque' = [Without(sque, {t}) EXCEPT ![wobj[t]] = q]
      BY <1>7, <2>4 DEF ChgPri
    <3>2. wsts[t] # NONE BY <2>4 DEF Linked, Flagged, Waits
    <3>3. wsts[t] \in SqueWaits BY <2>4, <3>2 DEF Linked, Typed, Flagged
    <3>4. CASE wobj[t] = o
      <4>1. InSque(t, o) BY <3>3, <3>4 DEF InSque
      <4>2. wsts[t] \in {"MPL", "SMBF"} BY <1>2, <4>1, KindFacts
      <4> QED BY <2>2, <2>4, <3>1, <3>4, <4>2 DEF LookAfter, Pending
    <3>5. CASE wobj[t] # o
      <4>1. t \notin ToSet(sque[o]) BY <1>2, <3>5 DEF Linked, Queued, InSque
      <4>2. sque[o] \in Seq(Task) /\ ToSet(sque[o]) \subseteq Task \ {t}
        BY <1>2, <4>1, ToSetFacts DEF Linked, Typed
      <4>3. Without(sque, {t})[o] = sque[o] BY <1>2, <4>2, KeepEnds DEF Without
      <4>4. sque'[o] = sque[o] BY <1>2, <3>1, <3>5, <4>3 DEF Without
      <4>5. Pending(o) => Pending(o)' BY <1>2, <2>1, KindsApart DEF Pending
      <4> QED BY <2>1, <2>2, <4>4, <4>5 DEF SameFirst
    <3> QED BY <3>4, <3>5
  <2> QED BY <2>3, <2>4
<1> QED BY <1>1, <1>3, <1>4, <1>5, <1>6, <1>7

(* LEMMA: the room in objects that are not touched, and the calls that     *)
(* have to look at a pool.                                                 *)
LEMMA RoomSame ==
    ASSUME NEW o \in Mpl \cup Mbf, o \in Mpl => mem'[o] = mem[o],
           o \in Mbf => frsz'[o] = frsz[o]
    PROVE  \A p : Room(o, p)' => Room(o, p)
BY DEF Room, Fits, Fit

LEMMA PostedKept ==
    ASSUME Posted, NEW W, Begins(W), \A t \in Task : post'[t] \in {post[t], NONE}
    PROVE  Posted'
BY DEF Posted, Begins, Stays

(* LEMMA: who begins to wait for memory does so in vain, or somebody has   *)
(* to look, or another task is the first.                                  *)
LEMMA JoinLooked ==
    ASSUME Steady, Linked, Looked, NEW o \in Mpl \cup Mbf, o \in objs, NEW t \in Task,
           "RDY" \in msts[t], NEW why \in SqueWaits, NEW p, NEW timed,
           Block(t, o, why, p, timed), UNCHANGED <<chk, post>>, owed \subseteq owed',
           \A u : Room(o, u)' => Room(o, u),
           Head(sque'[o]) = t /\ Room(o, p) => o \in owed'
    PROVE  LookedAt(o)'
<1>1. o \in Obj /\ DOMAIN par = Task /\ DOMAIN sque = Obj BY KindsApart DEF Linked, Typed
<1>2. PICK b \in BOOLEAN : b <=> "TPRI" \in atr[o] OBVIOUS
<1>3. PICK q \in Seq(Task) : q = sque[o] BY <1>1 DEF Linked, Typed
<1>4. sque'[o] = Enq(q, t, cpri, b) BY <1>1, <1>2, <1>3 DEF Block, Enq
<1>5. b => Ordered(q, cpri) BY <1>1, <1>2, <1>3 DEF Linked, Queued
<1>6. cpri \in [Task -> Nat] BY WaitingAssumption DEF Steady
<1>7. /\ q = <<>> => Head(sque'[o]) = t
      /\ q # <<>> => Head(sque'[o]) \in {t, Head(q)}
  BY <1>4, <1>5, <1>6, EnqFacts
<1> SUFFICES ASSUME Room(o, par[Head(sque[o])])' PROVE Pending(o)' BY DEF LookedAt
<1>8. CASE Head(sque'[o]) = t
  <2>1. par'[t] = p BY <1>1 DEF Block
  <2>2. PICK r : r = par'[Head(sque'[o])] OBVIOUS
  <2>3. r = p BY <1>8, <2>1, <2>2
  <2>4. Room(o, r)' BY <2>2 DEF Room, Fits, Fit
  <2>5. Room(o, p) BY <2>3, <2>4
  <2> QED BY <1>8, <2>5 DEF Pending
<1>9. CASE Head(sque'[o]) # t
  <2>1. q # <<>> /\ Head(sque'[o]) = Head(q) /\ Head(q) # t /\ Head(q) \in Task
    BY <1>7, <1>9, TailOnce
  <2>2. par'[Head(q)] = par[Head(q)] BY <1>1, <2>1 DEF Block
  <2>3. PICK r : r = par'[Head(sque'[o])] OBVIOUS
  <2>4. r = par[Head(sque[o])] /\ sque[o] # <<>> BY <1>3, <2>1, <2>2, <2>3
  <2>5. Room(o, r)' BY <2>3 DEF Room, Fits, Fit
  <2>6. Room(o, r) BY <2>5
  <2>7. Pending(o) BY <2>4, <2>6 DEF Looked, LookedAt
  <2> QED BY <2>7 DEF Pending
<1> QED BY <1>8, <1>9

(* LEMMA: nobody waits for what does not exist. *)
LEMMA NobodyWaitsYet ==
    ASSUME Linked, NEW o \in Obj, o \notin objs
    PROVE  que[o] = <<>> /\ sque[o] = <<>>
<1>1. \A t \in Task : ~InQue(t, o) /\ ~InSque(t, o)
  BY DEF Linked, Flagged, InQueue, InQue, InSque
<1> QED BY <1>1, NobodyWaits

(* LEMMA: variable-sized memory pools. *)
LEMMA MplLooked ==
    ASSUME Steady, Linked, Asking, Posted, Looked, chk = NONE, DOMAIN mem = Mpl,
           MplNext, UNCHANGED mbfvars
    PROVE  Looked' /\ Posted'
<1>1. \A o \in Mpl \cup Mbf : o \in Obj BY KindsApart
<1>a. \A o \in Mbf : frsz'[o] = frsz[o] BY DEF mbfvars
<1>b. ASSUME NEW x \in Mpl, NEW m, mem' = [mem EXCEPT ![x] = m],
             NEW o \in Mpl \cup Mbf, o # x
      PROVE  \A p : Room(o, p)' => Room(o, p)
  <2>1. o \in Mpl => mem'[o] = mem[o] BY <1>b
  <2> QED BY <1>a, <2>1, RoomSame
<1>2. ASSUME NEW x \in Mpl, NEW a \in MplAtr, NEW n, CreMpl(x, a, n) PROVE Looked' /\ Posted'
  <2>1. Create(x, a) /\ mem' = [mem EXCEPT ![x] = {[adr |-> 0, size |-> n]}]
    BY <1>2 DEF CreMpl
  <2>2. ASSUME NEW o \in Mpl \cup Mbf, o \in objs' PROVE LookedAt(o)'
    <3>1. CASE o = x
      <4>1. x \notin objs BY <2>1 DEF Create
      <4>2. sque'[x] = <<>> BY <1>1, <2>1, <4>1, NobodyWaitsYet DEF Create, waiting
      <4> QED BY <3>1, <4>2 DEF LookedAt
    <3>2. CASE o # x
      <4>1. \A p : Room(o, p)' => Room(o, p) BY <1>b, <2>1, <3>2
      <4>2. Still(o) BY <2>1, <3>2, CreateStill
      <4> QED BY <2>2, <4>1, <4>2, StillLooked
    <3> QED BY <3>1, <3>2
  <2>3. Posted' BY <2>1 DEF Posted, Create, waiting
  <2> QED BY <2>2, <2>3 DEF Looked
<1>3. ASSUME NEW x \in Mpl, DelMpl(x) PROVE Looked' /\ Posted'
  <2>1. Delete(x) /\ mem' = [mem EXCEPT ![x] = {}] BY <1>3 DEF DelMpl
  <2>2. ASSUME NEW o \in Mpl \cup Mbf, o \in objs' PROVE LookedAt(o)'
    <3>1. o # x BY <2>1, <2>2 DEF Delete
    <3>2. \A p : Room(o, p)' => Room(o, p) BY <1>b, <2>1, <3>1
    <3>3. Still(o) BY <1>1, <2>1, <3>1, DeleteStill
    <3> QED BY <2>2, <3>2, <3>3, StillLooked
  <2>3. Posted'
    <3>1. Begins({}) BY <1>1, <2>1, DeleteKeeps
    <3> QED BY <2>1, <3>1, PostedKept DEF Delete
  <2> QED BY <2>2, <2>3 DEF Looked
<1>4. ASSUME NEW x \in Mpl, NEW n, GetMpl(x, n) PROVE Looked' /\ Posted'
  <2>1. sque[x] = <<>> /\ UNCHANGED <<waiting, steady>> BY <1>4 DEF GetMpl
  <2>2. \E m : mem' = [mem EXCEPT ![x] = m] BY <1>4 DEF GetMpl, Give
  <2>3. ASSUME NEW o \in Mpl \cup Mbf, o \in objs' PROVE LookedAt(o)'
    <3>1. CASE o = x BY <2>1, <3>1 DEF LookedAt, waiting
    <3>2. CASE o # x
      <4>1. \A p : Room(o, p)' => Room(o, p) BY <1>b, <2>2, <3>2
      <4>2. Still(o) BY <2>1, QuietStill
      <4> QED BY <2>3, <4>1, <4>2, StillLooked
    <3> QED BY <3>1, <3>2
  <2>4. Posted' BY <2>1 DEF Posted, waiting, steady
  <2> QED BY <2>3, <2>4 DEF Looked
<1>5. ASSUME NEW x \in Mpl, NEW n \in BlkSz, NEW t \in Task, NEW timed \in BOOLEAN,
             GetMplWait(t, x, n, timed)
      PROVE  Looked' /\ Posted'
  <2>1. /\ Ready(t) /\ x \in objs /\ Block(t, x, "MPL", n, timed)
        /\ owed' = IF Head(sque'[x]) = t /\ Fits(x, n) THEN owed \cup {x} ELSE owed
        /\ UNCHANGED <<objs, chk, post, mplvars>>
    BY <1>5 DEF GetMplWait
  <2>2. ASSUME NEW o \in Mpl \cup Mbf, o \in objs' PROVE LookedAt(o)'
    <3>1. \A p : Room(o, p)' => Room(o, p) BY <1>a, <2>1, RoomSame DEF mplvars
    <3>2. CASE o = x
      <4>1. "MPL" \in SqueWaits /\ "RDY" \in msts[t] BY <2>1 DEF SqueWaits, Ready
      <4>2. owed \subseteq owed' /\ o \in objs BY <2>1, <3>2
      <4>3. Head(sque'[o]) = t /\ Room(o, n) => o \in owed' BY <2>1, <3>2 DEF Room
      <4> QED BY <2>1, <3>1, <3>2, <4>1, <4>2, <4>3, JoinLooked
    <3>3. CASE o # x
      <4>1. SameQueue(o) BY <1>1, <2>1, <3>3, BlockSame DEF Ready
      <4>2. Still(o) BY <2>1, <4>1 DEF Still, Calm, Pending
      <4> QED BY <2>2, <3>1, <4>2, StillLooked
    <3> QED BY <3>2, <3>3
  <2>3. Posted'
    <3>1. \A u \in Task : u # t => wsts'[u] = wsts[u] BY <2>1 DEF Block, Linked, Typed
    <3>2. post[t] = NONE BY <2>1 DEF Ready
    <3> QED BY <2>1, <3>1, <3>2 DEF Posted
  <2> QED BY <2>2, <2>3 DEF Looked
<1>6. ASSUME NEW x \in Mpl, NEW b, RelMpl(x, b) PROVE Looked' /\ Posted'
  <2>1. /\ mem' = [mem EXCEPT ![x] = Returned(x, b)] /\ chk' = x
        /\ UNCHANGED <<waiting, objs, post, owed>>
    BY <1>6 DEF RelMpl
  <2>2. ASSUME NEW o \in Mpl \cup Mbf, o \in objs' PROVE LookedAt(o)'
    <3>1. CASE o = x BY <2>1, <3>1 DEF LookedAt, Pending
    <3>2. CASE o # x
      <4>1. \A p : Room(o, p)' => Room(o, p) BY <1>b, <2>1, <3>2
      <4>2. SameQueue(o) BY <2>1, QuietSame
      <4>3. Still(o) BY <1>1, <2>1, <4>2, KindsApart DEF Still, Calm, Pending
      <4> QED BY <2>2, <4>1, <4>3, StillLooked
    <3> QED BY <3>1, <3>2
  <2>3. Posted' BY <2>1 DEF Posted, waiting
  <2> QED BY <2>2, <2>3 DEF Looked
<1>7. ASSUME NEW t \in Task, LookMpl(t) PROVE Looked' /\ Posted'
  <2>0. PICK x : x = post[t] OBVIOUS
  <2>1. x \in Mpl /\ chk' = chk /\ objs' = objs BY <1>7, <2>0 DEF LookMpl
  <2>2. DOMAIN post = Task BY DEF Steady
  <2>3. \/ /\ UNCHANGED <<post, owed>> /\ sque[x] # <<>> /\ Wake({Head(sque[x])})
           /\ \E m : mem' = [mem EXCEPT ![x] = m]
        \/ /\ owed' = owed \ {x} /\ post' = [post EXCEPT ![t] = NONE]
           /\ UNCHANGED <<mplvars, waiting>> /\ \A n \in BlkSz : ~Serves(x, n)
    BY <1>7, <2>0 DEF LookMpl, ServeFirst, ServesNobody, Serves, Give
  <2>4. ASSUME NEW o \in Mpl \cup Mbf, o \in objs', o # x PROVE LookedAt(o)'
    <3>1. o \in Mpl => mem'[o] = mem[o] BY <2>3, <2>4 DEF mplvars
    <3>2. \A p : Room(o, p)' => Room(o, p) BY <1>a, <3>1, RoomSame
    <3>3. SameQueue(o) BY <1>1, <2>1, <2>3, <2>4, QuietSame, WakeHeadSame
    <3>4. \A u \in Task : post[u] = o => post'[u] = o BY <2>0, <2>2, <2>3, <2>4
    <3>5. Still(o) BY <2>1, <2>3, <2>4, <3>3, <3>4 DEF Still, Calm, Pending
    <3> QED BY <2>4, <3>2, <3>5, StillLooked
  <2>5. LookedAt(x)'
    <3>1. CASE post' = post BY <2>0, <3>1 DEF LookedAt, Pending
    <3>2. CASE UNCHANGED <<mplvars, waiting>> /\ \A n \in BlkSz : ~Serves(x, n)
      <4>1. sque[x] # <<>> => ~Fits(x, par[Head(sque[x])]) BY <2>1, <3>2, FirstAsks DEF Serves
      <4>2. sque' = sque /\ par' = par /\ mem' = mem BY <3>2 DEF waiting, mplvars
      <4>3. sque[x] # <<>> => ~Room(x, par[Head(sque[x])])'
        BY <2>1, <4>1, <4>2 DEF Room, Fits
      <4> QED BY <4>2, <4>3 DEF LookedAt
    <3> QED BY <2>3, <3>1, <3>2
  <2>6. Posted'
    <3>1. \A u \in Task : post'[u] \in {post[u], NONE} BY <2>2, <2>3
    <3>2. UNCHANGED <<objs, atr, cpri>> BY <1>7 DEF LookMpl
    <3>3. Begins({}) BY <1>1, <2>1, <2>3, <3>2, NothingMoves, WakeHead
    <3> QED BY <3>1, <3>3, PostedKept
  <2>7. ASSUME NEW o \in objs' \cap (Mpl \cup Mbf) PROVE LookedAt(o)' BY <2>4, <2>5
  <2> QED BY <2>6, <2>7 DEF Looked
<1> QED BY <1>2, <1>3, <1>4, <1>5, <1>6, <1>7 DEF MplNext

(* LEMMA: message buffers. *)
LEMMA MbfLooked ==
    ASSUME Steady, Linked, Asking, Posted, Looked, RingInv, chk = NONE,
           MbfNext, UNCHANGED mplvars
    PROVE  Looked' /\ Posted'
<1>1. PICK x \in Mbf \cap ids :
         \/ \E a \in MbfAtr, n \in MbfSz : CreMbf(x, a, n)
         \/ DelMbf(x) \/ RcvMbf(x)
         \/ \E m \in Mail : SndMbf(x, m)
         \/ \E t \in Task, timed \in BOOLEAN :
               \/ \E m \in Mail : SndMbfWait(t, x, m, timed)
               \/ RcvMbfWait(t, x, timed)
  BY DEF MbfNext
<1>2. x \in Obj /\ x \notin Mpl /\ \A o \in Mpl \cup Mbf : o \in Obj BY KindsApart
<1>a. \A o \in Mpl : mem'[o] = mem[o] BY DEF mplvars
<1>b. frsz \in [Mbf -> Nat] BY DEF RingInv
<1>c. ASSUME NEW f, frsz' = [frsz EXCEPT ![x] = f],
             NEW o \in Mpl \cup Mbf, o # x
      PROVE  \A p : Room(o, p)' => Room(o, p)
  <2>1. o \in Mbf => frsz'[o] = frsz[o] BY <1>b, <1>c
  <2> QED BY <1>a, <2>1, RoomSame
<1>d. ASSUME frsz' = frsz, NEW o \in Mpl \cup Mbf
      PROVE  \A p : Room(o, p)' => Room(o, p)
  BY <1>a, <1>d, RoomSame
<1>3. ASSUME NEW a \in MbfAtr, NEW n, CreMbf(x, a, n) PROVE Looked' /\ Posted'
  <2>1. Create(x, a) /\ frsz' = [frsz EXCEPT ![x] = n] BY <1>3 DEF CreMbf
  <2>2. ASSUME NEW o \in Mpl \cup Mbf, o \in objs' PROVE LookedAt(o)'
    <3>1. CASE o = x
      <4>1. x \notin objs BY <2>1 DEF Create
      <4>2. sque'[x] = <<>> BY <1>2, <2>1, <4>1, NobodyWaitsYet DEF Create, waiting
      <4> QED BY <3>1, <4>2 DEF LookedAt
    <3>2. CASE o # x
      <4>1. \A p : Room(o, p)' => Room(o, p) BY <1>c, <2>1, <3>2
      <4>2. Still(o) BY <2>1, <3>2, CreateStill
      <4> QED BY <2>2, <4>1, <4>2, StillLooked
    <3> QED BY <3>1, <3>2
  <2>3. Posted' BY <2>1 DEF Posted, Create, waiting
  <2> QED BY <2>2, <2>3 DEF Looked
<1>4. CASE DelMbf(x)
  <2>1. Delete(x) /\ frsz' = [frsz EXCEPT ![x] = 0] BY <1>4 DEF DelMbf
  <2>2. ASSUME NEW o \in Mpl \cup Mbf, o \in objs' PROVE LookedAt(o)'
    <3>1. o # x BY <2>1, <2>2 DEF Delete
    <3>2. \A p : Room(o, p)' => Room(o, p) BY <1>c, <2>1, <3>1
    <3>3. Still(o) BY <1>2, <2>1, <3>1, DeleteStill
    <3> QED BY <2>2, <3>2, <3>3, StillLooked
  <2>3. Posted'
    <3>1. Begins({}) BY <1>2, <2>1, DeleteKeeps
    <3> QED BY <2>1, <3>1, PostedKept DEF Delete
  <2> QED BY <2>2, <2>3 DEF Looked
<1>5. ASSUME NEW m \in Mail, SndMbf(x, m) PROVE Looked' /\ Posted'
  <2>0. UNCHANGED steady /\ UNCHANGED <<objs, atr, cpri>> BY <1>5 DEF SndMbf, steady
  <2>1. CASE que[x] # <<>>
    <3>1. Wake({Head(que[x])}) /\ UNCHANGED mbfvars BY <1>5, <2>1 DEF SndMbf
    <3>2. ASSUME NEW o \in Mpl \cup Mbf, o \in objs' PROVE LookedAt(o)'
      <4>4. SameQueue(o) BY <1>2, <2>1, <3>1, WakeHeadSame
      <4>5. Still(o) BY <2>0, <4>4, SteadyStill
      <4> QED BY <1>d, <3>1, <3>2, <4>5, StillLooked DEF mbfvars
    <3>3. Begins({}) BY <1>2, <2>0, <2>1, <3>1, WakeHead
    <3>4. Posted' BY <2>0, <3>3, PostedKept DEF steady
    <3> QED BY <3>2, <3>4 DEF Looked
  <2>2. CASE que[x] = <<>>
    <3>1. UNCHANGED waiting /\ frsz' = [frsz EXCEPT ![x] = @ - Space(x, m)]
      BY <1>5, <2>2 DEF SndMbf, PutMbf
    <3>2. ASSUME NEW o \in Mpl \cup Mbf, o \in objs' PROVE LookedAt(o)'
      <4>1. Still(o) BY <2>0, <3>1, QuietStill
      <4>2. CASE o # x
        <5>1. PICK f : frsz' = [frsz EXCEPT ![x] = f] BY <3>1
        <5>2. \A p : Room(o, p)' => Room(o, p) BY <1>c, <4>2, <5>1
        <5> QED BY <3>2, <4>1, <5>2, StillLooked
      <4>3. CASE o = x
        <5> SUFFICES ASSUME sque[x] # <<>>
                     PROVE  \A p \in {par[Head(sque[x])]} : Room(x, p)' => Room(x, p)
          <6>1. CASE sque[x] # <<>> BY <3>2, <4>1, <4>3, <6>1, StillLooked
          <6>2. CASE sque[x] = <<>> BY <3>1, <4>3, <6>2 DEF LookedAt, waiting
          <6> QED BY <6>1, <6>2
        <5>1. PICK p : p = par[Head(sque[x])] OBVIOUS
        <5>2. p \in Mail BY <5>1, FirstAsks
        <5>3. Space(x, p) \in Nat /\ Space(x, m) \in Nat BY <5>2, SpaceFacts
        <5>4. frsz[x] \in Nat /\ frsz'[x] = frsz[x] - Space(x, m) BY <1>b, <3>1
        <5>5. frsz'[x] >= Space(x, p) => frsz[x] >= Space(x, p) BY <5>3, <5>4
        <5>6. Room(x, p)' => Room(x, p) BY <1>2, <5>5 DEF Room, Fit
        <5> QED BY <5>1, <5>6
      <4> QED BY <4>2, <4>3
    <3>3. Posted' BY <2>0, <3>1 DEF Posted, waiting, steady
    <3> QED BY <3>2, <3>3 DEF Looked
  <2> QED BY <2>1, <2>2
<1>6. ASSUME NEW t \in Task, NEW timed \in BOOLEAN, NEW m \in Mail, SndMbfWait(t, x, m, timed)
      PROVE  Looked' /\ Posted'
  <2>1. /\ Ready(t) /\ x \in objs /\ Block(t, x, "SMBF", m, timed) /\ ~Fit(x, m)
        /\ UNCHANGED <<objs, chk, post, owed>> /\ frsz' = frsz /\ UNCHANGED steady
    BY <1>6 DEF SndMbfWait, steady, mbfvars
  <2>2. ASSUME NEW o \in Mpl \cup Mbf, o \in objs' PROVE LookedAt(o)'
    <3>1. \A p : Room(o, p)' => Room(o, p) BY <1>d, <2>1
    <3>2. CASE o = x
      <4>1. "SMBF" \in SqueWaits /\ "RDY" \in msts[t] BY <2>1 DEF SqueWaits, Ready
      <4>2. owed \subseteq owed' /\ o \in objs BY <2>1, <3>2
      <4>3. ~Room(o, m) BY <1>2, <2>1, <3>2 DEF Room
      <4> QED BY <2>1, <3>1, <3>2, <4>1, <4>2, <4>3, JoinLooked
    <3>3. CASE o # x
      <4>1. Still(o) BY <1>2, <2>1, <3>3, WaitStill
      <4> QED BY <2>2, <3>1, <4>1, StillLooked
    <3> QED BY <3>2, <3>3
  <2>3. Posted'
    <3>1. \A u \in Task : u # t => wsts'[u] = wsts[u] BY <2>1 DEF Block, Linked, Typed
    <3>2. post[t] = NONE BY <2>1 DEF Ready
    <3> QED BY <2>1, <3>1, <3>2 DEF Posted
  <2> QED BY <2>2, <2>3 DEF Looked
<1>7. ASSUME NEW t \in Task, NEW timed \in BOOLEAN, RcvMbfWait(t, x, timed)
      PROVE  Looked' /\ Posted'
  <2>1. /\ Ready(t) /\ Block(t, x, "RMBF", NONE, timed)
        /\ UNCHANGED <<objs, chk, post, owed>> /\ frsz' = frsz /\ UNCHANGED steady
    BY <1>7 DEF RcvMbfWait, steady, mbfvars
  <2>2. ASSUME NEW o \in Mpl \cup Mbf, o \in objs' PROVE LookedAt(o)'
    <3>1. \A p : Room(o, p)' => Room(o, p) BY <1>d, <2>1
    <3>2. "RMBF" \in QueWaits /\ "RDY" \in msts[t] BY <2>1 DEF QueWaits, Ready
    <3>3. SameQueue(o) BY <1>2, <2>1, <3>2, BlockSame
    <3>4. Still(o) BY <2>1, <3>3, SteadyStill
    <3> QED BY <2>2, <3>1, <3>4, StillLooked
  <2>3. Posted'
    <3>1. \A u \in Task : u # t => wsts'[u] = wsts[u] BY <2>1 DEF Block, Linked, Typed
    <3>2. post[t] = NONE BY <2>1 DEF Ready
    <3> QED BY <2>1, <3>1, <3>2 DEF Posted
  <2> QED BY <2>2, <2>3 DEF Looked
<1>8. CASE RcvMbf(x)
  <2>0. UNCHANGED <<objs, atr, cpri, post>> BY <1>8 DEF RcvMbf
  <2>1. CASE frsz[x] # mbfsz[x]
    <3>1. /\ chk' = x /\ UNCHANGED <<waiting, owed>>
          /\ \E f : frsz' = [frsz EXCEPT ![x] = f]
      BY <1>8, <2>1 DEF RcvMbf
    <3>2. ASSUME NEW o \in Mpl \cup Mbf, o \in objs' PROVE LookedAt(o)'
      <4>1. CASE o = x BY <3>1, <4>1 DEF LookedAt, Pending
      <4>2. CASE o # x
        <5>1. \A p : Room(o, p)' => Room(o, p) BY <1>c, <3>1, <4>2
        <5>2. SameQueue(o) BY <3>1, QuietSame
        <5>3. Still(o) BY <1>2, <2>0, <3>1, <5>2, KindsApart DEF Still, Calm, Pending
        <5> QED BY <3>2, <5>1, <5>3, StillLooked
      <4> QED BY <4>1, <4>2
    <3>3. Posted' BY <2>0, <3>1 DEF Posted, waiting
    <3> QED BY <3>2, <3>3 DEF Looked
  <2>2. CASE frsz[x] = mbfsz[x]
    <3>1. /\ sque[x] # <<>> /\ Wake({Head(sque[x])}) /\ UNCHANGED <<frsz, chk>>
          /\ owed' = IF Len(sque[x]) > 1 /\ Fit(x, par[sque[x][2]])
                     THEN owed \cup {x} ELSE owed
      BY <1>8, <2>2 DEF RcvMbf, mbfvars
    <3>2. ASSUME NEW o \in Mpl \cup Mbf, o \in objs' PROVE LookedAt(o)'
      <4>1. CASE o # x
        <5>1. SameQueue(o) BY <1>2, <3>1, <4>1, WakeHeadSame
        <5>2. Still(o) BY <2>0, <3>1, <5>1 DEF Still, Calm, Pending
        <5> QED BY <1>d, <3>1, <3>2, <5>2, StillLooked
      <4>2. CASE o = x
        <5>1. PICK q \in Seq(Task) : q = sque[x] BY <1>2 DEF Linked, Typed
        <5>2. Once(q) /\ q # <<>> BY <1>2, <3>1, <5>1 DEF Linked, Queued
        <5>3. sque'[x] = Keep(q, Task \ {Head(q)})
          BY <1>2, <3>1, <5>1 DEF Wake, Release, Without
        <5>4. sque'[x] = Tail(q) BY <5>2, <5>3, KeepEnds
        <5> SUFFICES ASSUME Tail(q) # <<>>, Room(x, par[Head(sque[x])])' PROVE Pending(x)'
          BY <4>2, <5>4 DEF LookedAt
        <5>5. Len(q) > 1 /\ Head(Tail(q)) = q[2] /\ q[2] \in Task /\ q[2] # q[1] /\ Head(q) = q[1]
          <6>1. Len(q) \in Nat /\ Tail(q) \in Seq(Task) /\ Len(Tail(q)) = Len(q) - 1
            BY <5>2
          <6>2. Len(Tail(q)) > 0 BY <6>1
          <6>3. Len(q) > 1 BY <6>1, <6>2
          <6>4. 1 \in 1..Len(q) /\ 2 \in 1..Len(q) BY <6>1, <6>3
          <6>5. q[2] # q[1] BY <5>2, <6>4 DEF Once
          <6> QED BY <5>2, <6>1, <6>2, <6>3, <6>4, <6>5
        <5>6. par'[q[2]] = par[q[2]] BY <3>1, <5>1, <5>5 DEF Wake, Release
        <5>7. PICK r : r = par'[Head(sque'[x])] OBVIOUS
        <5>8. r = par[sque[x][2]] BY <5>1, <5>4, <5>5, <5>6, <5>7
        <5>9. Room(x, r)' BY <5>7 DEF Room, Fits, Fit
        <5>10. Fit(x, r) BY <1>2, <3>1, <5>9 DEF Room, Fit
        <5> QED BY <3>1, <5>1, <5>5, <5>8, <5>10 DEF Pending
      <4> QED BY <4>1, <4>2
    <3>3. Begins({}) BY <1>2, <2>0, <3>1, WakeHead
    <3>4. Posted' BY <2>0, <3>3, PostedKept
    <3> QED BY <3>2, <3>4 DEF Looked
  <2> QED BY <2>1, <2>2
<1> QED BY <1>1, <1>3, <1>4, <1>5, <1>6, <1>7, <1>8

(* LEMMA: the kernel looks at a queue until the first task's request does  *)
(* not fit.                                                                *)
LEMMA ServingLooked ==
    ASSUME Steady, Linked, Asking, Posted, Looked, RingInv, DOMAIN mem = Mpl, Serving
    PROVE  Looked' /\ Posted'
<1>1. \A o \in Mpl \cup Mbf : o \in Obj BY KindsApart
<1>2. Begins({}) BY ServingStep
<1>3. objs' = objs /\ post' = post BY DEF Serving, ChkMpl, ChkMbf
<1>4. Posted' BY <1>2, <1>3, PostedKept
<1>5. ASSUME NEW x \in Mpl \cup Mbf, chk = x,
             \/ chk' = x /\ owed' = owed /\ sque[x] # <<>> /\ Wake({Head(sque[x])})
             \/ owed' = owed \ {x} /\ UNCHANGED waiting,
             NEW o \in Mpl \cup Mbf, o # x
      PROVE  Still(o)
  <2>1. SameQueue(o) BY <1>1, <1>5, QuietSame, WakeHeadSame
  <2> QED BY <1>3, <1>5, <2>1 DEF Still, Calm, Pending
<1>6. ASSUME NEW x \in Mpl, ChkMpl(x), UNCHANGED mbfvars PROVE Looked'
  <2>1. ASSUME NEW o \in Mpl \cup Mbf, o \in objs', o # x PROVE LookedAt(o)'
    <3>1. Still(o) BY <1>5, <1>6, <2>1 DEF ChkMpl, ServeFirst, ServesNobody, Serves
    <3>2. o \in Mpl => mem'[o] = mem[o] BY <1>6, <2>1 DEF ChkMpl, ServeFirst, ServesNobody, Give, mplvars
    <3>3. o \in Mbf => frsz'[o] = frsz[o] BY <1>6 DEF mbfvars
    <3>4. \A p : Room(o, p)' => Room(o, p) BY <3>2, <3>3, RoomSame
    <3> QED BY <2>1, <3>1, <3>4, StillLooked
  <2>2. LookedAt(x)'
    <3>1. CASE chk' = chk BY <1>6, <3>1 DEF ChkMpl, LookedAt, Pending
    <3>2. CASE UNCHANGED <<mplvars, waiting>> /\ \A n \in BlkSz : ~Serves(x, n)
      <4>1. sque[x] # <<>> => ~Fits(x, par[Head(sque[x])]) BY <3>2, FirstAsks DEF Serves
      <4>2. sque' = sque /\ par' = par /\ mem' = mem BY <3>2 DEF waiting, mplvars
      <4>3. sque[x] # <<>> => ~Room(x, par[Head(sque[x])])'
        BY <4>1, <4>2 DEF Room, Fits
      <4> QED BY <4>2, <4>3 DEF LookedAt
    <3> QED BY <1>6, <3>1, <3>2 DEF ChkMpl, ServesNobody
  <2> QED BY <2>1, <2>2 DEF Looked
<1>7. ASSUME NEW x \in Mbf, ChkMbf(x), UNCHANGED mplvars PROVE Looked'
  <2>0. x \notin Mpl BY KindsApart
  <2>1. ASSUME NEW o \in Mpl \cup Mbf, o \in objs', o # x PROVE LookedAt(o)'
    <3>1. Still(o) BY <1>5, <1>7, <2>1 DEF ChkMbf
    <3>2. o \in Mpl => mem'[o] = mem[o] BY <1>7 DEF mplvars
    <3>3. o \in Mbf => frsz'[o] = frsz[o] BY <1>7, <2>1 DEF ChkMbf, PutMbf, mbfvars, RingInv
    <3>4. \A p : Room(o, p)' => Room(o, p) BY <3>2, <3>3, RoomSame
    <3> QED BY <2>1, <3>1, <3>4, StillLooked
  <2>2. LookedAt(x)'
    <3>1. CASE chk' = chk BY <1>7, <3>1 DEF ChkMbf, LookedAt, Pending
    <3>2. CASE /\ UNCHANGED <<mbfvars, waiting>>
               /\ ~(sque[x] # <<>> /\ Fit(x, par[Head(sque[x])]))
      <4>1. sque' = sque /\ par' = par /\ frsz' = frsz BY <3>2 DEF waiting, mbfvars
      <4>2. sque[x] # <<>> => ~Room(x, par[Head(sque[x])])'
        BY <2>0, <3>2, <4>1 DEF Room, Fit
      <4> QED BY <4>1, <4>2 DEF LookedAt
    <3> QED BY <1>7, <3>1, <3>2 DEF ChkMbf
  <2> QED BY <2>1, <2>2 DEF Looked
<1> QED BY <1>4, <1>6, <1>7 DEF Serving

(* LEMMA: a receiver waits on for what is not there when no wait for a     *)
(* message buffer begins and its ring stays empty.                         *)
LEMMA MbfEnds ==
    ASSUME Linked, Asking, Linked', NEW W, Begins(W), "RMBF" \notin W, "SMBF" \notin W,
           MbfIdle,
           \A x \in Mbf : x \in objs \cap objs' /\ que[x] # <<>> =>
              frsz'[x] = frsz[x] /\ mbfsz'[x] = mbfsz[x]
    PROVE  MbfIdle'
<1> SUFFICES ASSUME NEW t \in Task, wsts'[t] = "RMBF"
             PROVE  /\ frsz'[wobj'[t]] = mbfsz'[wobj'[t]]
                    /\ \A u \in Task : wsts'[u] = "SMBF" => wobj'[u] # wobj'[t]
  BY DEF MbfIdle
<1>1. "SMBF" \in SqueWaits /\ "RMBF" \in QueWaits BY DEF SqueWaits, QueWaits
<1>2. Stays(t) /\ wsts[t] = "RMBF" /\ wobj[t] \in objs \cap objs' BY <1>1, WaitsOn
<1>3. que[wobj[t]] # <<>> BY <1>1, <1>2, WaitsWhere
<1>4. wobj[t] \in Mbf BY <1>2 DEF Asking, Asks
<1>5. frsz[wobj[t]] = mbfsz[wobj[t]] /\ wobj'[t] = wobj[t] BY <1>2 DEF Stays, MbfIdle
<1>6. frsz'[wobj[t]] = mbfsz'[wobj[t]] BY <1>2, <1>3, <1>4, <1>5
<1>7. ASSUME NEW u \in Task, wsts'[u] = "SMBF" PROVE wobj'[u] # wobj'[t]
  <2>1. Stays(u) /\ wsts[u] = "SMBF" BY <1>1, <1>7, WaitsOn
  <2> QED BY <1>2, <1>5, <2>1 DEF Stays, MbfIdle
<1> QED BY <1>5, <1>6, <1>7

(* LEMMA: where receivers wait the ring is empty and no sender waits.      *)
LEMMA ReceiversWait ==
    ASSUME Linked, Asking, MbfIdle, NEW o \in Mbf, que[o] # <<>>
    PROVE  frsz[o] = mbfsz[o] /\ sque[o] = <<>>
<1>1. o \in Obj BY KindsApart
<1>2. PICK t \in Task : t = Head(que[o]) /\ InQue(t, o) BY <1>1, HeadFacts
<1>3. wsts[t] = "RMBF" /\ wobj[t] = o BY <1>1, <1>2, KindFacts DEF InQue
<1>4. frsz[o] = mbfsz[o] BY <1>3 DEF MbfIdle
<1>5. ASSUME sque[o] # <<>> PROVE FALSE
  <2>1. PICK u \in Task : u = Head(sque[o]) /\ InSque(u, o) BY <1>1, <1>5, HeadFacts
  <2>2. wsts[u] = "SMBF" /\ wobj[u] = o BY <1>1, <2>1, KindFacts DEF InSque
  <2> QED BY <1>3, <2>2 DEF MbfIdle
<1> QED BY <1>4, <1>5

(* LEMMA: message buffers keep this. *)
LEMMA MbfHolds ==
    ASSUME Steady, Linked, Asking, Linked', RingInv, MbfIdle, MbfNext
    PROVE  MbfIdle'
<1>1. PICK o \in Mbf \cap ids :
         \/ \E a \in MbfAtr, n \in MbfSz : CreMbf(o, a, n)
         \/ DelMbf(o) \/ RcvMbf(o)
         \/ \E m \in Mail : SndMbf(o, m)
         \/ \E t \in Task, timed \in BOOLEAN :
               \/ \E m \in Mail : SndMbfWait(t, o, m, timed)
               \/ RcvMbfWait(t, o, timed)
  BY DEF MbfNext
<1>2. o \in Obj BY KindsApart
<1>3. DOMAIN frsz = Mbf /\ DOMAIN mbfsz = Mbf BY DEF RingInv
<1>4. ASSUME NEW f, NEW s, frsz' = [frsz EXCEPT ![o] = f], mbfsz' = [mbfsz EXCEPT ![o] = s]
      PROVE  \A x \in Mbf : x # o => frsz'[x] = frsz[x] /\ mbfsz'[x] = mbfsz[x]
  BY <1>3, <1>4
<1>5. ASSUME NEW a \in MbfAtr, NEW n, CreMbf(o, a, n) PROVE MbfIdle'
  <2>1. a \in SUBSET ATTR BY MessageBufferAssumption DEF ATTR
  <2>2. Begins({}) BY <1>2, <1>5, <2>1, CreateKeeps DEF CreMbf
  <2>3. frsz' = [frsz EXCEPT ![o] = n] /\ mbfsz' = [mbfsz EXCEPT ![o] = n] BY <1>5 DEF CreMbf
  <2>4. o \notin objs BY <1>5 DEF CreMbf, Create
  <2>5. \A x \in Mbf : x # o => frsz'[x] = frsz[x] /\ mbfsz'[x] = mbfsz[x] BY <1>4, <2>3
  <2> QED BY <2>2, <2>4, <2>5, MbfEnds
<1>6. CASE DelMbf(o)
  <2>2. Begins({}) BY <1>2, <1>6, DeleteKeeps DEF DelMbf
  <2>3. frsz' = [frsz EXCEPT ![o] = 0] /\ mbfsz' = [mbfsz EXCEPT ![o] = 0] BY <1>6 DEF DelMbf
  <2>4. o \notin objs' BY <1>6 DEF DelMbf, Delete
  <2>5. \A x \in Mbf : x # o => frsz'[x] = frsz[x] /\ mbfsz'[x] = mbfsz[x] BY <1>4, <2>3
  <2> QED BY <2>2, <2>4, <2>5, MbfEnds
<1>7. CASE RcvMbf(o)
  <2>1. UNCHANGED <<objs, atr, cpri>> BY <1>7 DEF RcvMbf
  <2>2. CASE frsz[o] # mbfsz[o]
    <3>1. PICK f : frsz' = [frsz EXCEPT ![o] = f] /\ mbfsz' = mbfsz /\ UNCHANGED waiting
      BY <1>7, <2>2 DEF RcvMbf
    <3>2. Begins({}) BY <2>1, <3>1, NothingMoves
    <3>3. \A x \in Mbf : x # o => frsz'[x] = frsz[x] BY <1>3, <3>1
    <3>4. que[o] = <<>> BY <2>2, ReceiversWait
    <3> QED BY <3>1, <3>2, <3>3, <3>4, MbfEnds
  <2>3. CASE frsz[o] = mbfsz[o]
    <3>1. sque[o] # <<>> /\ Wake({Head(sque[o])}) /\ UNCHANGED <<frsz, mbfsz>>
      BY <1>7, <2>3 DEF RcvMbf, mbfvars
    <3>2. Begins({}) BY <1>2, <2>1, <3>1, WakeHead
    <3> QED BY <3>1, <3>2, MbfEnds
  <2> QED BY <2>2, <2>3
<1>8. ASSUME NEW m \in Mail, SndMbf(o, m) PROVE MbfIdle'
  <2>1. UNCHANGED <<objs, atr, cpri>> BY <1>8 DEF SndMbf, steady
  <2>2. CASE que[o] # <<>>
    <3>1. Wake({Head(que[o])}) /\ UNCHANGED <<frsz, mbfsz>> BY <1>8, <2>2 DEF SndMbf, mbfvars
    <3>2. Begins({}) BY <1>2, <2>1, <2>2, <3>1, WakeHead
    <3> QED BY <3>1, <3>2, MbfEnds
  <2>3. CASE que[o] = <<>>
    <3>1. PICK f : frsz' = [frsz EXCEPT ![o] = f] /\ mbfsz' = mbfsz /\ UNCHANGED waiting
      BY <1>8, <2>3 DEF SndMbf, PutMbf
    <3>2. Begins({}) BY <2>1, <3>1, NothingMoves
    <3>3. \A x \in Mbf : x # o => frsz'[x] = frsz[x] BY <1>3, <3>1
    <3> QED BY <2>3, <3>1, <3>2, <3>3, MbfEnds
  <2> QED BY <2>2, <2>3
<1>9. ASSUME NEW t \in Task, NEW m \in Mail, NEW timed \in BOOLEAN, SndMbfWait(t, o, m, timed)
      PROVE  MbfIdle'
  <2>1. /\ Block(t, o, "SMBF", m, timed) /\ UNCHANGED <<objs, atr, cpri>>
        /\ que[o] = <<>> /\ UNCHANGED <<frsz, mbfsz>>
    BY <1>9 DEF SndMbfWait, steady, mbfvars
  <2>2. wobj'[t] = o /\ wsts'[t] = "SMBF" /\ \A u \in Task \ {t} : Stays(u)
    BY <2>1, BlockBegins
  <2>3. \A u \in Task : wsts[u] = "RMBF" => wobj[u] # o
    BY <1>2, <2>1, HeadFacts DEF InQue, QueWaits
  <2> QED BY <2>1, <2>2, <2>3 DEF MbfIdle, Stays
<1>10. ASSUME NEW t \in Task, NEW timed \in BOOLEAN, RcvMbfWait(t, o, timed) PROVE MbfIdle'
  <2>1. /\ Block(t, o, "RMBF", NONE, timed) /\ UNCHANGED <<objs, atr, cpri>>
        /\ sque[o] = <<>> /\ frsz[o] = mbfsz[o] /\ UNCHANGED <<frsz, mbfsz>>
    BY <1>10 DEF RcvMbfWait, steady, mbfvars
  <2>2. wobj'[t] = o /\ wsts'[t] = "RMBF" /\ \A u \in Task \ {t} : Stays(u)
    BY <2>1, BlockBegins
  <2>3. \A u \in Task : wsts[u] = "SMBF" => wobj[u] # o
    BY <1>2, <2>1, HeadFacts DEF InSque, SqueWaits
  <2> QED BY <2>1, <2>2, <2>3 DEF MbfIdle, Stays
<1> QED BY <1>1, <1>5, <1>6, <1>7, <1>8, <1>9, <1>10

(* LEMMA: so does serving the senders. *)
LEMMA ChkMbfHolds ==
    ASSUME Linked, Asking, Linked', RingInv, MbfIdle, NEW o \in Mbf, ChkMbf(o)
    PROVE  MbfIdle'
<1>1. o \in Obj /\ UNCHANGED <<objs, atr, cpri>> BY KindsApart DEF ChkMbf
<1>2. CASE sque[o] # <<>> /\ Fit(o, par[Head(sque[o])])
  <2>1. PICK f : frsz' = [frsz EXCEPT ![o] = f] /\ mbfsz' = mbfsz /\ Wake({Head(sque[o])})
    BY <1>2 DEF ChkMbf, PutMbf
  <2>2. Begins({}) BY <1>1, <1>2, <2>1, WakeHead
  <2>3. \A x \in Mbf : x # o => frsz'[x] = frsz[x] BY <2>1 DEF RingInv
  <2>4. que[o] = <<>> BY <1>2, ReceiversWait
  <2> QED BY <2>1, <2>2, <2>3, <2>4, MbfEnds
<1>3. CASE ~(sque[o] # <<>> /\ Fit(o, par[Head(sque[o])]))
  <2>1. UNCHANGED <<frsz, mbfsz>> /\ UNCHANGED waiting BY <1>3 DEF ChkMbf, mbfvars
  <2>2. Begins({}) BY <1>1, <2>1, NothingMoves
  <2> QED BY <2>1, <2>2, MbfEnds
<1> QED BY <1>2, <1>3

MemoryInv == Posted /\ Looked /\ MbfIdle

(* LEMMA: at first nobody waits for memory. *)
LEMMA MemoryInit ==
    ASSUME Init
    PROVE  MemoryInv
<1>1. WInit BY DEF Init
<1>2. \A t \in Task : wsts[t] = NONE /\ post[t] = NONE BY <1>1 DEF WInit
<1>3. Posted BY <1>2 DEF Posted
<1>4. objs = {} BY <1>1 DEF WInit
<1>5. Looked BY <1>4 DEF Looked
<1>6. MbfIdle BY <1>2, KindsApart DEF MbfIdle, QueWaits
<1> QED BY <1>3, <1>5, <1>6 DEF MemoryInv

(* LEMMA: the services of the other kinds of object; they send no task to  *)
(* look at a pool.                                                         *)
LEMMA OthersPostNone ==
    ASSUME SemNext \/ FlgNext \/ DtqNext \/ MbxNext \/ MpfNext \/ PorNext
    PROVE  post' = post
<1>1. CASE SemNext
  BY <1>1 DEF SemNext, CreSem, DelSem, WaiSem, WaiSemWait, SigSem, Create, Delete, steady
<1>2. CASE FlgNext
  BY <1>2 DEF FlgNext, CreFlg, DelFlg, SetFlg, ClrFlg, WaiFlg, WaiFlgWait, Create, Delete,
     steady
<1>3. CASE DtqNext
  BY <1>3 DEF DtqNext, CreDtq, DelDtq, SndDtq, SndDtqWait, RcvDtq, RcvDtqWait, Create,
     Delete, steady
<1>4. CASE MbxNext
  BY <1>4 DEF MbxNext, CreMbx, DelMbx, SndMbx, RcvMbx, RcvMbxWait, Create, Delete, steady
<1>5. CASE MpfNext
  BY <1>5 DEF MpfNext, CreMpf, DelMpf, GetMpf, RelMpf, GetMpfWait, Create, Delete, steady
<1>6. CASE PorNext
  <2>1. ASSUME NEW o, NEW c, NEW ptn, NEW n, NEW timed,
               \/ CalPor(c, o, ptn, timed) \/ CalPorWait(c, o, ptn, n, timed)
               \/ AcpPor(o, ptn) \/ AcpPorWait(c, o, ptn, timed)
               \/ FwdPor(c, o, ptn, n) \/ FwdPorWait(c, o, ptn, n)
               \/ RplRdv(c, n)
        PROVE  post' = post
    <3>1. CASE CalPor(c, o, ptn, timed) BY <3>1 DEF CalPor, steady
    <3>2. CASE CalPorWait(c, o, ptn, n, timed) BY <3>2 DEF CalPorWait, steady
    <3>3. CASE AcpPor(o, ptn) BY <3>3 DEF AcpPor, steady
    <3>4. CASE AcpPorWait(c, o, ptn, timed) BY <3>4 DEF AcpPorWait, steady
    <3>5. CASE FwdPor(c, o, ptn, n) BY <3>5 DEF FwdPor, steady
    <3>6. CASE FwdPorWait(c, o, ptn, n) BY <3>6 DEF FwdPorWait, steady
    <3>7. CASE RplRdv(c, n) BY <3>7 DEF RplRdv, steady
    <3> QED BY <2>1, <3>1, <3>2, <3>3, <3>4, <3>5, <3>6, <3>7
  <2>2. ASSUME NEW o, (\E a : CrePor(o, a)) \/ DelPor(o) PROVE post' = post
    BY <2>2 DEF CrePor, DelPor, Create, Delete
  <2> QED BY <1>6, <2>1, <2>2 DEF PorNext
<1> QED BY <1>1, <1>2, <1>3, <1>4, <1>5, <1>6

(* LEMMA: so they leave it as it is. *)
LEMMA OthersLook ==
    ASSUME Linked, Asking, Linked', MemoryInv, UNCHANGED <<mplvars, mbfvars, post>>,
           NEW W, Begins(W), "RMBF" \notin W, "SMBF" \notin W,
           \A o \in Mpl \cup Mbf : Still(o)
    PROVE  MemoryInv'
<1>1. UNCHANGED <<mem, frsz, mbfsz>> BY DEF mplvars, mbfvars
<1>2. ASSUME NEW o \in Mpl \cup Mbf, o \in objs' PROVE LookedAt(o)'
  <2>1. Still(o) OBVIOUS
  <2>2. \A p : Room(o, p)' => Room(o, p) BY <1>1, RoomSame
  <2> QED BY <1>2, <2>1, <2>2, StillLooked DEF MemoryInv
<1>3. Looked' BY <1>2 DEF Looked
<1>4. MbfIdle' BY <1>1, MbfEnds DEF MemoryInv
<1>5. \A t \in Task : post'[t] \in {post[t], NONE} OBVIOUS
<1>6. Posted' BY <1>5, PostedKept DEF MemoryInv
<1> QED BY <1>3, <1>4, <1>6 DEF MemoryInv

(* LEMMA: nor do timeouts and the calls that end waits make anybody wait   *)
(* for memory that is there.                                               *)
LEMMA TaskLooked ==
    ASSUME Steady, Linked, Asking, Linked', MemoryInv, chk = NONE, TaskNext,
           UNCHANGED <<mplvars, mbfvars>>
    PROVE  MemoryInv'
<1>1. UNCHANGED <<mem, frsz, mbfsz>> BY DEF mplvars, mbfvars
<1>2. Posted /\ Looked /\ MbfIdle BY DEF MemoryInv
<1>3. ASSUME NEW o \in Mpl \cup Mbf, o \in objs' PROVE LookedAt(o)'
  <2>1. \A p : Room(o, p)' => Room(o, p) BY <1>1, RoomSame
  <2>2. CASE Pending(o)' BY <2>2 DEF LookedAt
  <2>3. CASE StillFirst(o) BY <1>2, <1>3, <2>1, <2>3, StillLooked
  <2> QED BY <1>2, <2>2, <2>3, TaskStill DEF StillFirst
<1>4. Looked' BY <1>3 DEF Looked
<1>5. MbfIdle'
  <2>1. Begins({}) BY TaskStep
  <2> QED BY <1>1, <1>2, <2>1, MbfEnds
<1>6. Posted'
  <2>1. CASE Mpl \cup Mbf # {} BY <1>2, <2>1, TaskStill
  <2>2. CASE Mpl \cup Mbf = {}
    <3>1. \A t \in Task : post[t] = NONE /\ wsts[t] # "MPL"
      BY <1>2, <2>2 DEF Posted, Asking, Asks
    <3>2. \A t \in Task : post'[t] = NONE
      BY <3>1 DEF TaskNext, TimeOut, RelWai, TerTsk, ChgPri
    <3> QED BY <3>2 DEF Posted
  <2> QED BY <2>1, <2>2
<1> QED BY <1>4, <1>5, <1>6 DEF MemoryInv

(* LEMMA: no service makes a task wait for memory that is there. *)
LEMMA MemoryServed ==
    ASSUME Steady, Linked, Asking, Linked', ~FwdPri, RingInv, DOMAIN mem = Mpl, MemoryInv,
           UNCHANGED vars \/ Service \/ Serving
    PROVE  MemoryInv'
<1>1. Posted /\ Looked /\ MbfIdle /\ DOMAIN mem = Mpl BY DEF MemoryInv
<1>2. CASE UNCHANGED vars
  <2>1. UNCHANGED <<mplvars, mbfvars, post>> /\ UNCHANGED <<waiting, steady>>
        /\ UNCHANGED <<waiting, objs, atr, cpri>>
    BY <1>2 DEF vars, wvars, steady
  <2>2. Begins({}) BY <2>1, NothingMoves
  <2>3. \A o \in Mpl \cup Mbf : Still(o) BY <2>1, QuietStill
  <2> QED BY <2>1, <2>2, <2>3, OthersLook
<1>3. CASE chk = NONE /\ TaskNext /\ UNCHANGED <<mplvars, mbfvars>>
  BY <1>3, TaskLooked
<1>4. CASE UNCHANGED <<mplvars, mbfvars>> /\ SemNext
  <2>1. Begins({"SEM"}) /\ post' = post BY <1>4, SemStep, OthersPostNone
  <2>2. \A o \in Mpl \cup Mbf : o \in Obj \ Sem BY KindsApart
  <2> QED BY <1>4, <2>1, <2>2, SemStill, OthersLook
<1>5. CASE UNCHANGED <<mplvars, mbfvars>> /\ FlgNext
  <2>1. Begins({"FLG"}) /\ post' = post BY <1>5, FlgStep, OthersPostNone
  <2>2. \A o \in Mpl \cup Mbf : o \in Obj \ Flg BY KindsApart
  <2> QED BY <1>5, <2>1, <2>2, FlgStill, OthersLook
<1>6. CASE UNCHANGED <<mplvars, mbfvars>> /\ DtqNext
  <2>1. Begins({"RDTQ", "SDTQ"}) /\ post' = post BY <1>6, DtqStep, OthersPostNone
  <2>2. PICK x \in Dtq : DtqService(x) BY <1>6 DEF DtqNext, DtqService
  <2>3. \A o \in Mpl \cup Mbf : o \in Obj \ {x} BY KindsApart
  <2> QED BY <1>6, <2>1, <2>2, <2>3, DtqStill, OthersLook
<1>7. CASE UNCHANGED <<mplvars, mbfvars>> /\ MbxNext
  <2>1. Begins({"MBX"}) /\ post' = post BY <1>7, MbxStep, OthersPostNone
  <2>2. \A o \in Mpl \cup Mbf : o \in Obj \ Mbx BY KindsApart
  <2> QED BY <1>7, <2>1, <2>2, MbxStill, OthersLook
<1>8. CASE UNCHANGED <<mplvars, mbfvars>> /\ PorNext
  <2>1. Begins({"ACP", "CAL", "RDV"}) /\ post' = post BY <1>8, PorStep, OthersPostNone
  <2>2. \A o \in Mpl \cup Mbf : o \in Obj \ Por BY KindsApart
  <2> QED BY <1>8, <2>1, <2>2, PorStill, OthersLook
<1>9. CASE UNCHANGED <<mplvars, mbfvars>> /\ MpfNext
  <2>1. Begins({"MPF"}) /\ post' = post BY <1>9, MpfStep, OthersPostNone
  <2>2. \A o \in Mpl \cup Mbf : o \in Obj \ Mpf BY KindsApart
  <2> QED BY <1>9, <2>1, <2>2, MpfStill, OthersLook
<1>10. CASE chk = NONE /\ UNCHANGED mplvars /\ MbfNext
  <2>1. Looked' /\ Posted' BY <1>1, <1>10, MbfLooked
  <2>2. MbfIdle' BY <1>1, <1>10, MbfHolds
  <2> QED BY <2>1, <2>2 DEF MemoryInv
<1>11. CASE chk = NONE /\ UNCHANGED mbfvars /\ MplNext
  <2>1. Looked' /\ Posted' BY <1>1, <1>11, MplLooked
  <2>2. Begins({"MPL"}) BY <1>11, MplStep
  <2>3. UNCHANGED <<frsz, mbfsz>> BY <1>11 DEF mbfvars
  <2>4. MbfIdle' BY <1>1, <2>2, <2>3, MbfEnds
  <2> QED BY <2>1, <2>4 DEF MemoryInv
<1>12. CASE Serving
  <2>1. Looked' /\ Posted' BY <1>1, <1>12, ServingLooked
  <2>2. CASE \E o \in Mbf : ChkMbf(o)
    <3>1. MbfIdle' BY <1>1, <2>2, ChkMbfHolds
    <3> QED BY <2>1, <3>1 DEF MemoryInv
  <2>3. CASE UNCHANGED mbfvars
    <3>1. Begins({}) BY <1>12, ServingStep
    <3>2. UNCHANGED <<frsz, mbfsz>> BY <2>3 DEF mbfvars
    <3>3. MbfIdle' BY <1>1, <3>1, <3>2, MbfEnds
    <3> QED BY <2>1, <3>3 DEF MemoryInv
  <2> QED BY <1>12, <2>2, <2>3 DEF Serving
<1> QED
  BY <1>2, <1>3, <1>4, <1>5, <1>6, <1>7, <1>8, <1>9, <1>10, <1>11, <1>12 DEF Service

(* What is kept when a look at a pool is overtaken, too. *)
MbfKept == Posted /\ MbfIdle /\ \A o \in objs \cap Mbf : LookedAt(o)
MemoryKept == MbfKept /\ (overtaken \/ MemoryInv)

(* LEMMA: every step keeps it. *)
LEMMA MemoryStep ==
    ASSUME Steady, Linked, Asking, Linked', ~FwdPri, RingInv, PoolsKept, MemoryKept,
           [Next]_vars
    PROVE  MemoryKept'
<1>1. CASE overtaken' /\ UNCHANGED apart
  <2>1. UNCHANGED <<objs, chk, owed, post, sque, wsts, wobj, par, frsz, mbfsz>>
    BY <1>1 DEF apart, wvars, waiting, steady, mbfvars
  <2>2. Posted' /\ MbfIdle' BY <2>1 DEF MemoryKept, MbfKept, Posted, MbfIdle
  <2>3. ASSUME NEW o \in objs' \cap Mbf PROVE LookedAt(o)'
    <3>1. LookedAt(o) /\ o \notin Mpl BY <2>1, KindsApart DEF MemoryKept, MbfKept
    <3> QED BY <2>1, <3>1 DEF LookedAt, Pending, Room, Fit
  <2> QED BY <1>1, <2>2, <2>3 DEF MemoryKept, MbfKept
<1>2. CASE ~overtaken /\ (UNCHANGED vars \/ Service \/ Serving)
  <2>1. MemoryInv /\ DOMAIN mem = Mpl BY <1>2 DEF MemoryKept, PoolsKept, MplTypeOK
  <2>2. MemoryInv' BY <1>2, <2>1, MemoryServed
  <2> QED BY <2>2 DEF MemoryKept, MbfKept, MemoryInv, Looked
<1>3. CASE overtaken /\ UNCHANGED vars
  <2>1. overtaken' /\ UNCHANGED apart BY <1>3 DEF vars, apart
  <2> QED BY <1>1, <2>1
<1> QED BY <1>1, <1>2, <1>3, StepCases

(* THEOREM: the first task in the queue of a memory pool, or the first     *)
(* sender at a message buffer, waits for room that is not there, unless a  *)
(* task whose wait timed out has still to look at the pool, or it is known *)
(* (owed) that nobody will look; and a receiver waits only while its       *)
(* buffer is empty and no sender waits.  Of pools it says so until a look  *)
(* outside the kernel is overtaken.                                        *)
THEOREM NoMemoryWaitsIdly ==
    ASSUME FwdPri = FALSE
    PROVE  Spec => []NoIdleMemory
<1>1. Init => Steady /\ Linked /\ Asking /\ RingInv /\ PoolsKept /\ MemoryKept
  BY WaitsInit, RingInit, PoolInit, MemoryInit DEF MemoryKept, MbfKept, MemoryInv, Looked
<1>2. /\ Steady /\ Linked /\ Asking /\ RingInv /\ PoolsKept /\ MemoryKept
      /\ [Next]_vars
      => Steady' /\ Linked' /\ Asking' /\ RingInv' /\ PoolsKept' /\ MemoryKept'
  <2> SUFFICES ASSUME Steady, Linked, Asking, RingInv, PoolsKept, MemoryKept, [Next]_vars
               PROVE  Steady' /\ Linked' /\ Asking' /\ RingInv' /\ PoolsKept' /\ MemoryKept'
    OBVIOUS
  <2>1. Steady' /\ Linked' /\ Asking' BY WaitsStep
  <2>2. RingInv' /\ PoolsKept' BY RingStep, PoolStep
  <2>3. MemoryKept' BY <2>1, MemoryStep
  <2> QED BY <2>1, <2>2, <2>3
<1>3. Linked /\ Asking /\ MemoryKept => NoIdleMemory
  <2> SUFFICES ASSUME Linked, Asking, MemoryKept PROVE NoIdleMemory OBVIOUS
  <2>1. NoIdleMpl
    <3> SUFFICES ASSUME ~overtaken, NEW o \in objs \cap Mpl, chk = NONE, sque[o] # <<>>,
                        Fits(o, par[Head(sque[o])])
                 PROVE  o \in owed \/ \E t \in Task : post[t] = o
      BY DEF NoIdleMpl
    <3>1. LookedAt(o) BY DEF MemoryKept, MemoryInv, Looked
    <3>2. Pending(o) BY <3>1 DEF LookedAt, Room
    <3>3. o # NONE BY KindsApart
    <3> QED BY <3>2, <3>3 DEF Pending
  <2>2. NoIdleMbf
    <3> SUFFICES ASSUME NEW o \in objs \cap Mbf
                 PROVE  /\ que[o] # <<>> => frsz[o] = mbfsz[o] /\ sque[o] = <<>>
                        /\ chk = NONE /\ sque[o] # <<>> /\ Fit(o, par[Head(sque[o])])
                              => o \in owed
      BY DEF NoIdleMbf
    <3>1. que[o] # <<>> => frsz[o] = mbfsz[o] /\ sque[o] = <<>>
      BY ReceiversWait DEF MemoryKept, MbfKept
    <3>2. ASSUME chk = NONE, sque[o] # <<>>, Fit(o, par[Head(sque[o])]) PROVE o \in owed
      <4>1. o \notin Mpl /\ o # NONE BY KindsApart
      <4>2. LookedAt(o) BY DEF MemoryKept, MbfKept
      <4>3. Pending(o) BY <3>2, <4>1, <4>2 DEF LookedAt, Room
      <4>4. \A t \in Task : post[t] # o BY <4>1 DEF MemoryKept, MbfKept, Posted
      <4> QED BY <3>2, <4>1, <4>3, <4>4 DEF Pending
    <3> QED BY <3>1, <3>2
  <2> QED BY <2>1, <2>2 DEF NoIdleMemory
<1> QED BY <1>1, <1>2, <1>3, PTL DEF Spec

-----------------------------------------------------------------------------
(* THE LISTS OF MAILBOXES                                                  *)

(* The links of the messages lead from t to b through those of s. *)
Chain(t, b, links, s) ==
    /\ t = IF s = <<>> THEN NONE ELSE s[1]
    /\ s # <<>> => b = s[Len(s)]
    /\ \A i \in 1..Len(s) : links[s[i]] = IF i < Len(s) THEN s[i + 1] ELSE NONE

(* LEMMA: a message becomes the last of a list. *)
LEMMA ChainAppend ==
    ASSUME NEW s \in Seq(Msg), Once(s), NEW m \in Msg, m \notin ToSet(s), NEW t, NEW b,
           NEW k \in [Msg -> Msg \cup {NONE}], Chain(t, b, k, s)
    PROVE  /\ s = <<>> => Chain(m, m, [k EXCEPT ![m] = NONE], Append(s, m))
           /\ s # <<>> => /\ b \in Msg /\ b \in ToSet(s)
                          /\ Chain(t, m, [k EXCEPT ![b] = m, ![m] = NONE], Append(s, m))
<1>0. PICK n \in Nat : n = Len(s) OBVIOUS
<1>1. PICK r \in Seq(Msg) : r = Append(s, m) BY AppendOnce
<1>2. /\ Len(r) = n + 1 /\ r[n + 1] = m /\ r # <<>>
      /\ \A i \in 1..n : r[i] = s[i]
  BY <1>0, <1>1, AppendProperties
<1>3. ToSet(s) = {s[i] : i \in 1..n} BY <1>0, ToSetFacts
<1>4. \A i \in 1..n : s[i] \in Msg /\ s[i] # m BY <1>0, <1>3
<1>5. CASE s = <<>>
  <2>1. n = 0 /\ Len(r) = 1 /\ r[1] = m BY <1>0, <1>2, <1>5
  <2>2. [k EXCEPT ![m] = NONE][m] = NONE OBVIOUS
  <2>3. Chain(m, m, [k EXCEPT ![m] = NONE], r)
    BY <1>2, <2>1, <2>2 DEF Chain
  <2> QED BY <1>1, <1>5, <2>3
<1>6. CASE s # <<>>
  <2>1. n \in 1..n /\ n > 0 /\ 1 \in 1..n BY <1>0, <1>6
  <2>2. b = s[n] /\ t = s[1] BY <1>0, <1>6 DEF Chain
  <2>3. b \in Msg /\ b \in ToSet(s) /\ b # m BY <1>3, <1>4, <2>1, <2>2
  <2>4. PICK h : h = [k EXCEPT ![b] = m, ![m] = NONE] OBVIOUS
  <2>5. /\ h[m] = NONE /\ h[b] = m
        /\ \A x \in Msg : x # m /\ x # b => h[x] = k[x]
    BY <2>3, <2>4
  <2>6. ASSUME NEW i \in 1..Len(r)
        PROVE  h[r[i]] = IF i < Len(r) THEN r[i + 1] ELSE NONE
    <3>1. CASE i = n + 1 BY <1>2, <2>5, <3>1
    <3>2. CASE i = n BY <1>2, <2>1, <2>2, <2>5, <3>2
    <3>3. CASE i < n
      <4>1. i \in 1..n /\ i + 1 \in 1..n /\ i < Len(s) /\ i \in 1..Len(s) BY <1>0, <1>2, <3>3
      <4>2. s[i] # s[n] BY <1>0, <2>1, <3>3, <4>1 DEF Once
      <4>3. k[s[i]] = s[i + 1] BY <4>1 DEF Chain
      <4>4. h[s[i]] = k[s[i]] BY <1>4, <2>2, <2>5, <4>1, <4>2
      <4> QED BY <1>2, <3>3, <4>1, <4>3, <4>4
    <3>4. i = n + 1 \/ i = n \/ i < n BY <1>2
    <3> QED BY <3>1, <3>2, <3>3, <3>4
  <2>7. t = r[1] /\ m = r[Len(r)] BY <1>2, <2>1, <2>2
  <2>8. Chain(t, m, h, r) BY <1>2, <2>6, <2>7 DEF Chain
  <2> QED BY <1>1, <1>6, <2>3, <2>4, <2>8
<1> QED BY <1>5, <1>6

(* LEMMA: the first message of a list is taken. *)
LEMMA ChainTail ==
    ASSUME NEW s \in Seq(Msg), s # <<>>, NEW t, NEW b, NEW k, Chain(t, b, k, s)
    PROVE  Chain(k[t], b, k, Tail(s))
<1>0. PICK n \in Nat : n = Len(s) /\ n > 0 OBVIOUS
<1>1. PICK r \in Seq(Msg) : r = Tail(s) BY TailOnce
<1>2. Len(r) = n - 1 /\ \A i \in 1..(n - 1) : r[i] = s[i + 1] BY <1>0, <1>1
<1>3. t = s[1] /\ b = s[n] /\ k[s[1]] = IF 1 < n THEN s[2] ELSE NONE BY <1>0 DEF Chain
<1>4. k[t] = IF r = <<>> THEN NONE ELSE r[1]
  <2>1. CASE n = 1 BY <1>2, <1>3, <2>1
  <2>2. CASE n > 1
    <3>1. r # <<>> /\ 1 \in 1..(n - 1) /\ 1 + 1 = 2 BY <1>2, <2>2
    <3> QED BY <1>2, <1>3, <2>2, <3>1
  <2> QED BY <1>0, <2>1, <2>2
<1>5. r # <<>> => b = r[Len(r)]
  <2> SUFFICES ASSUME r # <<>> PROVE b = r[Len(r)] OBVIOUS
  <2>1. Len(r) > 0 OBVIOUS
  <2>2. n - 1 \in 1..(n - 1) /\ (n - 1) + 1 = n BY <1>0, <1>2, <2>1
  <2>3. r[n - 1] = s[(n - 1) + 1] BY <1>2, <2>2
  <2> QED BY <1>2, <1>3, <2>2, <2>3
<1>6. ASSUME NEW i \in 1..Len(r) PROVE k[r[i]] = IF i < Len(r) THEN r[i + 1] ELSE NONE
  <2>1. i \in 1..(n - 1) /\ i + 1 \in 1..n BY <1>0, <1>2
  <2>2. r[i] = s[i + 1] BY <1>2, <2>1
  <2>3. k[s[i + 1]] = IF i + 1 < n THEN s[(i + 1) + 1] ELSE NONE BY <1>0, <2>1 DEF Chain
  <2>4. i < Len(r) => i + 1 \in 1..(n - 1) BY <1>0, <1>2, <2>1
  <2>5. i < Len(r) => r[i + 1] = s[(i + 1) + 1] BY <1>2, <2>4
  <2>6. i < Len(r) <=> i + 1 < n BY <1>0, <1>2, <2>1
  <2> QED BY <2>2, <2>3, <2>5, <2>6
<1> QED BY <1>1, <1>4, <1>5, <1>6 DEF Chain

(* LEMMA: the links of other messages do not matter. *)
LEMMA ChainSame ==
    ASSUME NEW s \in Seq(Msg), NEW t, NEW b, NEW k, Chain(t, b, k, s),
           NEW h, \A m \in ToSet(s) : h[m] = k[m]
    PROVE  Chain(t, b, h, s)
<1>1. ToSet(s) = {s[i] : i \in 1..Len(s)} BY ToSetFacts
<1> QED BY <1>1 DEF Chain

(* The messages that belong to a list by the attributes of a mailbox. *)
OfList(a, l) == {m \in Msg : (IF "MPRI" \in a THEN MsgPri[m] ELSE 0) = l}

(* Every message is in one mailbox at most, once, and is linked there. *)
MailInv ==
    /\ MbxTypeOK /\ DOMAIN atr = Obj
    /\ \A o \in Mbx : Once(sent[o]) /\ (o \notin objs => sent[o] = <<>>)
    /\ \A o, x \in Mbx : o # x => ToSet(sent[o]) \cap ToSet(sent[x]) = {}
    /\ \A o \in objs \cap Mbx, l \in Lists :
          Chain(top[o][l], btm[o][l], msgque, Keep(sent[o], OfList(atr[o], l)))

(* LEMMA: what happens in one mailbox. *)
LEMMA OneMailbox ==
    ASSUME MailInv, MbxTypeOK', DOMAIN atr' = Obj, NEW o \in Mbx,
           \A x \in Mbx \ {o} : /\ top'[x] = top[x] /\ btm'[x] = btm[x] /\ sent'[x] = sent[x]
                                /\ x \in objs <=> x \in objs'
                                /\ x \in objs => atr'[x] = atr[x]
                                /\ \A m \in ToSet(sent[x]) : msgque'[m] = msgque[m]
                                /\ ToSet(sent'[o]) \cap ToSet(sent[x]) = {},
           Once(sent'[o]), o \notin objs' => sent'[o] = <<>>,
           o \in objs' => \A l \in Lists :
              Chain(top'[o][l], btm'[o][l], msgque', Keep(sent'[o], OfList(atr'[o], l)))
    PROVE  MailInv'
<1>1. \A x \in Mbx : Once(sent'[x]) /\ (x \notin objs' => sent'[x] = <<>>)
  <2>1. ASSUME NEW x \in Mbx \ {o} PROVE Once(sent'[x]) /\ (x \notin objs' => sent'[x] = <<>>)
    BY DEF MailInv
  <2> QED BY <2>1
<1>2. ASSUME NEW x \in Mbx, NEW y \in Mbx, x # y
      PROVE  ToSet(sent'[x]) \cap ToSet(sent'[y]) = {}
  <2>1. CASE x = o BY <1>2, <2>1
  <2>2. CASE y = o BY <1>2, <2>2
  <2>3. CASE x # o /\ y # o BY <1>2, <2>3 DEF MailInv
  <2> QED BY <2>1, <2>2, <2>3
<1>3. ASSUME NEW x \in objs' \cap Mbx, NEW l \in Lists
      PROVE  Chain(top'[x][l], btm'[x][l], msgque', Keep(sent'[x], OfList(atr'[x], l)))
  <2>1. CASE x = o BY <1>3, <2>1
  <2>2. CASE x # o
    <3>1. PICK s : s = Keep(sent[x], OfList(atr[x], l)) OBVIOUS
    <3>2. sent[x] \in Seq(Msg) BY DEF MailInv, MbxTypeOK
    <3>3. s \in Seq(Msg) /\ ToSet(s) \subseteq ToSet(sent[x]) BY <3>1, <3>2, KeepOnce
    <3>4. Chain(top[x][l], btm[x][l], msgque, s) BY <2>2, <3>1 DEF MailInv
    <3>5. Chain(top[x][l], btm[x][l], msgque', s) BY <2>2, <3>3, <3>4, ChainSame
    <3> QED BY <2>2, <3>1, <3>5
  <2> QED BY <2>1, <2>2
<1> QED BY <1>1, <1>2, <1>3 DEF MailInv

(* LEMMA: nor do the mailboxes change otherwise. *)
LEMMA MailUntouched ==
    ASSUME MailInv, UNCHANGED mbxvars, DOMAIN atr' = Obj,
           \A o \in Mbx : /\ o \in objs <=> o \in objs'
                          /\ o \in objs => atr'[o] = atr[o]
    PROVE  MailInv'
BY DEF MailInv, MbxTypeOK, mbxvars

(* LEMMA: a message goes to its list, behind the others. *)
LEMMA SndMbxKeeps ==
    ASSUME MailInv, NEW o \in Mbx, NEW m \in Msg, SndMbx(o, m)
    PROVE  MailInv'
<1>1. o \in objs /\ UNCHANGED <<objs, atr>> /\ Own(m) BY DEF SndMbx, steady
<1>0. DOMAIN atr' = Obj BY <1>1 DEF MailInv
<1>2. CASE sque[o] # <<>>
  <2>1. UNCHANGED mbxvars BY <1>2 DEF SndMbx
  <2> QED BY <1>0, <1>1, <2>1, MailUntouched
<1>3. CASE sque[o] = <<>>
  <2>1. PICK q \in Seq(Msg) : q = sent[o] BY DEF MailInv, MbxTypeOK
  <2>2. PICK l : l = ListOf(o, m) OBVIOUS
  <2>3. l \in Lists BY <2>2, MailboxAssumption DEF ListOf, Lists
  <2>4. PICK tf \in [Lists -> Msg \cup {NONE}], bf \in [Lists -> Msg \cup {NONE}],
             k \in [Msg -> Msg \cup {NONE}] : tf = top[o] /\ bf = btm[o] /\ k = msgque
    BY DEF MailInv, MbxTypeOK
  <2>5. ASSUME NEW x \in Mbx PROVE m \notin ToSet(sent[x])
    <3>1. sent[x] \in Seq(Msg) BY DEF MailInv, MbxTypeOK
    <3> QED BY <1>1, <3>1, ToSetFacts DEF Own, Members
  <2>a. PICK p : p = Append(q, m) OBVIOUS
  <2>b. PICK bg \in [Lists -> Msg \cup {NONE}] : bg = [bf EXCEPT ![l] = m] BY <2>3
  <2>6. p \in Seq(Msg) /\ ToSet(p) = ToSet(q) \cup {m} /\ Once(p)
    BY <2>1, <2>5, <2>a, AppendOnce DEF MailInv
  <2>7. PICK a : a = atr[o] OBVIOUS
  <2>8. ASSUME NEW i \in Lists
        PROVE  /\ Keep(p, OfList(a, i)) =
                     IF i = l THEN Append(Keep(q, OfList(a, i)), m) ELSE Keep(q, OfList(a, i))
               /\ Keep(q, OfList(a, i)) \in Seq(Msg)
               /\ ToSet(Keep(q, OfList(a, i))) = ToSet(q) \cap OfList(a, i)
               /\ Once(Keep(q, OfList(a, i)))
               /\ Chain(tf[i], bf[i], k, Keep(q, OfList(a, i)))
    <3>1. m \in OfList(a, i) <=> i = l BY <2>2, <2>7 DEF OfList, ListOf
    <3>2. Once(q) BY <2>1 DEF MailInv
    <3>3. Chain(tf[i], bf[i], k, Keep(q, OfList(a, i)))
      BY <1>1, <2>1, <2>4, <2>7 DEF MailInv
    <3>4. Keep(p, OfList(a, i)) = IF m \in OfList(a, i) THEN Append(Keep(q, OfList(a, i)), m)
                                  ELSE Keep(q, OfList(a, i))
      BY <2>a, KeepAppend
    <3>5. /\ Keep(q, OfList(a, i)) \in Seq(Msg) /\ Once(Keep(q, OfList(a, i)))
          /\ ToSet(Keep(q, OfList(a, i))) = ToSet(q) \cap OfList(a, i)
      BY <3>2, KeepOnce
    <3> QED BY <3>1, <3>3, <3>4, <3>5
  <2>9. PICK s \in Seq(Msg) : /\ s = Keep(q, OfList(a, l)) /\ Once(s)
                              /\ ToSet(s) = ToSet(q) \cap OfList(a, l)
                              /\ Chain(tf[l], bf[l], k, s)
    BY <2>3, <2>8
  <2>10. m \notin ToSet(s) /\ m \notin ToSet(q) BY <2>1, <2>5, <2>9
  <2>11. Empty(o, l) <=> s = <<>>
    <3>1. s # <<>> => s[1] \in Msg OBVIOUS
    <3> QED BY <2>4, <2>9, <3>1, MailboxAssumption DEF Chain, Empty
  <2>12. sent' = [sent EXCEPT ![o] = p] /\ btm' = [btm EXCEPT ![o] = bg]
    BY <1>3, <2>1, <2>2, <2>4, <2>a, <2>b DEF SndMbx
  <2>13. \A x \in Mbx \ {o} : ToSet(p) \cap ToSet(sent[x]) = {}
    <3> SUFFICES ASSUME NEW x \in Mbx \ {o} PROVE ToSet(p) \cap ToSet(sent[x]) = {} OBVIOUS
    <3>1. ToSet(q) \cap ToSet(sent[x]) = {} BY <2>1 DEF MailInv
    <3>2. m \notin ToSet(sent[x]) BY <2>5
    <3> QED BY <2>6, <3>1, <3>2
  <2>14. bg[l] = m /\ \A i \in Lists : i # l => bg[i] = bf[i] BY <2>3, <2>b
  <2>15. CASE s = <<>>
    <3>1. PICK h \in [Msg -> Msg \cup {NONE}] : h = [k EXCEPT ![m] = NONE] OBVIOUS
    <3>2. PICK t \in [Lists -> Msg \cup {NONE}] : t = [tf EXCEPT ![l] = m] BY <2>3
    <3>3. top' = [top EXCEPT ![o] = t] /\ msgque' = h
      BY <1>3, <2>2, <2>4, <2>11, <2>15, <3>1, <3>2 DEF SndMbx
    <3>4. \A x \in Msg : x # m => h[x] = k[x] BY <3>1
    <3>5. \A x \in Mbx \ {o} : \A y \in ToSet(sent[x]) : h[y] = msgque[y]
      <4>1. \A x \in Mbx : ToSet(sent[x]) \subseteq Msg
        BY ToSetFacts DEF MailInv, MbxTypeOK
      <4> QED BY <2>4, <2>5, <3>4, <4>1
    <3>6. ASSUME NEW i \in Lists
          PROVE  Chain(t[i], bg[i], h, Keep(p, OfList(a, i)))
      <4>1. CASE i = l
        <5>1. Chain(m, m, h, Append(s, m)) BY <2>9, <2>10, <2>15, <3>1, ChainAppend
        <5>2. t[i] = m /\ bg[i] = m BY <2>3, <2>14, <3>2, <4>1
        <5> QED BY <2>8, <2>9, <4>1, <5>1, <5>2
      <4>2. CASE i # l
        <5>1. t[i] = tf[i] /\ bg[i] = bf[i] BY <2>3, <2>14, <3>2, <4>2
        <5>2. PICK r \in Seq(Msg) : r = Keep(q, OfList(a, i)) BY <2>8
        <5>c. ToSet(r) = ToSet(q) \cap OfList(a, i) BY <2>8, <5>2
        <5>3. \A y \in ToSet(r) : y \in Msg /\ y # m BY <2>10, <5>c DEF OfList
        <5>a. Chain(tf[i], bf[i], k, r) BY <2>8, <5>2
        <5>b. \A y \in ToSet(r) : h[y] = k[y] BY <3>4, <5>3
        <5>4. Chain(tf[i], bf[i], h, r) BY <5>a, <5>b, ChainSame
        <5>5. Keep(p, OfList(a, i)) = r BY <2>8, <4>2, <5>2
        <5>6. Chain(t[i], bg[i], h, r) BY <5>1, <5>4
        <5> QED BY <5>5, <5>6
      <4> QED BY <4>1, <4>2
    <3>7. \A x \in Mbx \ {o} : top'[x] = top[x] /\ btm'[x] = btm[x] /\ sent'[x] = sent[x]
      BY <2>12, <3>3 DEF MailInv, MbxTypeOK
    <3>8. top'[o] = t /\ btm'[o] = bg /\ sent'[o] = p
      BY <2>12, <3>3 DEF MailInv, MbxTypeOK
    <3>9. MbxTypeOK' BY <2>6, <2>12, <3>3 DEF MailInv, MbxTypeOK
    <3>10. \A i \in Lists :
              Chain(top'[o][i], btm'[o][i], msgque', Keep(sent'[o], OfList(atr'[o], i)))
      BY <1>1, <2>7, <3>3, <3>6, <3>8
    <3> QED BY <1>0, <1>1, <2>6, <2>13, <3>3, <3>5, <3>7, <3>8, <3>9, <3>10, OneMailbox
  <2>16. CASE s # <<>>
    <3>0. PICK b \in Msg : b = bf[l] /\ b \in ToSet(s) BY <2>9, <2>10, <2>16, ChainAppend
    <3>1. PICK h \in [Msg -> Msg \cup {NONE}] : h = [k EXCEPT ![b] = m, ![m] = NONE] OBVIOUS
    <3>2. top' = [top EXCEPT ![o] = tf]
      <4>1. top' = top BY <1>3, <2>2, <2>11, <2>16 DEF SndMbx
      <4> QED BY <2>4, <4>1 DEF MailInv, MbxTypeOK
    <3>3. msgque' = h BY <1>3, <2>2, <2>4, <2>11, <2>16, <3>0, <3>1 DEF SndMbx
    <3>4. \A x \in Msg : x # m /\ x # b => h[x] = k[x] BY <3>1
    <3>5. \A x \in Mbx \ {o} : \A y \in ToSet(sent[x]) : h[y] = msgque[y]
      <4>1. \A x \in Mbx : ToSet(sent[x]) \subseteq Msg
        BY ToSetFacts DEF MailInv, MbxTypeOK
      <4>2. b \in ToSet(sent[o]) BY <2>1, <2>9, <3>0
      <4>3. \A x \in Mbx \ {o} : b \notin ToSet(sent[x]) BY <4>2 DEF MailInv
      <4> QED BY <2>4, <2>5, <3>4, <4>1, <4>3
    <3>6. ASSUME NEW i \in Lists
          PROVE  Chain(tf[i], bg[i], h, Keep(p, OfList(a, i)))
      <4>1. CASE i = l
        <5>1. Chain(tf[l], m, h, Append(s, m))
          BY <2>9, <2>10, <2>16, <3>0, <3>1, ChainAppend
        <5>2. bg[i] = m BY <2>14, <4>1
        <5> QED BY <2>8, <2>9, <4>1, <5>1, <5>2
      <4>2. CASE i # l
        <5>1. bg[i] = bf[i] BY <2>14, <4>2
        <5>2. PICK r \in Seq(Msg) : r = Keep(q, OfList(a, i)) BY <2>8
        <5>a. b \in OfList(a, l) BY <2>9, <3>0
        <5>b. b \notin OfList(a, i) BY <4>2, <5>a DEF OfList
        <5>c. ToSet(r) = ToSet(q) \cap OfList(a, i) BY <2>8, <5>2
        <5>3. \A y \in ToSet(r) : y \in Msg /\ y # m /\ y # b
          BY <2>10, <5>b, <5>c DEF OfList
        <5>d. Chain(tf[i], bf[i], k, r) BY <2>8, <5>2
        <5>e. \A y \in ToSet(r) : h[y] = k[y] BY <3>4, <5>3
        <5>4. Chain(tf[i], bf[i], h, r) BY <5>d, <5>e, ChainSame
        <5>5. Keep(p, OfList(a, i)) = r BY <2>8, <4>2, <5>2
        <5>6. Chain(tf[i], bg[i], h, r) BY <5>1, <5>4
        <5> QED BY <5>5, <5>6
      <4> QED BY <4>1, <4>2
    <3>7. \A x \in Mbx \ {o} : top'[x] = top[x] /\ btm'[x] = btm[x] /\ sent'[x] = sent[x]
      BY <2>12, <3>2, <3>3 DEF MailInv, MbxTypeOK
    <3>8. top'[o] = tf /\ btm'[o] = bg /\ sent'[o] = p
      BY <2>12, <3>2, <3>3 DEF MailInv, MbxTypeOK
    <3>9. MbxTypeOK' BY <2>6, <2>12, <3>2, <3>3 DEF MailInv, MbxTypeOK
    <3>10. \A i \in Lists :
              Chain(top'[o][i], btm'[o][i], msgque', Keep(sent'[o], OfList(atr'[o], i)))
      BY <1>1, <2>7, <3>3, <3>6, <3>8
    <3> QED BY <1>0, <1>1, <2>6, <2>13, <3>3, <3>5, <3>7, <3>8, <3>9, <3>10, OneMailbox
  <2> QED BY <2>15, <2>16
<1> QED BY <1>2, <1>3

(* LEMMA: the first message of the most urgent list that has one is taken. *)
LEMMA RcvMbxKeeps ==
    ASSUME MailInv, NEW o \in Mbx, RcvMbx(o)
    PROVE  MailInv'
<1>1. o \in objs /\ UNCHANGED <<objs, atr>> /\ UNCHANGED <<btm, msgque>>
  BY DEF RcvMbx, steady
<1>2. PICK l \in Lists : /\ top[o][l] # NONE
                         /\ top' = [top EXCEPT ![o] = [top[o] EXCEPT ![l] = msgque[top[o][l]]]]
                         /\ sent' = [sent EXCEPT ![o] = Keep(sent[o], Msg \ {top[o][l]})]
  BY DEF RcvMbx, Filled, MailInv, MbxTypeOK
<1>3. PICK q \in Seq(Msg) : q = sent[o] BY DEF MailInv, MbxTypeOK
<1>4. PICK m \in Msg : m = top[o][l] BY <1>2 DEF MailInv, MbxTypeOK
<1>5. PICK a : a = atr[o] OBVIOUS
<1>6. PICK p : p = Keep(q, Msg \ {m}) OBVIOUS
<1>7. Once(q) /\ p \in Seq(Msg) /\ ToSet(p) \subseteq ToSet(q) /\ Once(p)
  BY <1>3, <1>6, KeepOnce DEF MailInv
<1>8. \A i \in Lists : Chain(top[o][i], btm[o][i], msgque, Keep(q, OfList(a, i)))
  BY <1>1, <1>3, <1>5 DEF MailInv
<1>9. \A i \in Lists : /\ Keep(q, OfList(a, i)) \in Seq(Msg) /\ Once(Keep(q, OfList(a, i)))
                       /\ ToSet(Keep(q, OfList(a, i))) = ToSet(q) \cap OfList(a, i)
  BY <1>7, KeepOnce
<1>10. PICK s \in Seq(Msg) : /\ s = Keep(q, OfList(a, l)) /\ Once(s)
                             /\ ToSet(s) = ToSet(q) \cap OfList(a, l)
                             /\ Chain(m, btm[o][l], msgque, s)
  BY <1>4, <1>8, <1>9
<1>11. s # <<>> /\ m = Head(s)
  <2>1. m # NONE BY <1>2, <1>4
  <2>2. s # <<>> => Head(s) = s[1] OBVIOUS
  <2> QED BY <1>10, <2>1, <2>2 DEF Chain
<1>12. m \in ToSet(s) BY <1>11, TailOnce
<1>13. Keep(p, OfList(a, l)) = Tail(s)
  <2>1. Keep(p, OfList(a, l)) = Keep(q, (Msg \ {m}) \cap OfList(a, l)) BY <1>6, KeepTwice
  <2>2. Keep(s, Msg \ {m}) = Keep(q, OfList(a, l) \cap (Msg \ {m})) BY <1>10, KeepTwice
  <2>3. (Msg \ {m}) \cap OfList(a, l) = OfList(a, l) \cap (Msg \ {m}) OBVIOUS
  <2>4. Keep(s, Msg \ {m}) = Tail(s) BY <1>10, <1>11, KeepEnds
  <2> QED BY <2>1, <2>2, <2>3, <2>4
<1>14. ASSUME NEW i \in Lists, i # l PROVE Keep(p, OfList(a, i)) = Keep(q, OfList(a, i))
  <2>1. m \in OfList(a, l) BY <1>10, <1>12
  <2>2. m \notin OfList(a, i) BY <1>14, <2>1 DEF OfList
  <2>3. OfList(a, i) \subseteq Msg BY DEF OfList
  <2>4. (Msg \ {m}) \cap OfList(a, i) = OfList(a, i) BY <2>2, <2>3
  <2>5. Keep(p, OfList(a, i)) = Keep(q, (Msg \ {m}) \cap OfList(a, i)) BY <1>6, KeepTwice
  <2> QED BY <2>4, <2>5
<1>15. /\ \A x \in Mbx \ {o} : top'[x] = top[x] /\ btm'[x] = btm[x] /\ sent'[x] = sent[x]
       /\ sent'[o] = p /\ btm'[o] = btm[o] /\ top'[o][l] = msgque[m]
       /\ \A i \in Lists : i # l => top'[o][i] = top[o][i]
  BY <1>1, <1>2, <1>3, <1>4, <1>6 DEF MailInv, MbxTypeOK
<1>16. MbxTypeOK'
  <2>1. msgque[m] \in Msg \cup {NONE} BY DEF MailInv, MbxTypeOK
  <2>2. [top[o] EXCEPT ![l] = msgque[m]] \in [Lists -> Msg \cup {NONE}]
    BY <2>1 DEF MailInv, MbxTypeOK
  <2>3. top' \in [Mbx -> [Lists -> Msg \cup {NONE}]] BY <1>2, <1>4, <2>2 DEF MailInv, MbxTypeOK
  <2>4. sent' \in [Mbx -> Seq(Msg)] BY <1>2, <1>3, <1>4, <1>6, <1>7 DEF MailInv, MbxTypeOK
  <2> QED BY <1>1, <2>3, <2>4 DEF MailInv, MbxTypeOK
<1>17. ASSUME NEW i \in Lists
       PROVE  Chain(top'[o][i], btm'[o][i], msgque', Keep(sent'[o], OfList(atr'[o], i)))
  <2>1. CASE i = l
    <3>1. Chain(msgque[m], btm[o][l], msgque, Tail(s)) BY <1>10, <1>11, ChainTail
    <3> QED BY <1>1, <1>5, <1>13, <1>15, <2>1, <3>1
  <2>2. CASE i # l BY <1>1, <1>5, <1>8, <1>14, <1>15, <2>2
  <2> QED BY <2>1, <2>2
<1>18. \A x \in Mbx \ {o} : ToSet(sent'[o]) \cap ToSet(sent[x]) = {}
  <2> SUFFICES ASSUME NEW x \in Mbx \ {o} PROVE ToSet(sent'[o]) \cap ToSet(sent[x]) = {}
    OBVIOUS
  <2>1. ToSet(q) \cap ToSet(sent[x]) = {} BY <1>3 DEF MailInv
  <2> QED BY <1>7, <1>15, <2>1
<1>19. DOMAIN atr' = Obj BY <1>1 DEF MailInv
<1> QED BY <1>19, <1>1, <1>7, <1>15, <1>16, <1>17, <1>18, OneMailbox

(* LEMMA: a mailbox without messages. *)
LEMMA EmptyMailbox ==
    ASSUME MailInv, NEW o \in Mbx, DOMAIN atr' = Obj,
           top' = [top EXCEPT ![o] = [l \in Lists |-> NONE]],
           btm' = [btm EXCEPT ![o] = [l \in Lists |-> NONE]],
           msgque' \in [Msg -> Msg \cup {NONE}],
           \A m \in Msg : m \notin ToSet(sent[o]) => msgque'[m] = msgque[m],
           sent' = [sent EXCEPT ![o] = <<>>],
           \A x \in Mbx \ {o} : (x \in objs <=> x \in objs') /\ atr'[x] = atr[x]
    PROVE  MailInv'
<1>1. /\ \A x \in Mbx \ {o} : top'[x] = top[x] /\ btm'[x] = btm[x] /\ sent'[x] = sent[x]
      /\ sent'[o] = <<>> /\ \A l \in Lists : top'[o][l] = NONE /\ btm'[o][l] = NONE
  BY DEF MailInv, MbxTypeOK
<1>2. <<>> \in Seq(Msg) /\ ToSet(<<>>) = {} /\ Once(<<>>)
  <2>1. <<>> \in Seq(Msg) OBVIOUS
  <2> QED BY <2>1, ToSetFacts
<1>3. MbxTypeOK'
  <2>1. [l \in Lists |-> NONE] \in [Lists -> Msg \cup {NONE}] OBVIOUS
  <2> QED BY <1>2, <2>1 DEF MailInv, MbxTypeOK
<1>4. ASSUME NEW i \in Lists
      PROVE  Chain(top'[o][i], btm'[o][i], msgque', Keep(sent'[o], OfList(atr'[o], i)))
  <2>1. Keep(<<>>, OfList(atr'[o], i)) = <<>> BY <1>2, KeepEnds
  <2>2. Chain(NONE, NONE, msgque', <<>>) BY <1>2 DEF Chain
  <2> QED BY <1>1, <2>1, <2>2
<1>5. ASSUME NEW x \in Mbx \ {o}, NEW m \in ToSet(sent[x]) PROVE msgque'[m] = msgque[m]
  <2>1. sent[x] \in Seq(Msg) BY DEF MailInv, MbxTypeOK
  <2>2. m \in Msg BY <2>1, ToSetFacts
  <2>3. m \notin ToSet(sent[o]) BY DEF MailInv
  <2> QED BY <2>2, <2>3
<1> QED BY <1>1, <1>2, <1>3, <1>4, <1>5, OneMailbox

(* LEMMA: every service of a mailbox keeps the lists. *)
LEMMA MbxNextKeeps ==
    ASSUME MailInv, MbxNext
    PROVE  MailInv'
<1>1. PICK o \in Mbx \cap ids :
         \/ \E a \in MbxAtr : CreMbx(o, a)
         \/ DelMbx(o) \/ RcvMbx(o)
         \/ \E m \in Msg : SndMbx(o, m)
         \/ \E t \in Task, timed \in BOOLEAN : RcvMbxWait(t, o, timed)
  BY DEF MbxNext
<1>2. Mbx \subseteq Obj BY KindsApart
<1>3. ASSUME NEW a \in MbxAtr, CreMbx(o, a) PROVE MailInv'
  <2>1. /\ o \notin objs /\ objs' = objs \cup {o} /\ atr' = [atr EXCEPT ![o] = a]
        /\ msgque' = msgque /\ sent' = sent
    BY <1>3 DEF CreMbx, Create
  <2>2. sent[o] = <<>> BY <2>1 DEF MailInv
  <2>3. sent' = [sent EXCEPT ![o] = <<>>] BY <2>1, <2>2 DEF MailInv, MbxTypeOK
  <2>4. \A x \in Mbx \ {o} : (x \in objs <=> x \in objs') /\ atr'[x] = atr[x]
    BY <1>2, <2>1 DEF MailInv
  <2>5. msgque' \in [Msg -> Msg \cup {NONE}] /\ DOMAIN atr' = Obj BY <2>1 DEF MailInv, MbxTypeOK
  <2> QED BY <1>3, <2>1, <2>3, <2>4, <2>5, EmptyMailbox DEF CreMbx
<1>4. CASE DelMbx(o)
  <2>1. objs' = objs \ {o} /\ atr' = [atr EXCEPT ![o] = {}] BY <1>4 DEF DelMbx, Delete
  <2>2. \A x \in Mbx \ {o} : (x \in objs <=> x \in objs') /\ atr'[x] = atr[x]
    BY <1>2, <2>1 DEF MailInv
  <2>3. msgque' = [m \in Msg |-> IF m \in Members(sent[o]) THEN NONE ELSE msgque[m]]
    BY <1>4 DEF DelMbx
  <2>4. Members(sent[o]) = ToSet(sent[o])
    <3>1. sent[o] \in Seq(Msg) BY DEF MailInv, MbxTypeOK
    <3> QED BY <3>1, ToSetFacts DEF Members
  <2>5. /\ msgque' \in [Msg -> Msg \cup {NONE}] /\ DOMAIN atr' = Obj
        /\ \A m \in Msg : m \notin ToSet(sent[o]) => msgque'[m] = msgque[m]
    BY <2>1, <2>3, <2>4 DEF MailInv, MbxTypeOK
  <2> QED BY <1>4, <2>2, <2>5, EmptyMailbox DEF DelMbx
<1>5. ASSUME NEW t, NEW timed, RcvMbxWait(t, o, timed) PROVE MailInv'
  <2>1. UNCHANGED <<objs, atr>> /\ UNCHANGED mbxvars BY <1>5 DEF RcvMbxWait, steady
  <2>2. DOMAIN atr' = Obj BY <2>1 DEF MailInv
  <2> QED BY <2>1, <2>2, MailUntouched
<1> QED BY <1>1, <1>3, <1>4, <1>5, RcvMbxKeeps, SndMbxKeeps

(* A step creates and deletes no mailbox and leaves their attributes. *)
SameMailboxes ==
    DOMAIN atr' = Obj /\ \A o \in Mbx : (o \in objs <=> o \in objs') /\ (o \in objs => atr'[o] = atr[o])

(* LEMMA: no other step creates or deletes a mailbox. *)
LEMMA OthersKeepMailboxes ==
    ASSUME DOMAIN atr = Obj,
           TaskNext \/ SemNext \/ FlgNext \/ DtqNext \/ MbfNext \/ PorNext
             \/ MpfNext \/ MplNext \/ Serving
    PROVE  SameMailboxes
<1>0. /\ Sem \cap Mbx = {} /\ Flg \cap Mbx = {} /\ Dtq \cap Mbx = {} /\ Mbf \cap Mbx = {}
      /\ Por \cap Mbx = {} /\ Mpf \cap Mbx = {} /\ Mpl \cap Mbx = {} /\ Mbx \subseteq Obj
  BY KindsApart
<1>a. UNCHANGED <<objs, atr>> => SameMailboxes BY DEF SameMailboxes
<1>b. ASSUME NEW x, x \notin Mbx, (\E a : Create(x, a)) \/ Delete(x)
      PROVE  SameMailboxes
  <2>1. /\ objs' = objs \cup {x} \/ objs' = objs \ {x}
        /\ (\E a : atr' = [atr EXCEPT ![x] = a])
    BY <1>b DEF Create, Delete
  <2> QED BY <1>0, <1>b, <2>1 DEF SameMailboxes
<1>1. CASE TaskNext
  BY <1>1, <1>a DEF TaskNext, TimeOut, RelWai, TerTsk, ChgPri, steady
<1>2. CASE FlgNext
  BY <1>2, <1>0, <1>a, <1>b DEF FlgNext, CreFlg, DelFlg, SetFlg, ClrFlg, WaiFlg, WaiFlgWait,
     steady
<1>3. CASE DtqNext
  BY <1>3, <1>0, <1>a, <1>b DEF DtqNext, CreDtq, DelDtq, SndDtq, SndDtqWait, RcvDtq,
     RcvDtqWait, steady
<1>4. CASE MbfNext
  BY <1>4, <1>0, <1>a, <1>b DEF MbfNext, CreMbf, DelMbf, SndMbf, SndMbfWait, RcvMbf,
     RcvMbfWait, steady
<1>5. CASE MpfNext
  BY <1>5, <1>0, <1>a, <1>b DEF MpfNext, CreMpf, DelMpf, GetMpf, RelMpf, GetMpfWait, steady
<1>6. CASE PorNext
  <2>1. ASSUME NEW o, NEW c, NEW ptn, NEW n, NEW timed,
               \/ CalPor(c, o, ptn, timed) \/ CalPorWait(c, o, ptn, n, timed)
               \/ AcpPor(o, ptn) \/ AcpPorWait(c, o, ptn, timed)
               \/ FwdPor(c, o, ptn, n) \/ FwdPorWait(c, o, ptn, n)
               \/ RplRdv(c, n)
        PROVE  SameMailboxes
    <3>1. CASE CalPor(c, o, ptn, timed) BY <3>1, <1>a DEF CalPor, steady
    <3>2. CASE CalPorWait(c, o, ptn, n, timed) BY <3>2, <1>a DEF CalPorWait, steady
    <3>3. CASE AcpPor(o, ptn) BY <3>3, <1>a DEF AcpPor, steady
    <3>4. CASE AcpPorWait(c, o, ptn, timed) BY <3>4, <1>a DEF AcpPorWait, steady
    <3>5. CASE FwdPor(c, o, ptn, n) BY <3>5, <1>a DEF FwdPor, steady
    <3>6. CASE FwdPorWait(c, o, ptn, n) BY <3>6, <1>a DEF FwdPorWait, steady
    <3>7. CASE RplRdv(c, n) BY <3>7, <1>a DEF RplRdv, steady
    <3> QED BY <2>1, <3>1, <3>2, <3>3, <3>4, <3>5, <3>6, <3>7
  <2>2. ASSUME NEW o \in Por, (\E a : CrePor(o, a)) \/ DelPor(o)
        PROVE  SameMailboxes
    BY <2>2, <1>0, <1>b DEF CrePor, DelPor
  <2> QED BY <1>6, <2>1, <2>2 DEF PorNext
<1>7. CASE MplNext
  <2>1. ASSUME NEW o \in Mpl, (\E a, n : CreMpl(o, a, n)) \/ DelMpl(o)
        PROVE  SameMailboxes
    BY <2>1, <1>0, <1>b DEF CreMpl, DelMpl
  <2>2. ASSUME NEW o, NEW t, NEW n, NEW timed,
               \/ GetMpl(o, n) \/ GetMplWait(t, o, n, timed) \/ RelMpl(o, n) \/ LookMpl(t)
        PROVE  SameMailboxes
    BY <2>2, <1>a DEF GetMpl, GetMplWait, RelMpl, LookMpl, steady
  <2> QED BY <1>7, <2>1, <2>2 DEF MplNext
<1>8. CASE Serving BY <1>8, <1>a DEF Serving, ChkMpl, ChkMbf
<1>9. CASE SemNext
  BY <1>9, <1>0, <1>a, <1>b DEF SemNext, CreSem, DelSem, WaiSem, WaiSemWait, SigSem, steady
<1> QED BY <1>1, <1>2, <1>3, <1>4, <1>5, <1>6, <1>7, <1>8, <1>9

(* LEMMA: at first there is no mailbox. *)
LEMMA MailInit ==
    ASSUME Init
    PROVE  MailInv
<1>1. MbxInit /\ objs = {} BY DEF Init, WInit
<1>2. <<>> \in Seq(Msg) /\ ToSet(<<>>) = {} /\ Once(<<>>)
  <2>1. <<>> \in Seq(Msg) OBVIOUS
  <2> QED BY <2>1, ToSetFacts
<1>3. [l \in Lists |-> NONE] \in [Lists -> Msg \cup {NONE}] OBVIOUS
<1>4. MbxTypeOK BY <1>1, <1>2, <1>3 DEF MbxInit, MbxTypeOK
<1> QED BY <1>1, <1>2, <1>4 DEF MbxInit, MailInv, Init, WInit

(* LEMMA: every step keeps the lists of the mailboxes. *)
LEMMA MailStep ==
    ASSUME MailInv, [Next]_vars
    PROVE  MailInv'
<1>1. CASE UNCHANGED apart
  <2>1. UNCHANGED mbxvars /\ UNCHANGED <<objs, atr>> BY <1>1 DEF apart, wvars, steady
  <2> QED BY <2>1, MailUntouched DEF MailInv
<1>2. CASE MbxNext BY <1>2, MbxNextKeeps
<1>3. CASE /\ UNCHANGED mbxvars
           /\ TaskNext \/ SemNext \/ FlgNext \/ DtqNext \/ MbfNext \/ PorNext
                \/ MpfNext \/ MplNext \/ Serving
  BY <1>3, MailUntouched, OthersKeepMailboxes DEF SameMailboxes, MailInv
<1>4. Serving => UNCHANGED mbxvars BY DEF Serving
<1> QED BY <1>1, <1>2, <1>3, <1>4, StepCases DEF Service

(* THEOREM: the links of each list of a mailbox lead from its first        *)
(* message through the messages that were sent to it and not received, in  *)
(* the order of arrival, and the last is where the next one is linked:     *)
(* none is lost and none comes back through a link of a received one.      *)
THEOREM LinksAlwaysInOrder == Spec => []LinkedInOrder
<1>1. Init => MailInv BY MailInit
<1>2. MailInv /\ [Next]_vars => MailInv' BY MailStep
<1>3. MailInv => LinkedInOrder
  <2> SUFFICES ASSUME MailInv, NEW o \in objs \cap Mbx, NEW l \in Lists,
                      NEW s, s = InList(o, l)
               PROVE  Chain(top[o][l], btm[o][l], msgque, s)
    BY DEF LinkedInOrder, Chain
  <2>1. s = Keep(sent[o], OfList(atr[o], l)) BY DEF InList, OfList, ListOf
  <2> QED BY <2>1 DEF MailInv
<1> QED BY <1>1, <1>2, <1>3, PTL DEF Spec

-----------------------------------------------------------------------------
(* TYPES                                                                   *)

(* LEMMA: a word is stored within the ring. *)
LEMMA StoreTyped ==
    ASSUME DtqTypeOK, NEW o \in Dtq, NEW v \in Data, NEW n \in Nat,
           dtqcnt[o] # 0, n <= dtqcnt[o], Store(o, v, n)
    PROVE  DtqTypeOK'
<1>1. PICK S \in Nat : S = dtqcnt[o] /\ S > 0 BY DEF DtqTypeOK
<1>2. PICK p \in 0..(S - 1) : p = put[o] BY <1>1 DEF DtqTypeOK
<1>3. PICK r \in [0..(S - 1) -> Data \cup {NONE}] : r = dtq[o] BY <1>1 DEF DtqTypeOK
<1>4. PICK x \in Nat : x = (IF p + 1 >= S THEN 0 ELSE p + 1) /\ x < S BY <1>1, <1>2
<1>5. PICK w \in [0..(S - 1) -> Data \cup {NONE}] : w = [r EXCEPT ![p] = v] BY <1>2, <1>3
<1>6. /\ cnt' = [cnt EXCEPT ![o] = n] /\ put' = [put EXCEPT ![o] = x]
      /\ dtq' = [dtq EXCEPT ![o] = w] /\ dtqcnt' = dtqcnt
  BY <1>1, <1>2, <1>3, <1>4, <1>5 DEF Store, DtqTypeOK
<1>7. /\ dtq'[o] = w /\ \A q \in Dtq \ {o} : dtq'[q] = dtq[q]
      /\ cnt'[o] = n /\ \A q \in Dtq \ {o} : cnt'[q] = cnt[q]
      /\ put'[o] = x /\ \A q \in Dtq \ {o} : put'[q] = put[q]
  BY <1>6 DEF DtqTypeOK
<1>8. cnt' \in [Dtq -> Nat] /\ put' \in [Dtq -> Nat] /\ DOMAIN dtq' = Dtq
  BY <1>6 DEF DtqTypeOK
<1>9. ASSUME NEW q \in Dtq
      PROVE  /\ cnt'[q] <= dtqcnt'[q] /\ (put'[q] < dtqcnt'[q] \/ put'[q] = 0)
             /\ dtq'[q] \in [0..(dtqcnt'[q] - 1) -> Data \cup {NONE}]
  <2>1. CASE q = o BY <1>1, <1>4, <1>5, <1>6, <1>7, <2>1
  <2>2. CASE q # o BY <1>6, <1>7, <2>2 DEF DtqTypeOK
  <2> QED BY <2>1, <2>2
<1> QED BY <1>6, <1>8, <1>9 DEF DtqTypeOK

(* LEMMA: a data queue comes or goes. *)
LEMMA FreshTyped ==
    ASSUME DtqTypeOK, NEW o \in Dtq, NEW n \in Nat, NEW w \in [0..(n - 1) -> Data \cup {NONE}],
           dtqcnt' = [dtqcnt EXCEPT ![o] = n], cnt' = [cnt EXCEPT ![o] = 0],
           put' = [put EXCEPT ![o] = 0], dtq' = [dtq EXCEPT ![o] = w]
    PROVE  DtqTypeOK'
<1>1. /\ dtq'[o] = w /\ \A q \in Dtq \ {o} : dtq'[q] = dtq[q]
      /\ cnt'[o] = 0 /\ \A q \in Dtq \ {o} : cnt'[q] = cnt[q]
      /\ put'[o] = 0 /\ \A q \in Dtq \ {o} : put'[q] = put[q]
      /\ dtqcnt'[o] = n /\ \A q \in Dtq \ {o} : dtqcnt'[q] = dtqcnt[q]
  BY DEF DtqTypeOK
<1>2. /\ cnt' \in [Dtq -> Nat] /\ put' \in [Dtq -> Nat] /\ dtqcnt' \in [Dtq -> Nat]
      /\ DOMAIN dtq' = Dtq
  BY DEF DtqTypeOK
<1>3. ASSUME NEW q \in Dtq
      PROVE  /\ cnt'[q] <= dtqcnt'[q] /\ (put'[q] < dtqcnt'[q] \/ put'[q] = 0)
             /\ dtq'[q] \in [0..(dtqcnt'[q] - 1) -> Data \cup {NONE}]
  <2>1. CASE q = o BY <1>1, <2>1
  <2>2. CASE q # o BY <1>1, <2>2 DEF DtqTypeOK
  <2> QED BY <2>1, <2>2
<1> QED BY <1>2, <1>3 DEF DtqTypeOK

(* LEMMA: a ring of no words. *)
LEMMA NoWords == <<>> \in [0..(0 - 1) -> Data \cup {NONE}]
<1>1. DOMAIN <<>> = 1..0 OBVIOUS
<1>2. 1..0 = 0..(0 - 1) OBVIOUS
<1>3. <<>> = [i \in 1..0 |-> <<>>[i]] OBVIOUS
<1> QED BY <1>1, <1>2, <1>3

(* LEMMA: the data queues keep their types. *)
LEMMA DtqTyped ==
    ASSUME Linked, Asking, DtqTypeOK, DtqNext
    PROVE  DtqTypeOK'
<1>1. PICK o \in Dtq \cap ids :
         \/ \E a \in DtqAtr, n \in DtqCnt : CreDtq(o, a, n)
         \/ DelDtq(o) \/ RcvDtq(o)
         \/ \E v \in Data, f \in BOOLEAN : SndDtq(o, v, f)
         \/ \E t \in Task, timed \in BOOLEAN :
               \/ \E v \in Data : SndDtqWait(t, o, v, timed)
               \/ RcvDtqWait(t, o, timed)
  BY DEF DtqNext
<1>2. o \in Obj BY KindsApart
<1>3. UNCHANGED dtqvars => DtqTypeOK' BY DEF DtqTypeOK, dtqvars
<1>4. ASSUME NEW a, NEW n \in DtqCnt, CreDtq(o, a, n) PROVE DtqTypeOK'
  <2>1. n \in Nat BY DataQueueAssumption
  <2>2. [i \in 0..(n - 1) |-> NONE] \in [0..(n - 1) -> Data \cup {NONE}] OBVIOUS
  <2> QED BY <1>4, <2>1, <2>2, FreshTyped DEF CreDtq
<1>5. CASE DelDtq(o) BY <1>5, NoWords, FreshTyped DEF DelDtq
<1>6. /\ cnt[o] \in Nat /\ dtqcnt[o] \in Nat /\ cnt[o] <= dtqcnt[o]
  BY DEF DtqTypeOK
<1>7. CASE RcvDtq(o)
  <2>1. CASE cnt[o] > 0 /\ sque[o] # <<>>
    <3>1. Head(sque[o]) \in Task /\ InSque(Head(sque[o]), o) BY <1>2, <2>1, HeadFacts
    <3>2. wsts[Head(sque[o])] = "SDTQ" BY <1>2, <3>1, KindFacts
    <3>3. par[Head(sque[o])] \in Data BY <3>1, <3>2 DEF Asking, Asks
    <3>4. Store(o, par[Head(sque[o])], cnt[o]) BY <1>7, <2>1 DEF RcvDtq
    <3>5. dtqcnt[o] # 0 BY <1>6, <2>1
    <3> QED BY <1>6, <3>3, <3>4, <3>5, StoreTyped
  <2>2. CASE cnt[o] > 0 /\ sque[o] = <<>>
    <3>1. cnt' = [cnt EXCEPT ![o] = @ - 1] /\ UNCHANGED <<dtqcnt, put, dtq>>
      BY <1>7, <2>2 DEF RcvDtq
    <3>2. cnt[o] - 1 \in Nat /\ cnt[o] - 1 <= dtqcnt[o] BY <1>6, <2>2
    <3> QED BY <3>1, <3>2 DEF DtqTypeOK
  <2>3. CASE ~(cnt[o] > 0) BY <1>3, <1>7, <2>3 DEF RcvDtq
  <2> QED BY <2>1, <2>2, <2>3
<1>8. ASSUME NEW v \in Data, NEW f \in BOOLEAN, SndDtq(o, v, f) PROVE DtqTypeOK'
  <2>1. CASE que[o] # <<>> BY <1>3, <1>8, <2>1 DEF SndDtq
  <2>2. CASE que[o] = <<>>
    <3>1. dtqcnt[o] # 0 BY <1>6, <1>8, <2>2 DEF SndDtq, Full
    <3>2. PICK n : n = IF Full(o) THEN cnt[o] ELSE cnt[o] + 1 OBVIOUS
    <3>3. n \in Nat /\ n <= dtqcnt[o] BY <1>6, <3>2 DEF Full
    <3>4. Store(o, v, n) BY <1>8, <2>2, <3>2 DEF SndDtq
    <3> QED BY <3>1, <3>3, <3>4, StoreTyped
  <2> QED BY <2>1, <2>2
<1> QED BY <1>1, <1>3, <1>4, <1>5, <1>7, <1>8 DEF SndDtqWait, RcvDtqWait

(* LEMMA: the event flags keep theirs. *)
LEMMA FlgTyped ==
    ASSUME FlgTypeOK, FlgNext
    PROVE  FlgTypeOK'
<1>1. PICK o \in Flg \cap ids :
         \/ \E a \in FlgAtr, p \in SUBSET Bit : CreFlg(o, a, p)
         \/ DelFlg(o)
         \/ \E p \in SUBSET Bit : SetFlg(o, p) \/ ClrFlg(o, p)
         \/ \E w \in Wish :
               \/ WaiFlg(o, w)
               \/ \E t \in Task, timed \in BOOLEAN : WaiFlgWait(t, o, w, timed)
  BY DEF FlgNext
<1>2. flgptn[o] \in SUBSET Bit BY DEF FlgTypeOK
<1>3. \/ flgptn' = flgptn
      \/ \E p \in SUBSET Bit : flgptn' = [flgptn EXCEPT ![o] = p]
  BY <1>1, <1>2 DEF CreFlg, DelFlg, SetFlg, ClrFlg, WaiFlg, WaiFlgWait
<1> QED BY <1>3 DEF FlgTypeOK

(* THEOREM: every variable keeps its type, the ring of a data queue its    *)
(* size and a task that waits with a parameter one of its wait's kind.     *)
THEOREM TypesAlwaysHold ==
    ASSUME FwdPri = FALSE
    PROVE  Spec => []TypeOK
<1> DEFINE Inv == /\ Steady /\ Linked /\ Asking /\ Idles /\ RingInv /\ PoolsKept /\ BlocksInv
                  /\ MailInv /\ DtqTypeOK /\ FlgTypeOK
<1>1. Init => Inv
  <2> SUFFICES ASSUME Init PROVE Inv OBVIOUS
  <2>1. DtqInit /\ FlgInit BY DEF Init
  <2>2. DtqTypeOK BY <2>1, NoWords DEF DtqInit, DtqTypeOK
  <2>3. FlgTypeOK BY <2>1 DEF FlgInit, FlgTypeOK
  <2> QED BY <2>2, <2>3, WaitsInit, IdlesInit, RingInit, PoolInit, BlocksInit, MailInit
<1>2. Inv /\ [Next]_vars => Inv'
  <2> SUFFICES ASSUME Inv, [Next]_vars PROVE Inv' OBVIOUS
  <2>1. Steady' /\ Linked' /\ Asking' BY WaitsStep
  <2>2. Idles' BY <2>1, IdlesStep
  <2>3. RingInv' /\ PoolsKept' /\ BlocksInv' /\ MailInv'
    BY RingStep, PoolStep, BlocksStep, MailStep
  <2>4. DtqTypeOK'
    <3>1. CASE DtqNext BY <3>1, DtqTyped
    <3>2. CASE UNCHANGED dtqvars BY <3>2 DEF DtqTypeOK, dtqvars
    <3> QED BY <3>1, <3>2, StepCases DEF Service, Serving, apart
  <2>5. FlgTypeOK'
    <3>1. CASE FlgNext BY <3>1, FlgTyped
    <3>2. CASE UNCHANGED flgptn BY <3>2 DEF FlgTypeOK
    <3> QED BY <3>1, <3>2, StepCases DEF Service, Serving, apart
  <2> QED BY <2>1, <2>2, <2>3, <2>4, <2>5
<1>3. Inv => TypeOK
  <2> SUFFICES ASSUME Inv PROVE TypeOK OBVIOUS
  <2>1. WTypeOK BY DEF WTypeOK, Steady, Linked, Typed
  <2>2. SemTypeOK BY DEF Idles, SemInv
  <2>3. MbfTypeOK
    <3>1. ASSUME NEW o \in Mbf PROVE frsz[o] <= mbfsz[o] /\ mcnt[o] = Len(mail[o])
      <4>1. PICK q \in Seq(Mail) : q = mail[o] BY DEF RingInv
      <4>2. Taking(o, q, Len(q)) \in Nat
        <5>1. Len(q) \in 0..Len(q) OBVIOUS
        <5> QED BY <5>1, TakingFacts
      <4>3. frsz[o] + Taking(o, q, Len(q)) = mbfsz[o] BY <4>1 DEF RingInv, Ring
      <4>4. frsz[o] \in Nat /\ mbfsz[o] \in Nat /\ mcnt[o] = Len(mail[o]) BY DEF RingInv
      <4> QED BY <4>2, <4>3, <4>4
    <3> QED BY <3>1 DEF RingInv, MbfTypeOK
  <2>4. MplTypeOK /\ MpfTypeOK /\ MbxTypeOK BY DEF PoolsKept, BlocksInv, MailInv
  <2>5. \A t \in Task : /\ wsts[t] = "MPL"  => par[t] \in BlkSz
                        /\ wsts[t] = "SDTQ" => par[t] \in Data
                        /\ wsts[t] = "SMBF" => par[t] \in Mail
    BY DEF Asking, Asks
  <2> QED BY <2>1, <2>2, <2>3, <2>4, <2>5 DEF TypeOK
<1> QED BY <1>1, <1>2, <1>3, PTL DEF Spec

-----------------------------------------------------------------------------
(* A DATA QUEUE IS A CHANNEL                                               *)

(* Wherever the kernel keeps a word, in the ring or with a sender that     *)
(* waits, what a receiver gets is the head of one line of words.           *)

(* The words of the senders that wait, in the order of the queue. *)
Offered(o) == Words(sque[o], par)
Word1 == Data \cup {NONE}

(* What a step does to the control block of o, and to its wait queue, if   *)
(* it does nothing to the line.                                            *)
SameRing(o) == /\ dtqcnt'[o] = dtqcnt[o] /\ cnt'[o] = cnt[o]
               /\ put'[o] = put[o] /\ dtq'[o] = dtq[o]

-----------------------------------------------------------------------------
(* THE LINE                                                                *)

LEMMA StoredRing ==
    \A o : /\ Stored(o) = InRing(dtqcnt[o], put[o], cnt[o], dtq[o])
           /\ Stored(o)' = InRing(dtqcnt'[o], put'[o], cnt'[o], dtq'[o])
           /\ Line(o) = Stored(o) \o Offered(o)
           /\ Line(o)' = Stored(o)' \o Offered(o)'
BY DEF Stored, InRing, PlaceOf, Oldest, Line, Offered, Words

(* LEMMA: the ring and its queue, and the values in them. *)
LEMMA LineFacts ==
    ASSUME Linked, Asking, DtqTypeOK, NEW o \in Dtq
    PROVE  /\ o \in Obj /\ sque[o] \in Seq(Task) /\ Once(sque[o])
           /\ dtqcnt[o] \in Nat /\ cnt[o] \in 0..dtqcnt[o] /\ put[o] \in Nat
           /\ (put[o] < dtqcnt[o] \/ put[o] = 0)
           /\ WordRing(Word1, dtqcnt[o], put[o], cnt[o], dtq[o])
           /\ \A t \in ToSet(sque[o]) : t \in Task /\ InSque(t, o) /\ par[t] \in Data
           /\ Stored(o) \in Seq(Word1) /\ Len(Stored(o)) = cnt[o]
           /\ Offered(o) \in Seq(Word1) /\ Len(Offered(o)) = Len(sque[o])
           /\ Line(o) \in Seq(Word1) /\ Len(Line(o)) = cnt[o] + Len(sque[o])
<1>1. o \in Obj BY KindsApart
<1>2. sque[o] \in Seq(Task) /\ Once(sque[o]) BY <1>1 DEF Linked, Typed, Queued
<1>3. /\ dtqcnt[o] \in Nat /\ cnt[o] \in 0..dtqcnt[o] /\ put[o] \in Nat
      /\ (put[o] < dtqcnt[o] \/ put[o] = 0)
      /\ WordRing(Word1, dtqcnt[o], put[o], cnt[o], dtq[o])
  BY DEF DtqTypeOK, Word1, WordRing
<1>4. ASSUME NEW t \in ToSet(sque[o]) PROVE t \in Task /\ InSque(t, o) /\ par[t] \in Data
  <2>1. t \in Task BY <1>2, ToSetFacts
  <2>2. InSque(t, o) BY <1>1, <2>1 DEF Linked, Queued
  <2>3. wsts[t] = "SDTQ" BY <1>1, <2>1, <2>2, KindFacts
  <2> QED BY <2>1, <2>2, <2>3 DEF Asking, Asks
<1>5. Stored(o) \in Seq(Word1) /\ Len(Stored(o)) = cnt[o]
  BY <1>3, RingSeq, StoredRing
<1>6. Offered(o) \in Seq(Word1) /\ Len(Offered(o)) = Len(sque[o])
  <2>1. Carries(sque[o], par, Word1) BY <1>4 DEF Word1, Carries
  <2>2. Words(sque[o], par) \in Seq(Word1) BY <1>2, <2>1, WordsFacts
  <2>3. Len(Words(sque[o], par)) = Len(sque[o]) BY <1>2, WordsLen
  <2> QED BY <2>2, <2>3 DEF Offered
<1>7. Line(o) \in Seq(Word1) /\ Len(Line(o)) = cnt[o] + Len(sque[o])
  <2>1. Line(o) = Stored(o) \o Offered(o) BY StoredRing
  <2>2. PICK r : r = Stored(o) OBVIOUS
  <2>3. PICK w : w = Offered(o) OBVIOUS
  <2>4. r \in Seq(Word1) /\ w \in Seq(Word1) BY <1>5, <1>6, <2>2, <2>3
  <2>5. r \o w \in Seq(Word1) /\ Len(r \o w) = Len(r) + Len(w)
    BY ONLY <2>4, ConcatProperties
  <2> QED BY <1>5, <1>6, <2>1, <2>2, <2>3, <2>5
<1> QED BY <1>1, <1>2, <1>3, <1>4, <1>5, <1>6, <1>7

(* LEMMA: a step that touches neither. *)
LEMMA SameLine ==
    ASSUME Linked, Asking, DtqTypeOK, NEW o \in Dtq
    PROVE  /\ SameRing(o) => Stored(o)' = Stored(o)
           /\ SameQueue(o) => Offered(o)' = Offered(o)
           /\ SameRing(o) /\ SameQueue(o) => Line(o)' = Line(o)
<1>1. SameRing(o) => Stored(o)' = Stored(o) BY StoredRing DEF SameRing
<1>2. ASSUME SameQueue(o) PROVE Offered(o)' = Offered(o)
  <2>1. \A t \in ToSet(sque[o]) : par'[t] = par[t] BY <1>2, LineFacts DEF SameQueue
  <2>2. sque[o] \in Seq(Task) BY LineFacts
  <2>3. Words(sque[o], par') = Words(sque[o], par) BY <2>1, <2>2, WordsSame
  <2> QED BY <1>2, <2>3 DEF Offered, SameQueue
<1> QED BY <1>1, <1>2, StoredRing

(* LEMMA: what a word does that enters the ring. *)
LEMMA StoreLine ==
    ASSUME Linked, Asking, DtqTypeOK, NEW o \in Dtq, NEW v \in Word1, dtqcnt[o] # 0
    PROVE  /\ ~Full(o) /\ Store(o, v, cnt[o] + 1) => Stored(o)' = Append(Stored(o), v)
           /\ Full(o) /\ Store(o, v, cnt[o]) =>
                 Stored(o)' = Append(Tail(Stored(o)), v) /\ Stored(o) # <<>>
<1>1. /\ dtqcnt[o] \in Nat /\ put[o] \in Nat /\ put[o] < dtqcnt[o]
      /\ WordRing(Word1, dtqcnt[o], put[o], cnt[o], dtq[o])
  BY LineFacts
<1>2. ASSUME NEW n, Store(o, v, n)
      PROVE  /\ cnt'[o] = n /\ dtqcnt'[o] = dtqcnt[o]
             /\ put'[o] = NextPlace(dtqcnt[o], put[o])
             /\ Puts(dtqcnt[o], put[o], dtq[o], v, dtq'[o])
  <2>1. put[o] \in 0..(dtqcnt[o] - 1) BY <1>1
  <2>2. dtq'[o] = [dtq[o] EXCEPT ![put[o]] = v] /\ DOMAIN dtq[o] = 0..(dtqcnt[o] - 1)
    BY <1>2 DEF Store, DtqTypeOK
  <2>3. Puts(dtqcnt[o], put[o], dtq[o], v, dtq'[o]) BY <1>1, <2>1, <2>2 DEF Puts
  <2> QED BY <1>2, <2>3 DEF Store, NextPlace, DtqTypeOK
<1>3. ASSUME ~Full(o), Store(o, v, cnt[o] + 1)
      PROVE  Stored(o)' = Append(Stored(o), v)
  <2>1. InRing(dtqcnt[o], NextPlace(dtqcnt[o], put[o]), cnt[o] + 1, dtq'[o])
          = Append(InRing(dtqcnt[o], put[o], cnt[o], dtq[o]), v)
    BY <1>1, <1>2, <1>3, RingStores DEF Full
  <2> QED BY <1>2, <1>3, <2>1, StoredRing
<1>4. ASSUME Full(o), Store(o, v, cnt[o])
      PROVE  Stored(o)' = Append(Tail(Stored(o)), v) /\ Stored(o) # <<>>
  <2>1. Stored(o)' = Append(Tail(Stored(o)), v)
    BY <1>1, <1>2, <1>4, RingReplaces, StoredRing DEF Full
  <2>2. Stored(o) \in Seq(Word1) /\ Len(Stored(o)) > 0 BY <1>1, <1>4, LineFacts DEF Full
  <2>3. Stored(o) # <<>> BY <2>2, EmptySeq
  <2> QED BY <2>1, <2>3
<1> QED BY <1>3, <1>4

(* LEMMA: what taking the oldest word does. *)
LEMMA DropLine ==
    ASSUME Linked, Asking, DtqTypeOK, NEW o \in Dtq, cnt[o] # 0
    PROVE  /\ Stored(o) # <<>> /\ Head(Stored(o)) = dtq[o][Oldest(o)]
           /\ cnt' = [cnt EXCEPT ![o] = @ - 1] /\ UNCHANGED <<dtqcnt, put, dtq>> =>
                 Stored(o)' = Tail(Stored(o))
<1>1. WordRing(Word1, dtqcnt[o], put[o], cnt[o], dtq[o]) BY LineFacts
<1>2. cnt' = [cnt EXCEPT ![o] = @ - 1] => cnt'[o] = cnt[o] - 1 BY DEF DtqTypeOK
<1>3. dtq[o][Oldest(o)] = dtq[o][IF put[o] >= cnt[o] THEN put[o] - cnt[o]
                                 ELSE put[o] + dtqcnt[o] - cnt[o]]
  BY DEF Oldest
<1>4. /\ InRing(dtqcnt[o], put[o], cnt[o], dtq[o]) # <<>>
      /\ Head(InRing(dtqcnt[o], put[o], cnt[o], dtq[o])) = dtq[o][Oldest(o)]
      /\ InRing(dtqcnt[o], put[o], cnt[o] - 1, dtq[o])
            = Tail(InRing(dtqcnt[o], put[o], cnt[o], dtq[o]))
  BY <1>1, <1>3, RingDrops
<1> QED BY <1>2, <1>4, StoredRing

-----------------------------------------------------------------------------
(* THE SENDERS THAT WAIT                                                   *)

(* LEMMA: who enters a queue is inserted somewhere, and at its end if the  *)
(* order is that of arrival.                                               *)
LEMMA EnqPlace ==
    ASSUME NEW q \in Seq(Task), NEW t \in Task, NEW cp \in [Task -> Nat],
           NEW tpri \in BOOLEAN, tpri => Ordered(q, cp)
    PROVE  \E k \in 1..(Len(q) + 1) : /\ Enq(q, t, cp, tpri) = InsertAt(q, k, t)
                                      /\ ~tpri => k = Len(q) + 1
<1>0. Len(q) \in Nat BY LenProperties
<1>1. CASE ~tpri
  <2>1. Enq(q, t, cp, tpri) = InsertAt(q, Len(q) + 1, t) BY <1>1, InsertAtEnd DEF Enq
  <2>2. Len(q) + 1 \in 1..(Len(q) + 1) BY <1>0
  <2> QED BY <2>1, <2>2
<1>2. CASE tpri
  <2> DEFINE ahead == {u \in Task : cp[u] <= cp[t]}
             T == {i \in 1..Len(q) : q[i] \notin ahead}
  <2>1. \E k \in 1..(Len(q) + 1) : (\A i \in 1..(k - 1) : i \notin T) /\ (k <= Len(q) => k \in T)
    <3> HIDE DEF T
    <3> QED BY <1>0, FirstPosition
  <2>2. PICK k \in 1..(Len(q) + 1) :
           (\A i \in 1..(k - 1) : i \notin T) /\ (k <= Len(q) => k \in T)
    BY <2>1
  <2>3. \A i \in 1..Len(q) : q[i] \in Task BY ElementOfSeq
  <2>4. \A i \in 1..(k - 1) : q[i] \in ahead /\ q[i] \notin Task \ ahead
    <3> SUFFICES ASSUME NEW i \in 1..(k - 1) PROVE q[i] \in ahead OBVIOUS
    <3>1. i \in 1..Len(q) BY <1>0, <2>2
    <3> QED BY <2>2, <3>1
  <2>5. \A i \in k..Len(q) : q[i] \in Task \ ahead /\ q[i] \notin ahead
    <3> SUFFICES ASSUME NEW i \in k..Len(q) PROVE q[i] \in Task \ ahead OBVIOUS
    <3>1. i \in 1..Len(q) /\ k \in 1..Len(q) /\ k <= i BY <1>0, <2>2
    <3>2. q[k] \in Task /\ ~(cp[q[k]] <= cp[t]) BY <2>2, <2>3, <3>1
    <3>3. cp[q[k]] <= cp[q[i]]
      <4>1. CASE i = k BY <2>3, <3>1, <4>1
      <4>2. CASE i # k BY <1>2, <3>1, <4>2 DEF Ordered
      <4> QED BY <4>1, <4>2
    <3>4. cp[q[k]] \in Nat /\ cp[q[i]] \in Nat /\ cp[t] \in Nat BY <2>3, <3>1
    <3> QED BY <2>3, <3>1, <3>2, <3>3, <3>4
  <2>6. Enq(q, t, cp, tpri) = Keep(q, ahead) \o <<t>> \o Keep(q, Task \ ahead)
    BY <1>2 DEF Enq
  <2>8. Splits(q, k, ahead, Task \ ahead) BY <2>4, <2>5 DEF Splits
  <2> HIDE DEF ahead, T
  <2>7. Keep(q, ahead) \o <<t>> \o Keep(q, Task \ ahead) = InsertAt(q, k, t)
    BY <2>2, <2>8, KeepInsert
  <2> QED BY <1>2, <2>2, <2>6, <2>7
<1> QED BY <1>1, <1>2

(* LEMMA: a sender joins those that wait, *)
LEMMA JoinsOffered ==
    ASSUME Linked, Asking, DtqTypeOK, NEW o \in Dtq, NEW t \in Task,
           NEW k \in 1..(Len(sque[o]) + 1), sque'[o] = InsertAt(sque[o], k, t),
           \A u \in ToSet(sque[o]) : par'[u] = par[u], par'[t] \in Data
    PROVE  Offered(o)' = InsertAt(Offered(o), k, par'[t])
<1>1. sque[o] \in Seq(Task) BY LineFacts
<1>2. Carries(sque[o], par', Word1) BY LineFacts DEF Word1, Carries
<1>3. par'[t] \in Word1 BY DEF Word1
<1>4. Words(InsertAt(sque[o], k, t), par') = InsertAt(Words(sque[o], par'), k, par'[t])
  BY <1>1, <1>2, <1>3, WordsInsert
<1>5. Words(sque[o], par') = Words(sque[o], par) BY <1>1, WordsSame
<1> QED BY <1>4, <1>5 DEF Offered

(* or leaves them, from wherever it is. *)
LEMMA LeavesOffered ==
    ASSUME Linked, Asking, DtqTypeOK, NEW o \in Dtq, NEW t \in ToSet(sque[o]),
           sque'[o] = Keep(sque[o], Task \ {t}), \A u \in Task \ {t} : par'[u] = par[u]
    PROVE  /\ \E i \in 1..Len(sque[o]) : sque[o][i] = t /\ Offered(o)' = RemoveAt(Offered(o), i)
           /\ t = Head(sque[o]) => /\ Offered(o) # <<>> /\ Head(Offered(o)) = par[t]
                                   /\ Offered(o)' = Tail(Offered(o))
<1>1. sque[o] \in Seq(Task) /\ Once(sque[o]) /\ t \in Task BY LineFacts
<1>2. Carries(sque[o], par, Word1) BY LineFacts DEF Word1, Carries
<1>3. Offered(o)' = Words(Keep(sque[o], Task \ {t}), par)
  <2>1. Keep(sque[o], Task \ {t}) \in Seq(Task) BY <1>1, KeepOnce
  <2>2. ToSet(Keep(sque[o], Task \ {t})) = ToSet(sque[o]) \cap (Task \ {t}) BY <1>1, KeepOnce
  <2>3. \A u \in ToSet(Keep(sque[o], Task \ {t})) : par'[u] = par[u] BY <2>2
  <2>4. Words(Keep(sque[o], Task \ {t}), par') = Words(Keep(sque[o], Task \ {t}), par)
    BY <2>1, <2>3, WordsSame
  <2> QED BY <2>4 DEF Offered
<1>4. \E i \in 1..Len(sque[o]) : sque[o][i] = t /\ Offered(o)' = RemoveAt(Offered(o), i)
  <2>1. PICK i \in 1..Len(sque[o]) : sque[o][i] = t BY <1>1, ToSetFacts
  <2>2. Keep(sque[o], Task \ {t}) = RemoveAt(sque[o], i) BY <1>1, <2>1, KeepRemove
  <2>3. Words(RemoveAt(sque[o], i), par) = RemoveAt(Words(sque[o], par), i)
    BY <1>1, <1>2, <2>1, WordsRemove
  <2> QED BY <1>3, <2>1, <2>2, <2>3 DEF Offered
<1>5. ASSUME t = Head(sque[o])
      PROVE  Offered(o) # <<>> /\ Head(Offered(o)) = par[t] /\ Offered(o)' = Tail(Offered(o))
  <2>1. sque[o] # <<>>
    <3>1. ToSet(<<>>) = {} BY <1>1, ToSetFacts
    <3> QED BY <3>1
  <2>2. Keep(sque[o], Task \ {t}) = Tail(sque[o]) BY <1>1, <1>5, <2>1, KeepEnds
  <2>3. /\ Words(sque[o], par) # <<>> /\ Head(Words(sque[o], par)) = par[Head(sque[o])]
        /\ Words(Tail(sque[o]), par) = Tail(Words(sque[o], par))
    BY <1>1, <2>1, WordsTail
  <2> QED BY <1>3, <1>5, <2>2, <2>3 DEF Offered
<1> QED BY <1>4, <1>5

-----------------------------------------------------------------------------
(* WHAT A STEP SHOWS OF THE QUEUE dtq1                                     *)

(* It exists before and after, with the same attributes and capacity. *)
Goes == /\ dtq1 \in objs /\ dtq1 \in objs'
        /\ atr'[dtq1] = atr[dtq1] /\ dtqcnt'[dtq1] = dtqcnt[dtq1]

LEMMA Dtq1Facts == dtq1 \in Dtq /\ dtq1 \in Obj /\ dtq1 # NONE /\ NONE \notin Nat
BY KindsApart, DataChannelAssumption

LEMMA GivenNothing == GivesNothing => out'[1] # dtq1
BY Dtq1Facts DEF GivesNothing

(* The operators on sequences are the same in both specifications. *)
LEMMA SameOperators ==
    /\ \A s, i, v : Channel1!InsertAt(s, i, v) = InsertAt(s, i, v)
    /\ \A s, i : Channel1!RemoveAt(s, i) = RemoveAt(s, i)
BY DEF Channel1!InsertAt, InsertAt, Channel1!RemoveAt, RemoveAt

LEMMA ShowsPut ==
    ASSUME Goes, GivesNothing, NEW v \in Data, dtqcnt[dtq1] # NONE,
           \/ Line(dtq1)' = Append(Line(dtq1), v)
           \/ /\ "TPRI" \in atr[dtq1]
              /\ \E i \in (dtqcnt[dtq1] + 1)..Len(Line(dtq1)) :
                    Line(dtq1)' = InsertAt(Line(dtq1), i, v)
    PROVE  Channel1!CNext
<1>1. out'[1] # dtq1 BY GivenNothing
<1>2. Channel1!Put(v) BY <1>1, SameOperators DEF Channel1!Put, Goes
<1> QED BY <1>2 DEF Channel1!CNext

LEMMA ShowsPass ==
    ASSUME Goes, NEW v \in Data, Gives(dtq1, v), dtqcnt[dtq1] # NONE,
           Line(dtq1) = <<>>, Line(dtq1)' = Line(dtq1)
    PROVE  Channel1!CNext
<1>1. out'[1] = dtq1 /\ out'[2] = v BY DEF Gives
<1>2. Channel1!Pass(v) BY <1>1 DEF Channel1!Pass, Goes
<1> QED BY <1>2 DEF Channel1!CNext

LEMMA ShowsGet ==
    ASSUME Goes, NEW v, Gives(dtq1, v), dtqcnt[dtq1] # NONE,
           Line(dtq1) # <<>>, v = Head(Line(dtq1)), Line(dtq1)' = Tail(Line(dtq1))
    PROVE  Channel1!CNext
<1>1. out'[1] = dtq1 /\ out'[2] = v BY DEF Gives
<1>2. Channel1!Get BY <1>1 DEF Channel1!Get, Goes
<1> QED BY <1>2 DEF Channel1!CNext

LEMMA ShowsOverwrite ==
    ASSUME Goes, GivesNothing, NEW v \in Data, dtqcnt[dtq1] # NONE, dtqcnt[dtq1] # 0,
           Len(Line(dtq1)) >= dtqcnt[dtq1],
           Line(dtq1)' = InsertAt(Tail(Line(dtq1)), dtqcnt[dtq1], v)
    PROVE  Channel1!CNext
<1>1. out'[1] # dtq1 BY GivenNothing
<1>2. Channel1!Overwrite(v) BY <1>1, SameOperators DEF Channel1!Overwrite, Goes
<1> QED BY <1>2 DEF Channel1!CNext

LEMMA ShowsGiveUp ==
    ASSUME Goes, GivesNothing, dtqcnt[dtq1] # NONE,
           NEW i \in (dtqcnt[dtq1] + 1)..Len(Line(dtq1)),
           Line(dtq1)' = RemoveAt(Line(dtq1), i)
    PROVE  Channel1!CNext
<1>1. out'[1] # dtq1 BY GivenNothing
<1>2. Channel1!GiveUp BY <1>1, SameOperators DEF Channel1!GiveUp, Goes
<1> QED BY <1>2 DEF Channel1!CNext

LEMMA ShowsMove ==
    ASSUME Goes, GivesNothing, dtqcnt[dtq1] # NONE, "TPRI" \in atr[dtq1],
           NEW i \in (dtqcnt[dtq1] + 1)..Len(Line(dtq1)),
           NEW j \in (dtqcnt[dtq1] + 1)..Len(Line(dtq1)),
           Line(dtq1)' = InsertAt(RemoveAt(Line(dtq1), i), j, Line(dtq1)[i])
    PROVE  Channel1!CNext
<1>1. out'[1] # dtq1 BY GivenNothing
<1>2. Channel1!Move BY <1>1, SameOperators DEF Channel1!Move, Goes
<1> QED BY <1>2 DEF Channel1!CNext

(* LEMMA: nothing is seen of a step that leaves the line alone and hands   *)
(* over nothing of this queue.                                             *)
LEMMA ShowsPause ==
    ASSUME Linked, Asking, DtqTypeOK, Calm(dtq1), SameRing(dtq1),
           atr'[dtq1] = atr[dtq1], out'[1] # dtq1
    PROVE  Channel1!CNext
<1>1. Line(dtq1)' = Line(dtq1) BY Dtq1Facts, SameLine DEF Calm
<1>2. dtq1 \in objs' <=> dtq1 \in objs BY DEF Calm
<1>3. dtqcnt'[dtq1] = dtqcnt[dtq1] BY DEF SameRing
<1>4. Channel1!Pause BY <1>1, <1>2, <1>3 DEF Channel1!Pause
<1> QED BY <1>4 DEF Channel1!CNext

-----------------------------------------------------------------------------
(* A LINE OF WHICH THE FIRST ARE STORED                                    *)

(* LEMMA: what is stored behind the others is inserted before those that   *)
(* wait; and the first of these takes the place that becomes free.         *)
LEMMA AppendConcat ==
    ASSUME NEW V, NEW r \in Seq(V), NEW w \in Seq(V), NEW v \in V
    PROVE  Append(r, v) \o w = InsertAt(r \o w, Len(r) + 1, v)
<1>1. <<v>> \in Seq(V) OBVIOUS
<1>2. InsertAt(w, 1, v) = <<v>> \o w
  <2>1. SubSeq(w, 1, Len(w)) = w BY SubSeqFull
  <2>2. SubSeq(w, 1, 1 - 1) = <<>>
    <3>1. 1 - 1 < 1 OBVIOUS
    <3> QED BY <3>1, SubSeqEmpty
  <2>3. <<>> \o <<v>> = <<v>> BY <1>1, ConcatEmptySeq
  <2> QED BY <2>1, <2>2, <2>3 DEF InsertAt
<1>3. Append(r, v) = r \o <<v>> BY AppendIsConcat
<1>4. (r \o <<v>>) \o w = r \o (<<v>> \o w) BY <1>1, ConcatAssociative
<1>5. 1 \in 1..(Len(w) + 1)
  <2>1. Len(w) \in Nat BY LenProperties
  <2> QED BY <2>1
<1>6. r \o InsertAt(w, 1, v) = InsertAt(r \o w, Len(r) + 1, v)
  BY ONLY <1>5, r \in Seq(V), w \in Seq(V), v \in V, ConcatInsert
<1> QED BY <1>2, <1>3, <1>4, <1>6

LEMMA LineOverwrites ==
    ASSUME NEW V, NEW r \in Seq(V), NEW w \in Seq(V), NEW v \in V, r # <<>>
    PROVE  Append(Tail(r), v) \o w = InsertAt(Tail(r \o w), Len(r), v)
<1>1. Tail(r) \in Seq(V) /\ Len(Tail(r)) + 1 = Len(r)
  <2>1. Tail(r) \in Seq(V) /\ Len(Tail(r)) = Len(r) - 1 BY HeadTailProperties
  <2>2. Len(r) \in Nat BY LenProperties
  <2> QED BY <2>1, <2>2
<1>2. PICK s \in Seq(V) : s = Tail(r) BY <1>1
<1>3. Append(s, v) \o w = InsertAt(s \o w, Len(s) + 1, v) BY AppendConcat
<1>4. Tail(r \o w) = s \o w BY <1>2, ConcatHead
<1>5. Len(s) + 1 = Len(r) BY <1>1, <1>2
<1> QED BY <1>2, <1>3, <1>4, <1>5

LEMMA LineMovesUp ==
    ASSUME NEW V, NEW r \in Seq(V), NEW w \in Seq(V), r # <<>>, w # <<>>
    PROVE  Append(Tail(r), Head(w)) \o Tail(w) = Tail(r \o w)
<1>1. Tail(r) \in Seq(V) BY HeadTailProperties
<1> QED BY <1>1, ConcatHead

(* LEMMA: who comes to those that wait, leaves them or moves among them    *)
(* does so in the line, behind what is stored.                             *)
Joining(V, r, w, v, k) ==
    r \in Seq(V) /\ w \in Seq(V) /\ v \in V /\ k \in 1..(Len(w) + 1)

LEMMA LineInserts ==
    \A V, r, w, v, k :
       Joining(V, r, w, v, k) => r \o InsertAt(w, k, v) = InsertAt(r \o w, Len(r) + k, v)
<1> SUFFICES ASSUME NEW V, NEW r, NEW w, NEW v, NEW k, Joining(V, r, w, v, k)
             PROVE  r \o InsertAt(w, k, v) = InsertAt(r \o w, Len(r) + k, v)
  OBVIOUS
<1>1. r \in Seq(V) /\ w \in Seq(V) /\ v \in V /\ k \in 1..(Len(w) + 1) BY DEF Joining
<1> QED BY <1>1, ConcatInsert

LEMMA LineJoins ==
    \A V, r, w, v, k :
       Joining(V, r, w, v, k) =>
          /\ k = Len(w) + 1 => r \o InsertAt(w, k, v) = Append(r \o w, v)
          /\ k # Len(w) + 1 => Len(r) + k \in (Len(r) + 1)..Len(r \o w)
          /\ r \o InsertAt(w, k, v) = InsertAt(r \o w, Len(r) + k, v)
<1> SUFFICES ASSUME NEW V, NEW r, NEW w, NEW v, NEW k, Joining(V, r, w, v, k)
             PROVE  /\ k = Len(w) + 1 => r \o InsertAt(w, k, v) = Append(r \o w, v)
                    /\ k # Len(w) + 1 => Len(r) + k \in (Len(r) + 1)..Len(r \o w)
                    /\ r \o InsertAt(w, k, v) = InsertAt(r \o w, Len(r) + k, v)
  OBVIOUS
<1>0. r \in Seq(V) /\ w \in Seq(V) /\ v \in V /\ k \in 1..(Len(w) + 1) BY DEF Joining
<1>1. r \o InsertAt(w, k, v) = InsertAt(r \o w, Len(r) + k, v) BY LineInserts
<1>2. r \o w \in Seq(V) /\ Len(r \o w) = Len(r) + Len(w) BY <1>0, ConcatProperties
<1>3. Len(r) \in Nat /\ Len(w) \in Nat BY <1>0, LenProperties
<1>4. ASSUME k = Len(w) + 1 PROVE r \o InsertAt(w, k, v) = Append(r \o w, v)
  <2>1. InsertAt(w, k, v) = Append(w, v) BY <1>0, <1>4, InsertAtEnd
  <2>2. r \o Append(w, v) = Append(r \o w, v) BY <1>0, ConcatAppend
  <2> QED BY <1>4, <2>1, <2>2
<1>5. k # Len(w) + 1 => Len(r) + k \in (Len(r) + 1)..Len(r \o w) BY <1>0, <1>2, <1>3
<1> QED BY <1>1, <1>4, <1>5

Leaving(V, r, w, k) == r \in Seq(V) /\ w \in Seq(V) /\ k \in 1..Len(w)

LEMMA LineLeaves ==
    \A V, r, w, k :
       Leaving(V, r, w, k) =>
          /\ r \o RemoveAt(w, k) = RemoveAt(r \o w, Len(r) + k)
          /\ Len(r) + k \in (Len(r) + 1)..Len(r \o w)
<1> SUFFICES ASSUME NEW V, NEW r, NEW w, NEW k, Leaving(V, r, w, k)
             PROVE  /\ r \o RemoveAt(w, k) = RemoveAt(r \o w, Len(r) + k)
                    /\ Len(r) + k \in (Len(r) + 1)..Len(r \o w)
  OBVIOUS
<1>0. r \in Seq(V) /\ w \in Seq(V) /\ k \in 1..Len(w) BY DEF Leaving
<1>1. r \o RemoveAt(w, k) = RemoveAt(r \o w, Len(r) + k) BY <1>0, ConcatRemove
<1>2. Len(r \o w) = Len(r) + Len(w) BY <1>0, ConcatProperties
<1>3. Len(r) \in Nat /\ Len(w) \in Nat BY <1>0, LenProperties
<1>4. Len(r) + k \in (Len(r) + 1)..Len(r \o w) BY <1>0, <1>2, <1>3
<1> QED BY <1>1, <1>4

LEMMA LineMoves ==
    \A V, r, w, k, n :
       Leaving(V, r, w, k) /\ n \in 1..Len(w) =>
          /\ r \o InsertAt(RemoveAt(w, k), n, w[k])
                = InsertAt(RemoveAt(r \o w, Len(r) + k), Len(r) + n, (r \o w)[Len(r) + k])
          /\ Len(r) + n \in (Len(r) + 1)..Len(r \o w)
<1> SUFFICES ASSUME NEW V, NEW r, NEW w, NEW k, Leaving(V, r, w, k), NEW n \in 1..Len(w)
             PROVE  /\ r \o InsertAt(RemoveAt(w, k), n, w[k])
                          = InsertAt(RemoveAt(r \o w, Len(r) + k), Len(r) + n,
                                     (r \o w)[Len(r) + k])
                    /\ Len(r) + n \in (Len(r) + 1)..Len(r \o w)
  OBVIOUS
<1>0. r \in Seq(V) /\ w \in Seq(V) /\ k \in 1..Len(w) BY DEF Leaving
<1>1. r \o RemoveAt(w, k) = RemoveAt(r \o w, Len(r) + k) BY LineLeaves
<1>2. /\ Len(r \o w) = Len(r) + Len(w)
      /\ \A i \in 1..(Len(r) + Len(w)) :
            (r \o w)[i] = IF i <= Len(r) THEN r[i] ELSE w[i - Len(r)]
  BY <1>0, ConcatProperties
<1>3. Len(r) \in Nat /\ Len(w) \in Nat BY <1>0, LenProperties
<1>4. PICK u \in Seq(V) : u = RemoveAt(w, k) /\ Len(u) = Len(w) - 1
  BY <1>0, RemoveAtFacts, SMTT(30)
<1>5. PICK x \in V : x = w[k] BY <1>0, ElementOfSeq
<1>6. Joining(V, r, u, x, n)
  <2>1. n \in 1..(Len(u) + 1) BY <1>3, <1>4
  <2> QED BY <1>0, <1>4, <1>5, <2>1 DEF Joining
<1>7. r \o InsertAt(u, n, x) = InsertAt(r \o u, Len(r) + n, x)
  BY <1>6, LineInserts
<1>8. /\ Len(r) + n \in (Len(r) + 1)..Len(r \o w)
      /\ Len(r) + k \in 1..(Len(r) + Len(w)) /\ ~(Len(r) + k <= Len(r))
      /\ (Len(r) + k) - Len(r) = k
  BY <1>0, <1>2, <1>3
<1>9. (r \o w)[Len(r) + k] = x BY <1>2, <1>5, <1>8
<1>10. r \o InsertAt(RemoveAt(w, k), n, w[k])
          = InsertAt(RemoveAt(r \o w, Len(r) + k), Len(r) + n, (r \o w)[Len(r) + k])
  BY <1>1, <1>4, <1>5, <1>7, <1>9
<1> QED BY <1>8, <1>10

-----------------------------------------------------------------------------
(* THE SERVICES OF dtq1                                                    *)

(* LEMMA: a receiver waits for an empty line only, a sender behind a full  *)
(* ring.                                                                   *)
LEMMA IdleLine ==
    ASSUME Linked, Asking, DtqInv, NEW o \in Dtq
    PROVE  /\ que[o] # <<>> => cnt[o] = 0 /\ sque[o] = <<>>
           /\ sque[o] # <<>> => Full(o)
           /\ \A t \in Task : InSque(t, o) => Full(o)
<1>1. o \in Obj /\ DtqIdle BY KindsApart DEF DtqInv
<1>2. que[o] # <<>> => Head(que[o]) \in Task /\ InQue(Head(que[o]), o) BY <1>1, HeadFacts
<1>3. sque[o] # <<>> => Head(sque[o]) \in Task /\ InSque(Head(sque[o]), o) BY <1>1, HeadFacts
<1>4. \A t \in Task : InSque(t, o) => Full(o)
  BY <1>1, KindFacts DEF InSque, DtqIdle
<1>5. que[o] # <<>> => cnt[o] = 0 /\ sque[o] = <<>>
  BY <1>1, <1>2, <1>3, KindFacts DEF InQue, InSque, DtqIdle
<1> QED BY <1>3, <1>4, <1>5

(* LEMMA: what is empty. *)
LEMMA EmptyParts ==
    ASSUME Linked, Asking, DtqTypeOK, NEW o \in Dtq
    PROVE  /\ sque[o] = <<>> => Offered(o) = <<>> /\ Line(o) = Stored(o)
           /\ sque[o] # <<>> => Offered(o) # <<>>
           /\ cnt[o] = 0 => Stored(o) = <<>> /\ Line(o) = Offered(o)
<1>1. /\ Stored(o) \in Seq(Word1) /\ Len(Stored(o)) = cnt[o]
      /\ Offered(o) \in Seq(Word1) /\ Len(Offered(o)) = Len(sque[o])
      /\ sque[o] \in Seq(Task)
  BY LineFacts
<1>2. sque[o] = <<>> <=> Offered(o) = <<>> BY <1>1, EmptySeq
<1>3. cnt[o] = 0 => Stored(o) = <<>> BY <1>1, EmptySeq
<1>4. /\ Offered(o) = <<>> => Stored(o) \o Offered(o) = Stored(o)
      /\ Stored(o) = <<>> => Stored(o) \o Offered(o) = Offered(o)
  BY <1>1, ConcatEmptySeq
<1> QED BY <1>2, <1>3, <1>4, StoredRing

LEMMA GoesOn ==
    ASSUME Linked, Asking, DtqTypeOK, dtq1 \in objs, UNCHANGED steady, dtqcnt'[dtq1] = dtqcnt[dtq1]
    PROVE  Goes /\ dtqcnt[dtq1] # NONE
<1>1. dtqcnt[dtq1] \in Nat BY Dtq1Facts, LineFacts
<1> QED BY <1>1, Dtq1Facts DEF Goes, steady

(* LEMMA: sending. *)
LEMMA SndShows ==
    ASSUME Linked, Asking, DtqTypeOK, DtqInv, NEW v \in Data, NEW f, SndDtq(dtq1, v, f)
    PROVE  Channel1!CNext
<1>0. dtq1 \in Dtq /\ dtq1 \in Obj BY Dtq1Facts
<1>1. PICK o \in Dtq : o = dtq1 BY <1>0
<1>2. /\ Stored(o) \in Seq(Word1) /\ Len(Stored(o)) = cnt[o]
      /\ Offered(o) \in Seq(Word1) /\ v \in Word1
  BY LineFacts DEF Word1
<1>3. Line(o) = Stored(o) \o Offered(o) /\ Line(o)' = Stored(o)' \o Offered(o)'
  BY StoredRing
<1>4. o \in objs /\ UNCHANGED steady BY <1>1 DEF SndDtq
<1>5. CASE que[o] # <<>>
  <2>1. Wake({Head(que[o])}) /\ Gives(o, v) /\ UNCHANGED dtqvars BY <1>1, <1>5 DEF SndDtq
  <2>2. SameQueue(o) BY <1>0, <1>1, <1>5, <2>1, WakeHeadSame
  <2>3. SameRing(o) BY <2>1 DEF SameRing, dtqvars
  <2>4. Line(o)' = Line(o) BY <2>2, <2>3, SameLine
  <2>5. Line(o) = <<>> BY <1>5, IdleLine, EmptyParts
  <2>6. Goes /\ dtqcnt[dtq1] # NONE BY <1>1, <1>4, <2>1, GoesOn DEF dtqvars
  <2> QED BY <1>1, <2>1, <2>4, <2>5, <2>6, ShowsPass
<1>6. CASE que[o] = <<>> /\ ~Full(o)
  <2>1. Store(o, v, cnt[o] + 1) /\ GivesNothing /\ UNCHANGED waiting BY <1>1, <1>6 DEF SndDtq
  <2>2. SameQueue(o) BY <2>1, QuietSame
  <2>3. dtqcnt[o] # 0
    <3>1. dtqcnt[o] \in Nat /\ cnt[o] \in 0..dtqcnt[o] BY LineFacts
    <3> QED BY <1>6, <3>1 DEF Full
  <2>4. Stored(o)' = Append(Stored(o), v) BY <1>2, <1>6, <2>1, <2>3, StoreLine
  <2>5. Offered(o)' = Offered(o) BY <2>2, SameLine
  <2>6. Offered(o) = <<>> /\ Line(o) = Stored(o) BY <1>6, IdleLine, EmptyParts
  <2>7. Append(Stored(o), v) \o <<>> = Append(Stored(o), v)
    <3>1. Append(Stored(o), v) \in Seq(Word1) BY <1>2
    <3> QED BY <3>1, ConcatEmptySeq
  <2>8. Line(o)' = Append(Line(o), v) BY <1>3, <2>4, <2>5, <2>6, <2>7
  <2>9. Goes /\ dtqcnt[dtq1] # NONE BY <1>1, <1>4, <2>1, GoesOn DEF Store
  <2> QED BY <1>1, <2>1, <2>8, <2>9, ShowsPut
<1>7. CASE que[o] = <<>> /\ Full(o)
  <2>1. dtqcnt[o] # 0 /\ Store(o, v, cnt[o]) /\ GivesNothing /\ UNCHANGED waiting
    BY <1>1, <1>7 DEF SndDtq
  <2>2. SameQueue(o) BY <2>1, QuietSame
  <2>3. Stored(o)' = Append(Tail(Stored(o)), v) /\ Stored(o) # <<>>
    BY <1>2, <1>7, <2>1, StoreLine
  <2>4. Offered(o)' = Offered(o) BY <2>2, SameLine
  <2>5. Append(Tail(Stored(o)), v) \o Offered(o)
           = InsertAt(Tail(Stored(o) \o Offered(o)), Len(Stored(o)), v)
    BY <1>2, <2>3, LineOverwrites
  <2>6. Line(o)' = InsertAt(Tail(Line(o)), dtqcnt[o], v)
    BY <1>2, <1>3, <1>7, <2>3, <2>4, <2>5 DEF Full
  <2>7. Len(Line(o)) >= dtqcnt[o]
    <3>1. Len(Line(o)) = cnt[o] + Len(sque[o]) /\ sque[o] \in Seq(Task) /\ cnt[o] \in 0..dtqcnt[o]
      BY LineFacts
    <3>2. Len(sque[o]) \in Nat /\ dtqcnt[o] \in Nat BY <3>1, LenProperties, LineFacts
    <3> QED BY <1>7, <3>1, <3>2 DEF Full
  <2>8. Goes /\ dtqcnt[dtq1] # NONE BY <1>1, <1>4, <2>1, GoesOn DEF Store
  <2> QED BY <1>1, <2>1, <2>6, <2>7, <2>8, ShowsOverwrite
<1> QED BY <1>5, <1>6, <1>7

(* LEMMA: a sender waits, behind all or in its place among the others. *)
LEMMA JoinsLine ==
    ASSUME Linked, Asking, DtqTypeOK, DtqInv, NEW o \in Dtq, NEW t \in Task,
           NEW k \in 1..(Len(sque[o]) + 1), sque'[o] = InsertAt(sque[o], k, t), Full(o),
           SameRing(o), \A u \in ToSet(sque[o]) : par'[u] = par[u], par'[t] \in Data
    PROVE  /\ k = Len(sque[o]) + 1 => Line(o)' = Append(Line(o), par'[t])
           /\ k # Len(sque[o]) + 1 =>
                 \E i \in (dtqcnt[o] + 1)..Len(Line(o)) : Line(o)' = InsertAt(Line(o), i, par'[t])
<1>1. PICK r \in Seq(Word1), w \in Seq(Word1) : r = Stored(o) /\ w = Offered(o) BY LineFacts
<1>2. Len(r) = dtqcnt[o] /\ Len(w) = Len(sque[o]) BY <1>1, LineFacts DEF Full
<1>3. PICK v \in Word1 : v = par'[t] BY DEF Word1
<1>4. Offered(o)' = InsertAt(w, k, v) BY <1>1, <1>3, JoinsOffered
<1>5. Line(o) = r \o w /\ Line(o)' = r \o InsertAt(w, k, v)
  BY <1>1, <1>4, SameLine, StoredRing
<1>6. Joining(Word1, r, w, v, k)
  <2>1. k \in 1..(Len(w) + 1) BY <1>2
  <2> QED BY <1>1, <1>3, <2>1 DEF Joining
<1>7. /\ k = Len(w) + 1 => r \o InsertAt(w, k, v) = Append(r \o w, v)
      /\ k # Len(w) + 1 => Len(r) + k \in (Len(r) + 1)..Len(r \o w)
      /\ r \o InsertAt(w, k, v) = InsertAt(r \o w, Len(r) + k, v)
  BY <1>6, LineJoins
<1>8. CASE k = Len(sque[o]) + 1 BY <1>2, <1>3, <1>5, <1>7, <1>8
<1>9. CASE k # Len(sque[o]) + 1
  <2>1. Len(r) + k \in (dtqcnt[o] + 1)..Len(Line(o)) BY <1>2, <1>5, <1>7, <1>9
  <2>2. Line(o)' = InsertAt(Line(o), Len(r) + k, par'[t]) BY <1>3, <1>5, <1>7
  <2> QED BY <1>9, <2>1, <2>2
<1> QED BY <1>8, <1>9

LEMMA SndWaitShows ==
    ASSUME Steady, Linked, Asking, DtqTypeOK, DtqInv, NEW t \in Task, NEW v \in Data,
           NEW timed, SndDtqWait(t, dtq1, v, timed)
    PROVE  Channel1!CNext
<1>0. dtq1 \in Dtq /\ dtq1 \in Obj BY Dtq1Facts
<1>1. PICK o \in Dtq : o = dtq1 BY <1>0
<1>2. /\ Ready(t) /\ o \in objs /\ Full(o) /\ Block(t, o, "SDTQ", v, timed)
      /\ GivesNothing /\ UNCHANGED steady /\ UNCHANGED dtqvars
  BY <1>1 DEF SndDtqWait
<1>3. "SDTQ" \in SqueWaits /\ "SDTQ" \notin QueWaits BY DEF SqueWaits, QueWaits
<1>4. DOMAIN par = Task /\ DOMAIN sque = Obj BY DEF Linked, Typed
<1>5. par' = [par EXCEPT ![t] = v] BY <1>2 DEF Block
<1>6. par'[t] = v /\ \A u \in Task \ {t} : par'[u] = par[u] BY <1>4, <1>5
<1>7. \A u \in ToSet(sque[o]) : par'[u] = par[u]
  <2>1. t \notin ToSet(sque[o]) BY <1>0, <1>1, <1>2, ReadyFacts DEF Ready
  <2>2. \A u \in ToSet(sque[o]) : u \in Task BY LineFacts
  <2> QED BY <1>6, <2>1, <2>2
<1>8. PICK tpri \in BOOLEAN : tpri <=> "TPRI" \in atr[o] OBVIOUS
<1>9. sque'[o] = Enq(sque[o], t, cpri, tpri)
  <2>1. sque' = [sque EXCEPT ![o] = Enq(@, t, cpri, "TPRI" \in atr[o])]
    BY <1>2, <1>3 DEF Block
  <2>2. sque'[o] = Enq(sque[o], t, cpri, "TPRI" \in atr[o]) BY <1>0, <1>1, <1>4, <2>1
  <2> QED BY <1>8, <2>2 DEF Enq
<1>10. cpri \in [Task -> Nat] BY WaitingAssumption DEF Steady
<1>11. tpri => Ordered(sque[o], cpri) BY <1>0, <1>1, <1>8 DEF Linked, Queued
<1>12. sque[o] \in Seq(Task) BY LineFacts
<1>13. PICK k \in 1..(Len(sque[o]) + 1) :
          sque'[o] = InsertAt(sque[o], k, t) /\ (~tpri => k = Len(sque[o]) + 1)
  BY <1>9, <1>10, <1>11, <1>12, EnqPlace
<1>14. SameRing(o) BY <1>2 DEF SameRing, dtqvars
<1>15. /\ k = Len(sque[o]) + 1 => Line(o)' = Append(Line(o), v)
       /\ k # Len(sque[o]) + 1 =>
             \E i \in (dtqcnt[o] + 1)..Len(Line(o)) : Line(o)' = InsertAt(Line(o), i, v)
  BY <1>2, <1>6, <1>7, <1>13, <1>14, JoinsLine
<1>16. Goes /\ dtqcnt[dtq1] # NONE BY <1>1, <1>2, GoesOn DEF dtqvars
<1>17. CASE k = Len(sque[o]) + 1 BY <1>1, <1>2, <1>15, <1>16, <1>17, ShowsPut
<1>18. CASE k # Len(sque[o]) + 1 BY <1>1, <1>2, <1>8, <1>13, <1>15, <1>16, <1>18, ShowsPut
<1> QED BY <1>17, <1>18

(* LEMMA: receiving. *)
LEMMA HeadLeaves ==
    ASSUME Linked, Asking, DtqTypeOK, NEW o \in Dtq, sque[o] # <<>>, Wake({Head(sque[o])})
    PROVE  /\ Offered(o) # <<>> /\ Head(Offered(o)) = par[Head(sque[o])]
           /\ Offered(o)' = Tail(Offered(o)) /\ par[Head(sque[o])] \in Data
<1>1. sque[o] \in Seq(Task) /\ o \in Obj BY LineFacts
<1>2. PICK t \in ToSet(sque[o]) : t = Head(sque[o]) BY <1>1, TailOnce
<1>3. t \in Task /\ par[t] \in Data BY LineFacts
<1>4. Release({t}, {t}, Timed({t})) BY <1>2 DEF Wake
<1>5. sque'[o] = Keep(sque[o], Task \ {t}) BY <1>1, <1>4 DEF Release, Without
<1>6. \A u \in Task \ {t} : par'[u] = par[u] BY <1>4 DEF Release
<1> QED BY <1>2, <1>3, <1>5, <1>6, LeavesOffered

LEMMA RcvShows ==
    ASSUME Linked, Asking, DtqTypeOK, DtqInv, RcvDtq(dtq1)
    PROVE  Channel1!CNext
<1>0. dtq1 \in Dtq /\ dtq1 \in Obj BY Dtq1Facts
<1>1. PICK o \in Dtq : o = dtq1 BY <1>0
<1>2. /\ Stored(o) \in Seq(Word1) /\ Len(Stored(o)) = cnt[o]
      /\ Offered(o) \in Seq(Word1)
      /\ dtqcnt[o] \in Nat /\ cnt[o] \in 0..dtqcnt[o]
  BY LineFacts
<1>3. Line(o) = Stored(o) \o Offered(o) /\ Line(o)' = Stored(o)' \o Offered(o)'
  BY StoredRing
<1>4. o \in objs /\ UNCHANGED steady BY <1>1 DEF RcvDtq
<1>5. CASE cnt[o] > 0 /\ sque[o] # <<>>
  <2>1. /\ Gives(o, dtq[o][Oldest(o)]) /\ Wake({Head(sque[o])})
        /\ Store(o, par[Head(sque[o])], cnt[o])
    BY <1>1, <1>5 DEF RcvDtq
  <2>2. /\ Offered(o) # <<>> /\ Head(Offered(o)) = par[Head(sque[o])]
        /\ Offered(o)' = Tail(Offered(o)) /\ par[Head(sque[o])] \in Data
    BY <1>5, <2>1, HeadLeaves
  <2>3. Full(o) /\ dtqcnt[o] # 0 /\ cnt[o] # 0 BY <1>2, <1>5, IdleLine
  <2>4. PICK v \in Word1 : v = par[Head(sque[o])] BY <2>2 DEF Word1
  <2>5. Stored(o)' = Append(Tail(Stored(o)), v) /\ Stored(o) # <<>>
    BY <2>1, <2>3, <2>4, StoreLine
  <2>6. Head(Stored(o)) = dtq[o][Oldest(o)] BY <2>3, DropLine
  <2>7. Append(Tail(Stored(o)), Head(Offered(o))) \o Tail(Offered(o)) = Tail(Stored(o) \o Offered(o))
    BY <1>2, <2>2, <2>5, LineMovesUp
  <2>8. /\ Line(o)' = Tail(Line(o)) BY <1>3, <2>2, <2>4, <2>5, <2>7
  <2>9. Line(o) # <<>> /\ Head(Line(o)) = Head(Stored(o)) BY <1>2, <1>3, <2>5, ConcatHead
  <2>10. Goes /\ dtqcnt[dtq1] # NONE BY <1>1, <1>4, <2>1, GoesOn DEF Store
  <2> QED BY <1>1, <2>1, <2>6, <2>8, <2>9, <2>10, ShowsGet
<1>6. CASE cnt[o] > 0 /\ sque[o] = <<>>
  <2>1. /\ Gives(o, dtq[o][Oldest(o)]) /\ cnt' = [cnt EXCEPT ![o] = @ - 1]
        /\ UNCHANGED <<waiting, dtqcnt, put, dtq>>
    BY <1>1, <1>6 DEF RcvDtq
  <2>2. cnt[o] # 0 BY <1>6
  <2>3. /\ Stored(o) # <<>> /\ Head(Stored(o)) = dtq[o][Oldest(o)]
        /\ Stored(o)' = Tail(Stored(o))
    BY <2>1, <2>2, DropLine
  <2>4. SameQueue(o) BY <2>1, QuietSame
  <2>5. Offered(o)' = Offered(o) BY <2>4, SameLine
  <2>6. /\ Line(o) # <<>> /\ Head(Line(o)) = Head(Stored(o)) /\ Line(o)' = Tail(Line(o))
    BY <1>2, <1>3, <2>3, <2>5, ConcatHead
  <2>7. Goes /\ dtqcnt[dtq1] # NONE BY <1>1, <1>4, <2>1, GoesOn
  <2> QED BY <1>1, <2>1, <2>3, <2>6, <2>7, ShowsGet
<1>7. CASE ~(cnt[o] > 0)
  <2>1. /\ sque[o] # <<>> /\ Gives(o, par[Head(sque[o])]) /\ Wake({Head(sque[o])})
        /\ UNCHANGED dtqvars
    BY <1>1, <1>7 DEF RcvDtq
  <2>2. /\ Offered(o) # <<>> /\ Head(Offered(o)) = par[Head(sque[o])]
        /\ Offered(o)' = Tail(Offered(o))
    BY <2>1, HeadLeaves
  <2>3. cnt[o] = 0 BY <1>2, <1>7
  <2>4. SameRing(o) BY <2>1 DEF SameRing, dtqvars
  <2>5. Stored(o) = <<>> /\ Line(o) = Offered(o) /\ Stored(o)' = Stored(o)
    BY <2>3, <2>4, EmptyParts, SameLine
  <2>6. Tail(Offered(o)) \in Seq(Word1) BY <1>2, <2>2, HeadTailProperties
  <2>7. <<>> \o Tail(Offered(o)) = Tail(Offered(o)) BY <2>6, ConcatEmptySeq
  <2>8. Line(o)' = Tail(Line(o)) BY <1>3, <2>2, <2>5, <2>7
  <2>9. Goes /\ dtqcnt[dtq1] # NONE BY <1>1, <1>4, <2>1, GoesOn DEF dtqvars
  <2> QED BY <1>1, <2>1, <2>2, <2>5, <2>8, <2>9, ShowsGet
<1> QED BY <1>5, <1>6, <1>7

LEMMA RcvWaitShows ==
    ASSUME Linked, Asking, DtqTypeOK, NEW t \in Task, NEW timed, RcvDtqWait(t, dtq1, timed)
    PROVE  Channel1!CNext
<1>1. /\ Ready(t) /\ Block(t, dtq1, "RDTQ", NONE, timed) /\ GivesNothing
      /\ UNCHANGED steady /\ UNCHANGED dtqvars
  BY DEF RcvDtqWait
<1>2. "RDTQ" \in QueWaits /\ dtq1 \in Obj BY Dtq1Facts DEF QueWaits
<1>3. SameQueue(dtq1) BY <1>1, <1>2, BlockSame DEF Ready
<1>4. Calm(dtq1) /\ atr' = atr BY <1>1, <1>3 DEF Calm, steady
<1>5. SameRing(dtq1) BY <1>1 DEF SameRing, dtqvars
<1>6. out'[1] # dtq1 BY <1>1, GivenNothing
<1> QED BY <1>4, <1>5, <1>6, ShowsPause

(* LEMMA: the queue is created, and deleted. *)
LEMMA CreShows ==
    ASSUME Linked, DtqTypeOK, NEW a, NEW n \in DtqCnt, CreDtq(dtq1, a, n)
    PROVE  Channel1!CNext
<1>0. dtq1 \in Dtq /\ dtq1 \in Obj BY Dtq1Facts
<1>1. Create(dtq1, a) /\ dtqcnt' = [dtqcnt EXCEPT ![dtq1] = n] /\ cnt' = [cnt EXCEPT ![dtq1] = 0]
  BY DEF CreDtq
<1>2. dtq1 \notin objs /\ dtq1 \in objs' /\ GivesNothing /\ UNCHANGED waiting
  BY <1>1 DEF Create
<1>3. sque'[dtq1] = <<>> BY <1>0, <1>2, NobodyWaitsYet DEF waiting
<1>4. dtqcnt'[dtq1] = n /\ cnt'[dtq1] = 0 /\ n \in Nat
  BY <1>0, <1>1, DataQueueAssumption DEF DtqTypeOK
<1>5. Line(dtq1)' = <<>>
  <2>1. 1..0 = {} OBVIOUS
  <2>2. Stored(dtq1)' = <<>> BY <1>4, <2>1, StoredRing DEF InRing
  <2>3. Offered(dtq1)' = <<>> BY <1>3, <2>1 DEF Offered, Words
  <2>4. <<>> \o <<>> = <<>>
    <3>1. <<>> \in Seq(Word1) OBVIOUS
    <3> QED BY <3>1, ConcatEmptySeq
  <2> QED BY <2>2, <2>3, <2>4, StoredRing
<1>6. out'[1] # dtq1 BY <1>2, GivenNothing
<1>7. Channel1!Open BY <1>2, <1>4, <1>5, <1>6 DEF Channel1!Open
<1> QED BY <1>7 DEF Channel1!CNext

LEMMA DelShows ==
    ASSUME Linked, DtqTypeOK, DelDtq(dtq1)
    PROVE  Channel1!CNext
<1>1. dtq1 \in objs /\ dtq1 \notin objs' /\ GivesNothing BY DEF DelDtq, Delete
<1>2. dtqcnt[dtq1] # NONE BY Dtq1Facts DEF DtqTypeOK
<1>3. out'[1] # dtq1 BY <1>1, GivenNothing
<1>4. Channel1!Close BY <1>1, <1>2, <1>3 DEF Channel1!Close
<1> QED BY <1>4 DEF Channel1!CNext

-----------------------------------------------------------------------------
(* THE TASKS                                                               *)

LEMMA GoesStill ==
    ASSUME Linked, Asking, DtqTypeOK, UNCHANGED <<objs, atr, dtqvars>>,
           NEW t \in Task, InSque(t, dtq1)
    PROVE  Goes /\ dtqcnt[dtq1] # NONE
<1>1. dtq1 \in objs BY DEF InSque, Linked, Flagged, InQueue
<1>2. dtqcnt'[dtq1] = dtqcnt[dtq1] BY DEF dtqvars
<1>3. dtqcnt[dtq1] \in Nat BY Dtq1Facts, LineFacts
<1> QED BY <1>1, <1>2, <1>3, Dtq1Facts DEF Goes

(* LEMMA: a task stops waiting without having sent.                        *)
LEMMA ReleaseShows ==
    ASSUME Linked, Asking, DtqTypeOK, DtqInv, NEW t \in Task, NEW deq \in SUBSET {t}, NEW off,
           Release({t}, deq, off), InSque(t, dtq1) => t \in deq,
           UNCHANGED <<objs, atr, dtqvars>>, GivesNothing
    PROVE  Channel1!CNext
<1>0. dtq1 \in Dtq /\ dtq1 \in Obj /\ out'[1] # dtq1 BY Dtq1Facts, GivenNothing
<1>1. PICK o \in Dtq : o = dtq1 BY <1>0
<1>2. SameRing(o) BY DEF SameRing, dtqvars
<1>3. CASE InSque(t, o)
  <2>1. t \in ToSet(sque[o]) BY <1>0, <1>1, <1>3 DEF Linked, Queued
  <2>2. deq = {t} BY <1>1, <1>3
  <2>3. sque'[o] = Keep(sque[o], Task \ {t}) BY <1>0, <1>1, <2>2 DEF Release, Without
  <2>4. \A u \in Task \ {t} : par'[u] = par[u] BY DEF Release
  <2>5. \E i \in 1..Len(sque[o]) : sque[o][i] = t /\ Offered(o)' = RemoveAt(Offered(o), i)
    BY <2>1, <2>3, <2>4, LeavesOffered
  <2>6. PICK k \in 1..Len(sque[o]) : Offered(o)' = RemoveAt(Offered(o), k) BY <2>5
  <2>7. PICK r \in Seq(Word1), w \in Seq(Word1) : r = Stored(o) /\ w = Offered(o)
    BY LineFacts
  <2>8. Full(o) BY <1>3, IdleLine
  <2>9. Len(r) = dtqcnt[o] /\ Len(w) = Len(sque[o]) BY <2>7, <2>8, LineFacts DEF Full
  <2>10. Leaving(Word1, r, w, k) BY <2>7, <2>9 DEF Leaving
  <2>11. /\ r \o RemoveAt(w, k) = RemoveAt(r \o w, Len(r) + k)
         /\ Len(r) + k \in (Len(r) + 1)..Len(r \o w)
    BY <2>10, LineLeaves
  <2>12. Line(o) = r \o w /\ Line(o)' = r \o RemoveAt(w, k)
    BY <1>2, <2>6, <2>7, SameLine, StoredRing
  <2>13. PICK i : i = Len(r) + k OBVIOUS
  <2>14. i \in (dtqcnt[dtq1] + 1)..Len(Line(dtq1)) /\ Line(dtq1)' = RemoveAt(Line(dtq1), i)
    BY <1>1, <2>9, <2>11, <2>12, <2>13
  <2>15. Goes /\ dtqcnt[dtq1] # NONE BY <1>1, <1>3, GoesStill
  <2> QED BY <2>14, <2>15, ShowsGiveUp
<1>4. CASE ~InSque(t, o)
  <2>1. \A u \in Task : InSque(u, o) => u \notin {t} BY <1>4
  <2>2. SameQueue(o) BY <1>0, <1>1, <2>1, ReleaseAside
  <2>3. Calm(dtq1) BY <1>1, <2>2 DEF Calm
  <2> QED BY <1>0, <1>1, <1>2, <2>3, ShowsPause
<1> QED BY <1>3, <1>4

(* LEMMA: its new priority gives a sender another place.                   *)
LEMMA ChgPriShows ==
    ASSUME Steady, Linked, Asking, DtqTypeOK, DtqInv, NEW t \in Task, NEW p \in 1..MaxPri,
           ChgPri(t, p), UNCHANGED dtqvars
    PROVE  Channel1!CNext
<1>0. dtq1 \in Dtq /\ dtq1 \in Obj BY Dtq1Facts
<1>1. PICK o \in Dtq : o = dtq1 BY <1>0
<1>2. /\ UNCHANGED <<objs, atr, par>> /\ GivesNothing
      /\ cpri' = [cpri EXCEPT ![t] = p] /\ out'[1] # dtq1
  BY GivenNothing DEF ChgPri
<1>3. SameRing(o) BY DEF SameRing, dtqvars
<1>4. sque[o] \in Seq(Task) /\ Once(sque[o]) BY LineFacts
<1>5. ASSUME Waits(t), "FIFO" \notin msts[t], wsts[t] # "RDV"
      PROVE  /\ wsts[t] \in SqueWaits
             /\ sque' = [Without(sque, {t}) EXCEPT ![wobj[t]] = Enq(@, t, cpri', TRUE)]
  <2>1. wsts[t] # NONE BY <1>5 DEF Linked, Flagged, Waits
  <2>2. wsts[t] \in SqueWaits BY <1>5, <2>1 DEF Linked, Typed, Flagged
  <2> QED BY <1>5, <2>2 DEF ChgPri
<1>6. CASE Waits(t) /\ "FIFO" \notin msts[t] /\ wsts[t] # "RDV" /\ wobj[t] = o
  <2>1. InSque(t, o) /\ wsts[t] \in SqueWaits BY <1>5, <1>6 DEF InSque
  <2>2. t \in ToSet(sque[o]) BY <1>0, <1>1, <2>1 DEF Linked, Queued
  <2>3. "TPRI" \in atr[o] BY <1>6, <2>1 DEF Linked, Flagged
  <2>4. PICK k \in 1..Len(sque[o]) : sque[o][k] = t BY <1>4, <2>2, ToSetFacts
  <2>5. PICK q \in Seq(Task) :
           q = RemoveAt(sque[o], k) /\ q = Keep(sque[o], Task \ {t}) /\ Len(q) = Len(sque[o]) - 1
    <3>1. RemoveAt(sque[o], k) \in Seq(Task) /\ Len(RemoveAt(sque[o], k)) = Len(sque[o]) - 1
      BY ONLY <1>4, <2>4, RemoveAtFacts
    <3>2. Keep(sque[o], Task \ {sque[o][k]}) = RemoveAt(sque[o], k) BY <1>4, KeepRemove
    <3> QED BY <2>4, <3>1, <3>2
  <2>6. sque'[o] = Enq(q, t, cpri', TRUE)
    BY <1>0, <1>1, <1>5, <1>6, <2>5 DEF Without
  <2>7. Ordered(q, cpri')
    <3>1. Ordered(sque[o], cpri) BY <1>0, <1>1, <2>3 DEF Linked, Queued
    <3>2. sque \in [Obj -> Seq(Task)] BY DEF Linked, Typed
    <3>3. Without(sque, {t})[o] = q BY <1>0, <1>1, <2>5 DEF Without
    <3>4. Ordered(q, cpri) /\ ToSet(q) = ToSet(sque[o]) \ {t}
      BY <1>0, <1>1, <3>1, <3>2, <3>3, WithoutFacts
    <3>5. \A i \in 1..Len(q) : q[i] \in Task /\ q[i] # t BY <3>4, ToSetFacts
    <3>6. \A i \in 1..Len(q) : cpri'[q[i]] = cpri[q[i]] BY <1>2, <3>5 DEF Steady
    <3> QED BY <3>4, <3>6 DEF Ordered
  <2>8. cpri' \in [Task -> Nat]
    <3>1. cpri \in [Task -> Nat] /\ p \in Nat BY WaitingAssumption DEF Steady
    <3> QED BY <1>2, <3>1
  <2>9. \E n \in 1..(Len(q) + 1) : Enq(q, t, cpri', TRUE) = InsertAt(q, n, t)
    BY <2>7, <2>8, EnqPlace
  <2>10. PICK n \in 1..Len(sque[o]) :
            sque'[o] = InsertAt(q, n, t) /\ n \in 1..(Len(q) + 1)
    <3>1. Len(sque[o]) \in Nat BY <1>4, LenProperties
    <3>2. Len(q) + 1 = Len(sque[o]) BY <2>5, <3>1
    <3> QED BY <2>6, <2>9, <3>2
  <2>11. Carries(sque[o], par, Word1) /\ par[t] \in Word1
    BY <2>2, LineFacts DEF Word1, Carries
  <2>12. Words(q, par) = RemoveAt(Offered(o), k)
    <3>1. Words(RemoveAt(sque[o], k), par) = RemoveAt(Words(sque[o], par), k)
      BY <1>4, <2>11, WordsRemove
    <3> QED BY <2>5, <3>1 DEF Offered
  <2>13. Words(InsertAt(q, n, t), par) = InsertAt(Words(q, par), n, par[t])
    <3>1. ToSet(Keep(sque[o], Task \ {t})) = ToSet(sque[o]) \cap (Task \ {t})
      BY <1>4, KeepOnce
    <3>2. Carries(q, par, Word1) BY <2>5, <2>11, <3>1 DEF Carries
    <3> QED BY <2>10, <2>11, <3>2, WordsInsert
  <2>14. Offered(o)[k] = par[t] BY <2>4 DEF Offered, Words
  <2>15. Offered(o)' = InsertAt(RemoveAt(Offered(o), k), n, Offered(o)[k])
    BY <1>2, <2>10, <2>12, <2>13, <2>14 DEF Offered
  <2>16. PICK r \in Seq(Word1), w \in Seq(Word1) : r = Stored(o) /\ w = Offered(o)
    BY LineFacts
  <2>17. Full(o) BY <2>1, IdleLine
  <2>18. Len(r) = dtqcnt[o] /\ Len(w) = Len(sque[o]) BY <2>16, <2>17, LineFacts DEF Full
  <2>19. Leaving(Word1, r, w, k) /\ n \in 1..Len(w) BY <2>16, <2>18 DEF Leaving
  <2>20. /\ r \o InsertAt(RemoveAt(w, k), n, w[k])
               = InsertAt(RemoveAt(r \o w, Len(r) + k), Len(r) + n, (r \o w)[Len(r) + k])
         /\ Len(r) + n \in (Len(r) + 1)..Len(r \o w)
    BY <2>19, LineMoves
  <2>a. Len(r) + k \in (Len(r) + 1)..Len(r \o w) BY <2>19, LineLeaves
  <2>21. Line(o) = r \o w /\ Line(o)' = r \o InsertAt(RemoveAt(w, k), n, w[k])
    BY <1>3, <2>15, <2>16, SameLine, StoredRing
  <2>22. PICK i, j : i = Len(r) + k /\ j = Len(r) + n OBVIOUS
  <2>23. /\ i \in (dtqcnt[dtq1] + 1)..Len(Line(dtq1))
         /\ j \in (dtqcnt[dtq1] + 1)..Len(Line(dtq1))
         /\ Line(dtq1)' = InsertAt(RemoveAt(Line(dtq1), i), j, Line(dtq1)[i])
    BY <1>1, <2>18, <2>20, <2>a, <2>21, <2>22
  <2>24. Goes /\ dtqcnt[dtq1] # NONE BY <1>1, <1>2, <2>1, GoesStill
  <2> QED BY <1>1, <1>2, <2>3, <2>23, <2>24, ShowsMove
<1>7. CASE ~(Waits(t) /\ "FIFO" \notin msts[t] /\ wsts[t] # "RDV" /\ wobj[t] = o)
  <2>1. sque'[o] = sque[o]
    <3>1. CASE ~(Waits(t) /\ "FIFO" \notin msts[t] /\ wsts[t] # "RDV")
      BY <3>1 DEF ChgPri
    <3>2. CASE Waits(t) /\ "FIFO" \notin msts[t] /\ wsts[t] # "RDV"
      <4>1. \E y : sque' = [Without(sque, {t}) EXCEPT ![wobj[t]] = y] BY <1>5, <3>2
      <4>2. wobj[t] # o BY <1>7, <3>2
      <4>3. t \notin ToSet(sque[o]) BY <1>0, <1>1, <4>2 DEF Linked, Queued, InSque
      <4>4. ToSet(sque[o]) \subseteq Task \ {t} BY <1>4, <4>3, ToSetFacts
      <4>5. Without(sque, {t})[o] = sque[o] BY <1>0, <1>1, <1>4, <4>4, KeepEnds DEF Without
      <4> QED BY <1>0, <1>1, <4>1, <4>2, <4>5 DEF Without
    <3> QED BY <3>1, <3>2
  <2>2. Calm(dtq1) BY <1>1, <1>2, <2>1 DEF Calm, SameQueue
  <2> QED BY <1>1, <1>2, <1>3, <2>2, ShowsPause
<1> QED BY <1>6, <1>7

LEMMA TaskShows ==
    ASSUME Steady, Linked, Asking, DtqTypeOK, DtqInv, TaskNext, UNCHANGED dtqvars
    PROVE  Channel1!CNext
<1>1. PICK t \in Task : \/ TimeOut(t) \/ RelWai(t) \/ TerTsk(t)
                        \/ \E p \in 1..MaxPri : ChgPri(t, p)
  BY DEF TaskNext
<1>2. InSque(t, dtq1) => Waits(t) /\ wsts[t] # "RDV"
  BY KindsApart DEF InSque, SqueWaits, Linked, Flagged, Waits
<1>3. CASE TimeOut(t)
  <2>1. PICK deq \in SUBSET {t} : deq = (IF Waits(t) /\ wsts[t] # "RDV" THEN {t} ELSE {})
    OBVIOUS
  <2>2. PICK off : Release({t}, deq, off) /\ UNCHANGED <<objs, atr>> /\ GivesNothing
    BY <1>3, <2>1 DEF TimeOut
  <2>3. InSque(t, dtq1) => t \in deq BY <1>2, <2>1
  <2> QED BY <2>2, <2>3, ReleaseShows
<1>4. CASE RelWai(t)
  <2>1. PICK deq \in SUBSET {t} : deq = (IF wsts[t] # "RDV" THEN {t} ELSE {})
    OBVIOUS
  <2>2. PICK off : Release({t}, deq, off) /\ UNCHANGED <<objs, atr>> /\ GivesNothing
    BY <1>4, <2>1 DEF RelWai
  <2>3. InSque(t, dtq1) => t \in deq BY <1>2, <2>1
  <2> QED BY <2>2, <2>3, ReleaseShows
<1>5. CASE TerTsk(t)
  <2>1. UNCHANGED waiting /\ objs' = objs /\ atr' = atr /\ GivesNothing BY <1>5 DEF TerTsk
  <2>2. Calm(dtq1) BY <2>1, QuietSame DEF Calm
  <2>3. SameRing(dtq1) /\ out'[1] # dtq1 BY <2>1, GivenNothing DEF SameRing, dtqvars
  <2> QED BY <2>1, <2>2, <2>3, ShowsPause
<1>6. CASE \E p \in 1..MaxPri : ChgPri(t, p) BY <1>6, ChgPriShows
<1> QED BY <1>1, <1>3, <1>4, <1>5, <1>6

-----------------------------------------------------------------------------
(* THE OTHER OBJECTS                                                       *)

(* Nothing is handed over by dtq1, and its attributes stay. *)
Aside == out'[1] # dtq1 /\ atr'[dtq1] = atr[dtq1]

LEMMA SteadyAside ==
    ASSUME atr' = atr, GivesNothing \/ \E x, v : x # dtq1 /\ Gives(x, v)
    PROVE  Aside
<1>1. CASE GivesNothing BY <1>1, GivenNothing DEF Aside
<1>2. CASE \E x, v : x # dtq1 /\ Gives(x, v) BY <1>2 DEF Aside, Gives
<1> QED BY <1>1, <1>2

LEMMA CreateAside ==
    ASSUME Steady, NEW x, x # dtq1, NEW a, Create(x, a) \/ Delete(x)
    PROVE  Aside
<1>1. GivesNothing BY DEF Create, Delete
<1>2. \E b : atr' = [atr EXCEPT ![x] = b] BY DEF Create, Delete
<1>3. atr'[dtq1] = atr[dtq1] BY <1>2, Dtq1Facts DEF Steady
<1> QED BY <1>1, <1>3, GivenNothing DEF Aside

LEMMA SemAside ==
    ASSUME Steady, SemNext
    PROVE  Aside
<1>1. PICK x \in Sem \cap ids :
         \/ \E a \in SemAtr, n \in 0..MaxSem[x] : CreSem(x, a, n)
         \/ DelSem(x) \/ WaiSem(x) \/ SigSem(x)
         \/ \E t \in Task, timed \in BOOLEAN : WaiSemWait(t, x, timed)
  BY DEF SemNext
<1>2. x # dtq1 BY KindsApart, Dtq1Facts
<1>3. ASSUME NEW a, NEW n, CreSem(x, a, n) \/ DelSem(x) PROVE Aside
  BY <1>2, <1>3, CreateAside DEF CreSem, DelSem
<1>4. CASE WaiSem(x) \/ SigSem(x) BY <1>4, SteadyAside DEF WaiSem, SigSem, steady
<1>5. ASSUME NEW t, NEW timed, WaiSemWait(t, x, timed) PROVE Aside
  BY <1>5, SteadyAside DEF WaiSemWait, steady
<1> QED BY <1>1, <1>3, <1>4, <1>5

LEMMA FlgAside ==
    ASSUME Steady, FlgNext
    PROVE  Aside
<1>1. PICK x \in Flg \cap ids :
         \/ \E a \in FlgAtr, p \in SUBSET Bit : CreFlg(x, a, p)
         \/ DelFlg(x)
         \/ \E p \in SUBSET Bit : SetFlg(x, p) \/ ClrFlg(x, p)
         \/ \E w \in Wish :
               \/ WaiFlg(x, w)
               \/ \E t \in Task, timed \in BOOLEAN : WaiFlgWait(t, x, w, timed)
  BY DEF FlgNext
<1>2. x # dtq1 BY KindsApart, Dtq1Facts
<1>3. ASSUME NEW a, NEW p, CreFlg(x, a, p) \/ DelFlg(x) PROVE Aside
  BY <1>2, <1>3, CreateAside DEF CreFlg, DelFlg
<1>4. ASSUME NEW p, SetFlg(x, p) \/ ClrFlg(x, p) \/ WaiFlg(x, p) PROVE Aside
  BY <1>4, SteadyAside DEF SetFlg, ClrFlg, WaiFlg, steady
<1>5. ASSUME NEW t, NEW w, NEW timed, WaiFlgWait(t, x, w, timed) PROVE Aside
  BY <1>5, SteadyAside DEF WaiFlgWait, steady
<1> QED BY <1>1, <1>3, <1>4, <1>5

LEMMA MbxAside ==
    ASSUME Steady, MbxNext
    PROVE  Aside
<1>1. PICK x \in Mbx \cap ids :
         \/ \E a \in MbxAtr : CreMbx(x, a)
         \/ DelMbx(x) \/ RcvMbx(x)
         \/ \E m \in Msg : SndMbx(x, m)
         \/ \E t \in Task, timed \in BOOLEAN : RcvMbxWait(t, x, timed)
  BY DEF MbxNext
<1>2. x # dtq1 BY KindsApart, Dtq1Facts
<1>3. ASSUME NEW a, CreMbx(x, a) \/ DelMbx(x) PROVE Aside
  BY <1>2, <1>3, CreateAside DEF CreMbx, DelMbx
<1>4. CASE RcvMbx(x)
  <2>1. atr' = atr /\ \E v : Gives(x, v) BY <1>4 DEF RcvMbx, steady
  <2> QED BY <1>2, <2>1, SteadyAside
<1>5. ASSUME NEW m, SndMbx(x, m) PROVE Aside
  <2>1. atr' = atr /\ (GivesNothing \/ Gives(x, m)) BY <1>5 DEF SndMbx, steady
  <2> QED BY <1>2, <2>1, SteadyAside
<1>6. ASSUME NEW t, NEW timed, RcvMbxWait(t, x, timed) PROVE Aside
  BY <1>6, SteadyAside DEF RcvMbxWait, steady
<1> QED BY <1>1, <1>3, <1>4, <1>5, <1>6

LEMMA MpfAside ==
    ASSUME Steady, MpfNext
    PROVE  Aside
<1>1. PICK x \in Mpf \cap ids :
         \/ \E a \in MpfAtr : CreMpf(x, a)
         \/ DelMpf(x) \/ GetMpf(x)
         \/ \E b \in lent[x] : RelMpf(x, b)
         \/ \E t \in Task, timed \in BOOLEAN : GetMpfWait(t, x, timed)
  BY DEF MpfNext
<1>2. x # dtq1 BY KindsApart, Dtq1Facts
<1>3. ASSUME NEW a, CreMpf(x, a) \/ DelMpf(x) PROVE Aside
  BY <1>2, <1>3, CreateAside DEF CreMpf, DelMpf
<1>4. CASE GetMpf(x) BY <1>2, <1>4, SteadyAside DEF GetMpf, steady
<1>5. ASSUME NEW b, RelMpf(x, b) PROVE Aside
  <2>1. atr' = atr /\ (GivesNothing \/ Gives(x, b)) BY <1>5 DEF RelMpf, steady
  <2> QED BY <1>2, <2>1, SteadyAside
<1>6. ASSUME NEW t, NEW timed, GetMpfWait(t, x, timed) PROVE Aside
  BY <1>6, SteadyAside DEF GetMpfWait, steady
<1> QED BY <1>1, <1>3, <1>4, <1>5, <1>6

LEMMA PorAside ==
    ASSUME Steady, PorNext
    PROVE  Aside
<1>1. \A x \in Por : x # dtq1 BY KindsApart, Dtq1Facts
<1>2. ASSUME NEW x \in Por, NEW a, CrePor(x, a) \/ DelPor(x) PROVE Aside
  BY <1>1, <1>2, CreateAside DEF CrePor, DelPor
<1>3. ASSUME NEW o, NEW c, NEW ptn, NEW n, NEW timed,
             \/ CalPor(c, o, ptn, timed) \/ CalPorWait(c, o, ptn, n, timed)
             \/ AcpPor(o, ptn) \/ AcpPorWait(c, o, ptn, timed)
             \/ FwdPor(c, o, ptn, n) \/ FwdPorWait(c, o, ptn, n)
             \/ RplRdv(c, n)
      PROVE  GivesNothing /\ atr' = atr
  <2>1. CASE CalPor(c, o, ptn, timed) BY <2>1 DEF CalPor, steady
  <2>2. CASE CalPorWait(c, o, ptn, n, timed) BY <2>2 DEF CalPorWait, steady
  <2>3. CASE AcpPor(o, ptn) BY <2>3 DEF AcpPor, steady
  <2>4. CASE AcpPorWait(c, o, ptn, timed) BY <2>4 DEF AcpPorWait, steady
  <2>5. CASE FwdPor(c, o, ptn, n) BY <2>5 DEF FwdPor, steady
  <2>6. CASE FwdPorWait(c, o, ptn, n) BY <2>6 DEF FwdPorWait, steady
  <2>7. CASE RplRdv(c, n) BY <2>7 DEF RplRdv, steady
  <2> QED BY <1>3, <2>1, <2>2, <2>3, <2>4, <2>5, <2>6, <2>7
<1> QED BY <1>2, <1>3, SteadyAside DEF PorNext

(* LEMMA: the memory pools. *)
LEMMA MplQuiet ==
    ASSUME Steady, Linked, MplNext
    PROVE  Aside /\ Calm(dtq1)
<1>1. \A x \in Mpl : x \in Obj /\ x # dtq1 BY KindsApart, Dtq1Facts
<1>2. ASSUME NEW x \in Mpl, NEW a, NEW n, CreMpl(x, a, n) PROVE Aside /\ Calm(dtq1)
  BY <1>1, <1>2, CreateAside, CreateStill DEF CreMpl, Still
<1>3. ASSUME NEW x \in Mpl, DelMpl(x) PROVE Aside /\ Calm(dtq1)
  BY <1>1, <1>3, Dtq1Facts, CreateAside, DeleteStill DEF DelMpl, Still
<1>4. ASSUME UNCHANGED <<waiting, objs, atr>>, GivesNothing PROVE Aside /\ Calm(dtq1)
  BY <1>4, SteadyAside, QuietSame DEF Calm
<1>5. ASSUME NEW x \in Mpl, NEW n, NEW b, GetMpl(x, n) \/ RelMpl(x, b) PROVE Aside /\ Calm(dtq1)
  BY <1>4, <1>5 DEF GetMpl, RelMpl, steady
<1>6. ASSUME NEW t \in Task, LookMpl(t) PROVE Aside /\ Calm(dtq1)
  <2>1. post[t] \in Obj /\ post[t] # dtq1 BY <1>1, <1>6 DEF LookMpl
  <2>2. UNCHANGED <<objs, atr>> /\ GivesNothing BY <1>6 DEF LookMpl
  <2>3. \/ UNCHANGED waiting
        \/ sque[post[t]] # <<>> /\ Wake({Head(sque[post[t]])})
    BY <1>6 DEF LookMpl, ServeFirst, ServesNobody, Serves
  <2>4. SameQueue(dtq1) BY <2>1, <2>3, Dtq1Facts, QuietSame, WakeHeadSame
  <2> QED BY <2>2, <2>4, SteadyAside DEF Calm
<1>7. ASSUME NEW x \in Mpl, NEW t \in Task, NEW n, NEW timed, GetMplWait(t, x, n, timed)
      PROVE  Aside /\ Calm(dtq1)
  <2>1. /\ Ready(t) /\ Block(t, x, "MPL", n, timed) /\ UNCHANGED <<objs, atr>> /\ GivesNothing
    BY <1>7 DEF GetMplWait
  <2>2. SameQueue(dtq1) BY <1>1, <2>1, Dtq1Facts, BlockSame DEF Ready
  <2> QED BY <2>1, <2>2, SteadyAside DEF Calm
<1> QED BY <1>2, <1>3, <1>5, <1>6, <1>7 DEF MplNext

(* LEMMA: the message buffers. *)
LEMMA MbfQuiet ==
    ASSUME Steady, Linked, MbfNext
    PROVE  Aside /\ Calm(dtq1)
<1>1. PICK x \in Mbf \cap ids :
         \/ \E a \in MbfAtr, n \in MbfSz : CreMbf(x, a, n)
         \/ DelMbf(x) \/ RcvMbf(x)
         \/ \E m \in Mail : SndMbf(x, m)
         \/ \E t \in Task, timed \in BOOLEAN :
               \/ \E m \in Mail : SndMbfWait(t, x, m, timed)
               \/ RcvMbfWait(t, x, timed)
  BY DEF MbfNext
<1>2. x \in Obj /\ x # dtq1 BY KindsApart, Dtq1Facts
<1>3. ASSUME NEW a, NEW n, CreMbf(x, a, n) PROVE Aside /\ Calm(dtq1)
  BY <1>2, <1>3, CreateAside, CreateStill DEF CreMbf, Still
<1>4. CASE DelMbf(x)
  BY <1>2, <1>4, Dtq1Facts, CreateAside, DeleteStill DEF DelMbf, Still
<1>5. ASSUME UNCHANGED <<objs, atr>>,
             GivesNothing \/ \E v : Gives(x, v),
             \/ UNCHANGED waiting
             \/ que[x] # <<>> /\ Wake({Head(que[x])})
             \/ sque[x] # <<>> /\ Wake({Head(sque[x])})
      PROVE  Aside /\ Calm(dtq1)
  <2>1. Aside BY <1>2, <1>5, SteadyAside
  <2>2. SameQueue(dtq1) BY <1>2, <1>5, Dtq1Facts, QuietSame, WakeHeadSame
  <2> QED BY <1>5, <2>1, <2>2 DEF Calm
<1>6. CASE RcvMbf(x)
  <2>1. UNCHANGED <<objs, atr>> BY <1>6 DEF RcvMbf
  <2>2. CASE frsz[x] # mbfsz[x]
    <3>1. UNCHANGED waiting /\ \E v : Gives(x, v) BY <1>6, <2>2 DEF RcvMbf
    <3> QED BY <1>5, <2>1, <3>1
  <2>3. CASE frsz[x] = mbfsz[x]
    <3>1. sque[x] # <<>> /\ Wake({Head(sque[x])}) /\ \E v : Gives(x, v)
      BY <1>6, <2>3 DEF RcvMbf
    <3> QED BY <1>5, <2>1, <3>1
  <2> QED BY <2>2, <2>3
<1>7. ASSUME NEW m, SndMbf(x, m) PROVE Aside /\ Calm(dtq1)
  <2>1. UNCHANGED <<objs, atr>> BY <1>7 DEF SndMbf, steady
  <2>2. CASE que[x] # <<>>
    <3>1. Wake({Head(que[x])}) /\ Gives(x, m) BY <1>7, <2>2 DEF SndMbf
    <3> QED BY <1>5, <2>1, <2>2, <3>1
  <2>3. CASE que[x] = <<>>
    <3>1. UNCHANGED waiting /\ GivesNothing BY <1>7, <2>3 DEF SndMbf
    <3> QED BY <1>5, <2>1, <3>1
  <2> QED BY <2>2, <2>3
<1>8. ASSUME NEW t \in Task, NEW timed, NEW m,
             SndMbfWait(t, x, m, timed) \/ RcvMbfWait(t, x, timed)
      PROVE  Aside /\ Calm(dtq1)
  <2>1. /\ Ready(t) /\ UNCHANGED steady /\ GivesNothing
        /\ Block(t, x, "SMBF", m, timed) \/ Block(t, x, "RMBF", NONE, timed)
    BY <1>8 DEF SndMbfWait, RcvMbfWait
  <2>2. SameQueue(dtq1) BY <1>2, <2>1, Dtq1Facts, BlockSame DEF Ready
  <2> QED BY <2>1, <2>2, SteadyAside DEF Calm, steady
<1> QED BY <1>1, <1>3, <1>4, <1>6, <1>7, <1>8

(* LEMMA: the kernel serves those who wait for memory. *)
LEMMA ServingQuiet ==
    ASSUME Linked, Serving
    PROVE  Aside /\ Calm(dtq1) /\ UNCHANGED dtqvars
<1>1. PICK x \in Mpl \cup Mbf : ChkMpl(x) \/ ChkMbf(x) BY DEF Serving
<1>2. x \in Obj /\ x # dtq1 BY KindsApart, Dtq1Facts
<1>3. UNCHANGED <<objs, atr>> /\ GivesNothing BY <1>1 DEF ChkMpl, ChkMbf
<1>4. UNCHANGED waiting \/ (sque[x] # <<>> /\ Wake({Head(sque[x])}))
  BY <1>1 DEF ChkMpl, ChkMbf, ServeFirst, ServesNobody, Serves
<1>5. SameQueue(dtq1) BY <1>2, <1>4, Dtq1Facts, QuietSame, WakeHeadSame
<1> QED BY <1>3, <1>5, SteadyAside DEF Calm, Serving

(* LEMMA: the other data queues. *)
LEMMA OtherQueue ==
    ASSUME Steady, Linked, DtqTypeOK, NEW x \in Dtq, x # dtq1, DtqService(x)
    PROVE  Aside /\ SameRing(dtq1)
<1>1. DOMAIN dtqcnt = Dtq /\ DOMAIN cnt = Dtq /\ DOMAIN put = Dtq /\ DOMAIN dtq = Dtq
  BY DEF DtqTypeOK
<1>2. dtq1 \in Dtq BY Dtq1Facts
<1>a. ASSUME UNCHANGED dtqvars PROVE SameRing(dtq1) BY <1>a DEF SameRing, dtqvars
<1>b. ASSUME NEW v, NEW n, Store(x, v, n) PROVE SameRing(dtq1)
  BY <1>1, <1>2, <1>b DEF SameRing, Store
<1>3. ASSUME NEW a, NEW n, CreDtq(x, a, n) PROVE Aside /\ SameRing(dtq1)
  BY <1>1, <1>2, <1>3, CreateAside DEF CreDtq, SameRing
<1>4. CASE DelDtq(x)
  BY <1>1, <1>2, <1>4, CreateAside DEF DelDtq, SameRing
<1>5. CASE RcvDtq(x)
  <2>1. atr' = atr /\ \E v : Gives(x, v) BY <1>5 DEF RcvDtq, steady
  <2>2. SameRing(dtq1)
    <3>1. CASE UNCHANGED dtqvars BY <1>a, <3>1
    <3>2. CASE \E v, n : Store(x, v, n) BY <1>b, <3>2
    <3>3. CASE cnt' = [cnt EXCEPT ![x] = @ - 1] /\ UNCHANGED <<dtqcnt, put, dtq>>
      BY <1>1, <1>2, <3>3 DEF SameRing
    <3> QED BY <1>5, <3>1, <3>2, <3>3 DEF RcvDtq
  <2> QED BY <2>1, <2>2, SteadyAside
<1>6. ASSUME NEW v, NEW f, SndDtq(x, v, f) PROVE Aside /\ SameRing(dtq1)
  <2>1. atr' = atr /\ (GivesNothing \/ Gives(x, v)) BY <1>6 DEF SndDtq, steady
  <2>2. SameRing(dtq1) BY <1>a, <1>b, <1>6 DEF SndDtq
  <2> QED BY <2>1, <2>2, SteadyAside
<1>7. ASSUME NEW t \in Task, NEW timed, NEW v,
             SndDtqWait(t, x, v, timed) \/ RcvDtqWait(t, x, timed)
      PROVE  Aside /\ SameRing(dtq1)
  <2>1. atr' = atr /\ GivesNothing /\ UNCHANGED dtqvars
    BY <1>7 DEF SndDtqWait, RcvDtqWait, steady
  <2> QED BY <1>a, <2>1, SteadyAside
<1> QED BY <1>3, <1>4, <1>5, <1>6, <1>7 DEF DtqService

-----------------------------------------------------------------------------
(* EVERY STEP                                                              *)

LEMMA DtqShows ==
    ASSUME Steady, Linked, Asking, DtqTypeOK, DtqInv, DtqNext
    PROVE  Channel1!CNext
<1>1. PICK x \in Dtq \cap ids : DtqService(x) BY DEF DtqNext, DtqService
<1>2. CASE x # dtq1
  <2>1. Aside /\ SameRing(dtq1) BY <1>1, <1>2, OtherQueue
  <2>2. dtq1 \in Obj \ {x} BY <1>2, Dtq1Facts
  <2>3. Still(dtq1) BY <1>1, <2>2, DtqStill
  <2> QED BY <2>1, <2>3, ShowsPause DEF Aside, Still
<1>3. CASE x = dtq1
  <2>1. DtqService(dtq1) BY <1>1, <1>3
  <2> QED
    BY <2>1, CreShows, DelShows, RcvShows, SndShows, SndWaitShows, RcvWaitShows DEF DtqService
<1> QED BY <1>2, <1>3

(* LEMMA: a step of the kernel is one of the channel. *)
LEMMA StepShows ==
    ASSUME Steady, Linked, Asking, DtqTypeOK, DtqInv, [Next]_vars
    PROVE  [Channel1!CNext]_(Channel1!cvars)
<1>0. dtq1 \in Obj /\ dtq1 \notin Sem \cup Flg \cup Mbx \cup Mbf \cup Por \cup Mpf \cup Mpl
  BY KindsApart, Dtq1Facts
<1>a. ASSUME Aside, Calm(dtq1), UNCHANGED dtqvars PROVE Channel1!CNext
  <2>1. SameRing(dtq1) BY <1>a DEF SameRing, dtqvars
  <2> QED BY <1>a, <2>1, ShowsPause DEF Aside
<1>1. CASE UNCHANGED apart
  <2>1. UNCHANGED <<objs, atr, sque, par, out, dtqcnt, cnt, put, dtq>>
    BY <1>1 DEF apart, wvars, steady, waiting, dtqvars
  <2>2. SameRing(dtq1) /\ SameQueue(dtq1) BY <2>1 DEF SameRing, SameQueue
  <2>3. Line(dtq1)' = Line(dtq1) BY <2>2, Dtq1Facts, SameLine
  <2> QED BY <2>1, <2>3 DEF Channel1!cvars
<1>2. CASE Serving BY <1>a, <1>2, ServingQuiet
<1>3. CASE Service
  <2>1. CASE TaskNext /\ UNCHANGED dtqvars BY <2>1, TaskShows
  <2>2. CASE DtqNext BY <2>2, DtqShows
  <2>3. CASE SemNext /\ UNCHANGED dtqvars BY <1>0, <1>a, <2>3, SemAside, SemStill DEF Still
  <2>4. CASE FlgNext /\ UNCHANGED dtqvars BY <1>0, <1>a, <2>4, FlgAside, FlgStill DEF Still
  <2>5. CASE MbxNext /\ UNCHANGED dtqvars BY <1>0, <1>a, <2>5, MbxAside, MbxStill DEF Still
  <2>6. CASE PorNext /\ UNCHANGED dtqvars BY <1>0, <1>a, <2>6, PorAside, PorStill DEF Still
  <2>7. CASE MpfNext /\ UNCHANGED dtqvars BY <1>0, <1>a, <2>7, MpfAside, MpfStill DEF Still
  <2>8. CASE MplNext /\ UNCHANGED dtqvars BY <1>a, <2>8, MplQuiet
  <2>9. CASE MbfNext /\ UNCHANGED dtqvars BY <1>a, <2>9, MbfQuiet
  <2> QED BY <1>3, <2>1, <2>2, <2>3, <2>4, <2>5, <2>6, <2>7, <2>8, <2>9 DEF Service
<1> QED BY <1>1, <1>2, <1>3, StepCases

(* THEOREM: the refinement DataQueueIsChannel.  Of a data queue one sees   *)
(* one line of words: what is received is its head, whether the kernel     *)
(* kept it in the ring or with a sender that waits (snd_dtq, fsnd_dtq and  *)
(* rcv_dtq, with the timeouts, rel_wai, chg_pri and del_dtq that touch its *)
(* queues); for any number of words, tasks, priorities and other objects.  *)
THEOREM DataQueueKeepsItsPromise ==
    ASSUME FwdPri = FALSE
    PROVE  Spec => DataQueueIsChannel
<1> DEFINE Inv == Steady /\ Linked /\ Asking /\ Idles /\ DtqTypeOK
<1>1. Init => Inv
  <2> SUFFICES ASSUME Init PROVE Inv OBVIOUS
  <2>1. DtqInit BY DEF Init
  <2>2. DtqTypeOK BY <2>1, NoWords DEF DtqInit, DtqTypeOK
  <2> QED BY <2>2, WaitsInit, IdlesInit
<1>2. Inv /\ [Next]_vars => Inv'
  <2> SUFFICES ASSUME Inv, [Next]_vars PROVE Inv' OBVIOUS
  <2>1. Steady' /\ Linked' /\ Asking' BY WaitsStep
  <2>2. Idles' BY <2>1, IdlesStep
  <2>3. CASE DtqNext
    <3>1. DtqTypeOK' BY <2>3, DtqTyped
    <3> QED BY <2>1, <2>2, <3>1
  <2>4. CASE UNCHANGED dtqvars
    <3>1. DtqTypeOK' BY <2>4 DEF DtqTypeOK, dtqvars
    <3> QED BY <2>1, <2>2, <3>1
  <2> QED BY <2>3, <2>4, StepCases DEF Service, Serving, apart
<1>3. Init => Channel1!CInit
  <2> SUFFICES ASSUME Init PROVE Channel1!CInit OBVIOUS
  <2>1. dtq1 \notin objs /\ out[1] # dtq1 BY Dtq1Facts DEF Init, WInit
  <2> QED BY <2>1 DEF Channel1!CInit
<1>4. Inv /\ [Next]_vars => [Channel1!CNext]_(Channel1!cvars)
  BY StepShows DEF Idles
<1> QED BY <1>1, <1>2, <1>3, <1>4, PTL DEF Spec, DataQueueIsChannel, Channel1!CSpec

=============================================================================
