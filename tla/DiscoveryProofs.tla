-------------------------- MODULE DiscoveryProofs --------------------------
(***************************************************************************)
(* Theorems about Discovery, for any number of devices, infos, changes in  *)
(* the air, API calls and waiting jobs: the recursion of                   *)
(* BasePcpHandler::OnEndpointFound ends; the types; that an endpoint is    *)
(* reported exactly if it has an entry; and that the reports are exact as  *)
(* long as only Bluetooth Classic takes part.                              *)
(*                                                                         *)
(* The first needs induction over the calls.  The library's induction      *)
(* theorems take an operator, which the provers cannot instantiate; here   *)
(* the least element of a set of numbers is taken from the well-founded    *)
(* ordering of the finite sets, and induction is stated with a set.        *)
(*                                                                         *)
(* ListedInv is inductive for the types and FoundHasEntry: a job "start"   *)
(* waits only while nothing is discovered, when the client knows nothing.  *)
(* FollowInv adds what ExactOnBluetooth needs: for each device, which of   *)
(* its jobs wait, in which order, and what the client will believe when    *)
(* the first of them has run (Behind).                                     *)
(***************************************************************************)
EXTENDS Discovery, FiniteSetTheorems, SequenceTheorems, TLAPS

----------------------------------------------------------------------------
(* Induction over the natural numbers *)

\* A set of natural numbers that is not empty has a least element.
LEMMA Least ==
  ASSUME NEW S \in SUBSET Nat, S # {}
  PROVE  \E m \in S : \A k \in S : m <= k
<1> DEFINE T == {0 .. n : n \in S}
           R == StrictSubsetOrdering(Nat)
           F == FiniteSubsetsOf(Nat)
<1>1. IsWellFoundedOn(R, F)
  BY FS_StrictSubsetOrderingWellFounded
<1>2. \A n \in Nat : 0 .. n \in F
  BY FS_Interval DEF FiniteSubsetsOf
<1>3. T \subseteq F /\ T # {}
  BY <1>2
<1>4. \A j, k \in Nat : k < j => <<0 .. k, 0 .. j>> \in R
  <2> SUFFICES ASSUME NEW j \in Nat, NEW k \in Nat, k < j PROVE <<0 .. k, 0 .. j>> \in R
    OBVIOUS
  <2>1. 0 .. k \in SUBSET Nat /\ 0 .. j \in SUBSET Nat /\ 0 .. k \subseteq 0 .. j
    OBVIOUS
  <2>2. j \in 0 .. j /\ j \notin 0 .. k
    OBVIOUS
  <2>3. 0 .. k # 0 .. j
    BY <2>2
  <2> QED BY <2>1, <2>3 DEF StrictSubsetOrdering
<1> HIDE DEF T, R, F
<1>5. PICK x \in T : \A y \in T : <<y, x>> \notin R
  BY <1>1, <1>3, WFMin
<1>6. PICK m \in S : x = 0 .. m
  BY DEF T
<1>7. \A k \in S : 0 .. k \in T
  BY DEF T
<1>8. \A k \in S : ~(k < m)
  BY <1>4, <1>5, <1>6, <1>7
<1> QED BY <1>8

\* Induction over the natural numbers, for a set.
LEMMA Induction ==
  ASSUME NEW S, 0 \in S, \A n \in Nat : n \in S => n + 1 \in S
  PROVE  Nat \subseteq S
<1> SUFFICES ASSUME Nat \ S # {} PROVE FALSE
  OBVIOUS
<1>1. PICK m \in Nat \ S : \A k \in Nat \ S : m <= k
  BY Least
<1>2. m # 0 /\ m - 1 \in Nat
  BY <1>1
<1>3. m - 1 \in S
  BY <1>1, <1>2
<1> QED BY <1>1, <1>2, <1>3

----------------------------------------------------------------------------
(* Sequences *)

\* RemoveAt moves the later elements up,
LEMMA RemoveFacts ==
  ASSUME NEW S, NEW t \in Seq(S), NEW p \in DOMAIN t
  PROVE  /\ RemoveAt(t, p) \in Seq(S)
         /\ Len(RemoveAt(t, p)) = Len(t) - 1
         /\ \A i \in 1 .. Len(t) - 1 : RemoveAt(t, p)[i] = IF i < p THEN t[i] ELSE t[i + 1]
<1> DEFINE a == SubSeq(t, 1, p - 1)
           b == SubSeq(t, p + 1, Len(t))
<1>1. p \in 1 .. Len(t) /\ Len(t) \in Nat
  OBVIOUS
<1>2. a \in Seq(S) /\ Len(a) = p - 1 /\ \A i \in 1 .. p - 1 : a[i] = t[i]
  BY <1>1
<1>3. b \in Seq(S) /\ Len(b) = Len(t) - p /\ \A i \in 1 .. Len(t) - p : b[i] = t[p + i]
  BY <1>1
<1> HIDE DEF a, b
<1>4. /\ a \o b \in Seq(S) /\ Len(a \o b) = Len(t) - 1
      /\ \A i \in 1 .. Len(t) - 1 : (a \o b)[i] = IF i <= p - 1 THEN a[i] ELSE b[i - (p - 1)]
  <2>1. a \o b \in Seq(S) /\ Len(a \o b) = Len(a) + Len(b)
    BY <1>2, <1>3, ConcatProperties, Zenon
  <2>2. \A i \in 1 .. Len(a) + Len(b) : (a \o b)[i] = IF i <= Len(a) THEN a[i] ELSE b[i - Len(a)]
    <3>1. a \in Seq(S) /\ b \in Seq(S)
      BY <1>2, <1>3
    <3> QED BY <3>1, ConcatProperties, Zenon
  <2>3. Len(a) + Len(b) = Len(t) - 1
    BY <1>1, <1>2, <1>3
  <2> QED BY <1>2, <2>1, <2>2, <2>3
<1> DEFINE r == a \o b
<1>44. /\ r \in Seq(S) /\ Len(r) = Len(t) - 1
       /\ \A i \in 1 .. Len(t) - 1 : r[i] = IF i <= p - 1 THEN a[i] ELSE b[i - (p - 1)]
  BY <1>4
<1> HIDE DEF r
<1>5. ASSUME NEW i \in 1 .. Len(t) - 1 PROVE r[i] = IF i < p THEN t[i] ELSE t[i + 1]
  <2>1. CASE i < p
    BY <1>1, <1>2, <1>44, <2>1
  <2>2. CASE ~(i < p)
    <3>1. i - (p - 1) \in 1 .. Len(t) - p /\ p + (i - (p - 1)) = i + 1
      BY <1>1, <2>2
    <3>2. b[i - (p - 1)] = t[i + 1]
      BY <1>3, <3>1
    <3> QED BY <1>1, <1>44, <2>2, <3>2
  <2> QED BY <2>1, <2>2
<1>6. RemoveAt(t, p) = r
  BY DEF RemoveAt, a, b, r
<1> QED BY <1>44, <1>5, <1>6, Zenon

\* and InsertAt moves them down.
LEMMA InsertFacts ==
  ASSUME NEW S, NEW t \in Seq(S), NEW x \in S, NEW p \in 1 .. Len(t) + 1
  PROVE  /\ InsertAt(t, p, x) \in Seq(S)
         /\ Len(InsertAt(t, p, x)) = Len(t) + 1
         /\ \A i \in 1 .. Len(t) + 1 :
              InsertAt(t, p, x)[i] = IF i < p THEN t[i] ELSE IF i = p THEN x ELSE t[i - 1]
<1> DEFINE a == SubSeq(t, 1, p - 1)
           b == SubSeq(t, p, Len(t))
           c == a \o <<x>>
<1>1. p \in Nat \ {0} /\ Len(t) \in Nat
  OBVIOUS
<1>2. a \in Seq(S) /\ Len(a) = p - 1 /\ \A i \in 1 .. p - 1 : a[i] = t[i]
  BY <1>1
<1>3. b \in Seq(S) /\ Len(b) = Len(t) - p + 1 /\ \A i \in 1 .. Len(t) - p + 1 : b[i] = t[p + i - 1]
  BY <1>1
<1> HIDE DEF a, b
<1>4. c \in Seq(S) /\ Len(c) = p /\ c[p] = x /\ \A i \in 1 .. p - 1 : c[i] = t[i]
  BY <1>1, <1>2
<1> HIDE DEF c
<1>5. /\ c \o b \in Seq(S) /\ Len(c \o b) = Len(t) + 1
      /\ \A i \in 1 .. Len(t) + 1 : (c \o b)[i] = IF i <= p THEN c[i] ELSE b[i - p]
  <2>1. c \o b \in Seq(S) /\ Len(c \o b) = Len(c) + Len(b)
    BY <1>3, <1>4, ConcatProperties, Zenon
  <2>2. \A i \in 1 .. Len(c) + Len(b) : (c \o b)[i] = IF i <= Len(c) THEN c[i] ELSE b[i - Len(c)]
    <3>1. c \in Seq(S) /\ b \in Seq(S)
      BY <1>3, <1>4
    <3> QED BY <3>1, ConcatProperties, Zenon
  <2> QED BY <1>1, <1>3, <1>4, <2>1, <2>2
<1> DEFINE r == c \o b
<1>55. /\ r \in Seq(S) /\ Len(r) = Len(t) + 1
       /\ \A i \in 1 .. Len(t) + 1 : r[i] = IF i <= p THEN c[i] ELSE b[i - p]
  BY <1>5
<1> HIDE DEF r
<1>6. ASSUME NEW i \in 1 .. Len(t) + 1
      PROVE  r[i] = IF i < p THEN t[i] ELSE IF i = p THEN x ELSE t[i - 1]
  <2>1. CASE i <= p
    BY <1>1, <1>4, <1>55, <2>1
  <2>2. CASE ~(i <= p)
    <3>1. i - p \in 1 .. Len(t) - p + 1 /\ p + (i - p) - 1 = i - 1
      BY <1>1, <2>2
    <3>2. b[i - p] = t[i - 1]
      BY <1>3, <3>1
    <3> QED BY <1>1, <1>55, <2>2, <3>2
  <2> QED BY <2>1, <2>2
<1>7. InsertAt(t, p, x) = r
  BY DEF InsertAt, a, b, c, r
<1> QED BY <1>55, <1>6, <1>7, Zenon

----------------------------------------------------------------------------
(* The table of discovered endpoints *)

\* The endpoints that BasePcpHandler::OnEndpointFound is called with,
Endpoints == [id : Devices, medium : AllMediums \cup {"WEB_RTC"}, info : Infos, rtc : BOOLEAN]
\* what the client knows,
ToldType == [Devices -> Infos \cup {None}]
\* and discovered_endpoints_ with what the client knows.
States == {s \in [table : Seq(Entries), told : ToldType] : Sorted(s.table)}
\* The table has an entry for an endpoint.
Has(t, d) == \E k \in DOMAIN t : t[k].key = d
\* FoundHasEntry while discovering, as a predicate of the state.
Listed(s) == \A d \in Devices : s.told[d] # None <=> Has(s.table, d)

\* equal_range is empty if there is no entry.
LEMMA HasRange == \A t, d : EqualRange(t, d) # {} <=> Has(t, d)
  BY DEF EqualRange, Has

\* The parts of a state,
LEMMA StateFacts ==
  ASSUME NEW s \in States
  PROVE  s.table \in Seq(Entries) /\ s.told \in ToldType /\ Sorted(s.table)
  BY DEF States

\* and a state from its parts.
LEMMA MakeState ==
  ASSUME NEW t \in Seq(Entries), Sorted(t), NEW f \in ToldType
  PROVE  [table |-> t, told |-> f] \in States
  BY DEF States

\* An entry is a key and an endpoint.
LEMMA EntryFacts ==
  /\ \A x \in Entries : /\ x.key \in Devices /\ x.key \in Nat /\ x.info \in Infos
                        /\ Value(x) \in Endpoints
                        /\ Value(x).id = x.id /\ Value(x).info = x.info /\ Value(x).medium = x.medium
  /\ \A e \in Devices, p \in Endpoints : /\ Keyed(e, p) \in Entries
                                         /\ Keyed(e, p).key = e /\ Keyed(e, p).id = p.id
                                         /\ Keyed(e, p).medium = p.medium
                                         /\ Keyed(e, p).info = p.info
  /\ \A p \in Endpoints : p.id \in Devices /\ p.info \in Infos /\ p.info # None
  BY DiscoveryAssumption DEF Entries, Endpoints, Value, Keyed, Devices

\* The entries of a table.
LEMMA TableFacts ==
  ASSUME NEW t \in Seq(Entries)
  PROVE  /\ Len(t) \in Nat /\ DOMAIN t = 1 .. Len(t)
         /\ \A k \in DOMAIN t : k \in Nat /\ t[k] \in Entries /\ t[k].key \in Devices /\ t[k].key \in Nat
<1>1. Len(t) \in Nat /\ DOMAIN t = 1 .. Len(t) /\ \A k \in DOMAIN t : t[k] \in Entries
  OBVIOUS
<1> QED BY <1>1, EntryFacts

\* find returns the first entry of the key,
LEMMA FirstFacts ==
  ASSUME NEW t \in Seq(Entries), NEW d, EqualRange(t, d) # {}
  PROVE  /\ First(t, d) \in DOMAIN t /\ t[First(t, d)].key = d
         /\ \A j \in EqualRange(t, d) : First(t, d) <= j
<1>1. EqualRange(t, d) \in SUBSET Nat
  BY TableFacts DEF EqualRange
<1>2. \E m \in EqualRange(t, d) : \A k \in EqualRange(t, d) : m <= k
  BY <1>1, Least
<1>3. First(t, d) \in EqualRange(t, d) /\ \A j \in EqualRange(t, d) : First(t, d) <= j
  BY <1>2, Zenon DEF First
<1> QED BY <1>3 DEF EqualRange

\* and the loop of OnEndpointFound stops at the first one on the medium.
LEMMA FirstOnFacts ==
  ASSUME NEW s, s.table \in Seq(Entries), NEW p, OnMedium(s, p) # {}
  PROVE  /\ FirstOn(s, p) \in OnMedium(s, p) /\ FirstOn(s, p) \in DOMAIN s.table
         /\ \A j \in OnMedium(s, p) : FirstOn(s, p) <= j
<1>1. OnMedium(s, p) \in SUBSET Nat /\ OnMedium(s, p) \subseteq DOMAIN s.table
  BY TableFacts DEF EqualRange, OnMedium
<1>2. \E m \in OnMedium(s, p) : \A k \in OnMedium(s, p) : m <= k
  BY <1>1, Least
<1>3. FirstOn(s, p) \in OnMedium(s, p) /\ \A j \in OnMedium(s, p) : FirstOn(s, p) <= j
  BY <1>2, Zenon DEF FirstOn
<1> QED BY <1>1, <1>3

\* extract leaves the order, and the entries of other keys.
LEMMA RemovedTable ==
  ASSUME NEW t \in Seq(Entries), Sorted(t), NEW p \in DOMAIN t
  PROVE  /\ RemoveAt(t, p) \in Seq(Entries) /\ Sorted(RemoveAt(t, p))
         /\ Len(RemoveAt(t, p)) = Len(t) - 1
         /\ \A d : d # t[p].key => (Has(RemoveAt(t, p), d) <=> Has(t, d))
<1> DEFINE r == RemoveAt(t, p)
<1>1. /\ r \in Seq(Entries) /\ Len(r) = Len(t) - 1
      /\ \A i \in 1 .. Len(t) - 1 : r[i] = IF i < p THEN t[i] ELSE t[i + 1]
  BY RemoveFacts
<1>2. /\ p \in 1 .. Len(t) /\ Len(t) \in Nat /\ DOMAIN t = 1 .. Len(t)
      /\ \A k \in DOMAIN t : t[k].key \in Nat
  BY TableFacts
<1>3. DOMAIN r = 1 .. Len(t) - 1
  BY <1>1
<1> HIDE DEF r
<1>4. Sorted(r)
  <2> SUFFICES ASSUME NEW j \in DOMAIN r, NEW k \in DOMAIN r, j <= k PROVE r[j].key <= r[k].key
    BY DEF Sorted
  <2>1. PICK jj \in DOMAIN t : r[j] = t[jj] /\ jj = IF j < p THEN j ELSE j + 1
    BY <1>1, <1>2, <1>3
  <2>2. PICK kk \in DOMAIN t : r[k] = t[kk] /\ kk = IF k < p THEN k ELSE k + 1
    BY <1>1, <1>2, <1>3
  <2>3. jj <= kk
    BY <1>2, <1>3, <2>1, <2>2
  <2> QED BY <2>1, <2>2, <2>3 DEF Sorted
<1>5. ASSUME NEW d, d # t[p].key PROVE Has(r, d) <=> Has(t, d)
  <2>1. ASSUME NEW k \in DOMAIN r, r[k].key = d PROVE Has(t, d)
    <3>1. k \in DOMAIN t /\ k + 1 \in DOMAIN t
      BY <1>2, <1>3
    <3> QED BY <1>1, <1>3, <2>1, <3>1 DEF Has
  <2>2. ASSUME NEW k \in DOMAIN t, t[k].key = d PROVE Has(r, d)
    <3>1. k # p
      BY <1>5, <2>2
    <3>2. CASE k < p
      <4>1. k \in DOMAIN r /\ r[k] = t[k]
        BY <1>1, <1>2, <1>3, <3>2
      <4> QED BY <2>2, <4>1 DEF Has
    <3>3. CASE k > p
      <4>1. k - 1 \in DOMAIN r /\ ~(k - 1 < p) /\ (k - 1) + 1 = k
        BY <1>2, <1>3, <3>3
      <4>2. r[k - 1] = t[k]
        BY <1>1, <1>3, <4>1
      <4> QED BY <2>2, <4>1, <4>2 DEF Has
    <3> QED BY <1>2, <3>1, <3>2, <3>3
  <2> QED BY <2>1, <2>2 DEF Has
<1> QED BY <1>1, <1>4, <1>5 DEF r

\* The entries with keys up to e stand first,
LEMMA EmplacedPlace ==
  ASSUME NEW t \in Seq(Entries), Sorted(t), NEW e \in Devices
  PROVE  \E c \in 0 .. Len(t) :
           /\ {k \in DOMAIN t : t[k].key <= e} = 1 .. c
           /\ Cardinality({k \in DOMAIN t : t[k].key <= e}) = c
<1> DEFINE U == {k \in DOMAIN t : ~(t[k].key <= e)}
           L == {k \in DOMAIN t : t[k].key <= e}
<1>1. /\ Len(t) \in Nat /\ DOMAIN t = 1 .. Len(t) /\ e \in Nat
      /\ \A k \in DOMAIN t : t[k].key \in Nat
  BY TableFacts DEF Devices
<1>2. \A c \in 0 .. Len(t) : Cardinality(1 .. c) = c
  BY <1>1, FS_Interval
<1>3. CASE U = {}
  <2>1. L = 1 .. Len(t) /\ Len(t) \in 0 .. Len(t)
    BY <1>1, <1>3
  <2>2. Cardinality(L) = Len(t)
    BY <1>2, <2>1
  <2> HIDE DEF L
  <2>3. \E c \in 0 .. Len(t) : L = 1 .. c /\ Cardinality(L) = c
    BY <2>1, <2>2
  <2> QED BY <2>3 DEF L
<1>4. CASE U # {}
  <2>1. PICK m \in U : \A k \in U : m <= k
    <3>1. U \in SUBSET Nat
      BY <1>1
    <3> HIDE DEF U
    <3> QED BY <1>4, <3>1, Least
  <2>2. m \in 1 .. Len(t) /\ ~(t[m].key <= e)
    BY <1>1
  <2>3. ASSUME NEW k \in DOMAIN t PROVE t[k].key <= e <=> k <= m - 1
    <3>1. CASE k <= m - 1
      <4>1. k \notin U
        BY <1>1, <2>1, <2>2, <3>1
      <4> QED BY <3>1, <4>1
    <3>2. CASE ~(k <= m - 1)
      <4>1. t[m].key <= t[k].key
        BY <1>1, <2>2, <3>2 DEF Sorted
      <4> QED BY <1>1, <2>2, <3>2, <4>1
    <3> QED BY <3>1, <3>2
  <2>4. L = 1 .. m - 1
    BY <1>1, <2>2, <2>3
  <2>5. m - 1 \in 0 .. Len(t)
    BY <1>1, <2>2
  <2>6. Cardinality(L) = m - 1
    BY <1>2, <2>4, <2>5
  <2> HIDE DEF L
  <2>7. \E c \in 0 .. Len(t) : L = 1 .. c /\ Cardinality(L) = c
    BY <2>4, <2>5, <2>6
  <2> QED BY <2>7 DEF L
<1> QED BY <1>3, <1>4

\* emplace puts the new one behind them,
LEMMA EmplacedTable ==
  ASSUME NEW t \in Seq(Entries), Sorted(t), NEW e \in Devices, NEW p \in Endpoints
  PROVE  \E c \in 0 .. Len(t) :
           /\ Emplaced(t, e, p) = InsertAt(t, c + 1, Keyed(e, p))
           /\ Emplaced(t, e, p) \in Seq(Entries)
           /\ Len(Emplaced(t, e, p)) = Len(t) + 1
           /\ \A i \in 1 .. Len(t) + 1 :
                Emplaced(t, e, p)[i] = IF i < c + 1 THEN t[i]
                                       ELSE IF i = c + 1 THEN Keyed(e, p) ELSE t[i - 1]
           /\ {k \in DOMAIN t : t[k].key <= e} = 1 .. c
<1>1. PICK c \in 0 .. Len(t) : /\ {k \in DOMAIN t : t[k].key <= e} = 1 .. c
                               /\ Cardinality({k \in DOMAIN t : t[k].key <= e}) = c
  BY EmplacedPlace
<1>2. Emplaced(t, e, p) = InsertAt(t, c + 1, Keyed(e, p))
  BY <1>1 DEF Emplaced
<1>3. c + 1 \in 1 .. Len(t) + 1 /\ Keyed(e, p) \in Entries
  BY EntryFacts, TableFacts
<1>4. /\ InsertAt(t, c + 1, Keyed(e, p)) \in Seq(Entries)
      /\ Len(InsertAt(t, c + 1, Keyed(e, p))) = Len(t) + 1
      /\ \A i \in 1 .. Len(t) + 1 :
           InsertAt(t, c + 1, Keyed(e, p))[i] =
             IF i < c + 1 THEN t[i] ELSE IF i = c + 1 THEN Keyed(e, p) ELSE t[i - 1]
  BY <1>3, InsertFacts
<1> QED BY <1>1, <1>2, <1>4

\* and the order is kept.
LEMMA EmplacedFacts ==
  ASSUME NEW t \in Seq(Entries), Sorted(t), NEW e \in Devices, NEW p \in Endpoints
  PROVE  /\ Emplaced(t, e, p) \in Seq(Entries) /\ Sorted(Emplaced(t, e, p))
         /\ \A d : Has(Emplaced(t, e, p), d) <=> Has(t, d) \/ d = e
<1> DEFINE r == Emplaced(t, e, p)
           x == Keyed(e, p)
<1>1. PICK c \in 0 .. Len(t) :
           /\ r \in Seq(Entries) /\ Len(r) = Len(t) + 1
           /\ \A i \in 1 .. Len(t) + 1 :
                r[i] = IF i < c + 1 THEN t[i] ELSE IF i = c + 1 THEN x ELSE t[i - 1]
           /\ {k \in DOMAIN t : t[k].key <= e} = 1 .. c
  BY EmplacedTable
<1>2. x.key = e /\ e \in Nat
  BY EntryFacts DEF Devices
<1>3. /\ Len(t) \in Nat /\ DOMAIN t = 1 .. Len(t) /\ c \in Nat /\ c <= Len(t)
      /\ \A k \in DOMAIN t : t[k].key \in Nat
  BY TableFacts
<1>4. DOMAIN r = 1 .. Len(t) + 1
  BY <1>1
<1>5. \A k \in DOMAIN t : t[k].key <= e <=> k <= c
  BY <1>1, <1>3
<1> HIDE DEF r, x
<1>6. Sorted(r)
  <2> SUFFICES ASSUME NEW j \in DOMAIN r, NEW k \in DOMAIN r, j <= k PROVE r[j].key <= r[k].key
    BY DEF Sorted
  <2>1. ASSUME NEW i \in DOMAIN r
        PROVE  \/ i = c + 1 /\ r[i] = x
               \/ \E ii \in DOMAIN t : r[i] = t[ii] /\ ((i < c + 1 /\ ii = i) \/ (i > c + 1 /\ ii = i - 1))
    <3>1. CASE i < c + 1
      <4>1. i \in DOMAIN t /\ r[i] = t[i]
        BY <1>1, <1>3, <1>4, <3>1
      <4> QED BY <3>1, <4>1
    <3>2. CASE i > c + 1
      <4>1. i - 1 \in DOMAIN t
        BY <1>3, <1>4, <3>2
      <4>2. ~(i < c + 1) /\ i # c + 1
        BY <1>3, <1>4, <3>2
      <4>3. r[i] = t[i - 1]
        BY <1>1, <1>4, <4>2
      <4> QED BY <3>2, <4>1, <4>3
    <3>3. CASE i = c + 1
      BY <1>1, <1>3, <1>4, <3>3
    <3> QED BY <1>3, <1>4, <3>1, <3>2, <3>3
  <2>2. CASE j = c + 1 /\ k = c + 1
    BY <1>2, <2>1, <2>2
  <2>3. CASE j = c + 1 /\ k # c + 1
    <3>1. PICK kk \in DOMAIN t : r[k] = t[kk] /\ ((k < c + 1 /\ kk = k) \/ (k > c + 1 /\ kk = k - 1))
      BY <2>1, <2>3
    <3>2. r[j] = x
      BY <2>1, <2>3, <1>3
    <3>3. ~(kk <= c)
      BY <1>3, <1>4, <2>3, <3>1
    <3> QED BY <1>2, <1>3, <1>5, <3>1, <3>2, <3>3
  <2>4. CASE j # c + 1 /\ k = c + 1
    <3>1. PICK jj \in DOMAIN t : r[j] = t[jj] /\ ((j < c + 1 /\ jj = j) \/ (j > c + 1 /\ jj = j - 1))
      BY <2>1, <2>4
    <3>2. r[k] = x
      BY <2>1, <2>4, <1>3
    <3>3. jj <= c
      BY <1>3, <1>4, <2>4, <3>1
    <3> QED BY <1>2, <1>3, <1>5, <3>1, <3>2, <3>3
  <2>5. CASE j # c + 1 /\ k # c + 1
    <3>1. PICK jj \in DOMAIN t : r[j] = t[jj] /\ ((j < c + 1 /\ jj = j) \/ (j > c + 1 /\ jj = j - 1))
      BY <2>1, <2>5
    <3>2. PICK kk \in DOMAIN t : r[k] = t[kk] /\ ((k < c + 1 /\ kk = k) \/ (k > c + 1 /\ kk = k - 1))
      BY <2>1, <2>5
    <3>3. jj <= kk
      BY <1>3, <1>4, <3>1, <3>2
    <3> QED BY <3>1, <3>2, <3>3 DEF Sorted
  <2> QED BY <2>2, <2>3, <2>4, <2>5
<1>7. ASSUME NEW d PROVE Has(r, d) <=> Has(t, d) \/ d = e
  <2>1. ASSUME NEW k \in DOMAIN r, r[k].key = d PROVE Has(t, d) \/ d = e
    <3>1. CASE k < c + 1
      <4>1. k \in DOMAIN t /\ r[k] = t[k]
        BY <1>1, <1>3, <1>4, <3>1
      <4> QED BY <2>1, <4>1 DEF Has
    <3>2. CASE k = c + 1
      BY <1>1, <1>2, <1>3, <1>4, <2>1, <3>2
    <3>3. CASE k > c + 1
      <4>1. k - 1 \in DOMAIN t /\ ~(k < c + 1) /\ k # c + 1
        BY <1>3, <1>4, <3>3
      <4>2. r[k] = t[k - 1]
        BY <1>1, <1>4, <4>1
      <4> QED BY <2>1, <4>1, <4>2 DEF Has
    <3> QED BY <1>3, <1>4, <3>1, <3>2, <3>3
  <2>2. ASSUME NEW k \in DOMAIN t, t[k].key = d PROVE Has(r, d)
    <3>1. CASE k < c + 1
      <4>1. k \in DOMAIN r /\ r[k] = t[k]
        BY <1>1, <1>3, <1>4, <3>1
      <4> QED BY <2>2, <4>1 DEF Has
    <3>2. CASE ~(k < c + 1)
      <4>1. k + 1 \in DOMAIN r /\ ~(k + 1 < c + 1) /\ k + 1 # c + 1 /\ (k + 1) - 1 = k
        BY <1>3, <1>4, <3>2
      <4>2. r[k + 1] = t[k]
        BY <1>1, <1>4, <4>1
      <4> QED BY <2>2, <4>1, <4>2 DEF Has
    <3> QED BY <3>1, <3>2
  <2>3. Has(r, e)
    <3>1. c + 1 \in DOMAIN r /\ r[c + 1] = x
      BY <1>1, <1>3, <1>4
    <3> QED BY <1>2, <3>1 DEF Has
  <2> QED BY <2>1, <2>2, <2>3 DEF Has
<1> QED BY <1>1, <1>6, <1>7 DEF r

----------------------------------------------------------------------------
(* OnEndpointLost and OnEndpointFound *)

\* What ClientProxy::OnEndpointFound and OnEndpointLost change.
LEMMA ToldFacts ==
  ASSUME NEW f \in ToldType, NEW e \in Devices, NEW v \in Infos
  PROVE  /\ ClientLost(f, e) \in ToldType /\ ClientLost(f, e)[e] = None
         /\ \A d \in Devices : d # e => ClientLost(f, e)[d] = f[d]
         /\ ClientFound(f, e, v) \in ToldType /\ ClientFound(f, e, v)[e] # None
         /\ \A d \in Devices : d # e => ClientFound(f, e, v)[d] = f[d]
         /\ f[e] = None => ClientFound(f, e, v)[e] = v
  BY DiscoveryAssumption DEF ToldType, ClientLost, ClientFound

\* OnEndpointLost does nothing, or removes the first entry of the endpoint, which has the info.
LEMMA LostCases ==
  ASSUME NEW s \in States, NEW p, p.id \in Devices
  PROVE  \/ /\ EndpointLost(s, p) = s
            /\ ~Has(s.table, p.id) \/ s.table[First(s.table, p.id)].info # p.info
         \/ \E k \in DOMAIN s.table :
              /\ k = First(s.table, p.id) /\ s.table[k].key = p.id /\ s.table[k].info = p.info
              /\ EndpointLost(s, p).table = RemoveAt(s.table, k)
              /\ EndpointLost(s, p).told =
                   IF Has(RemoveAt(s.table, k), p.id) THEN s.told ELSE ClientLost(s.told, p.id)
              /\ EndpointLost(s, p) = [table |-> EndpointLost(s, p).table,
                                       told |-> EndpointLost(s, p).told]
<1> DEFINE k == First(s.table, p.id)
<1>1. CASE ~Has(s.table, p.id) \/ s.table[k].info # p.info
  <2>1. EndpointLost(s, p) = s
    BY <1>1, HasRange DEF EndpointLost
  <2> QED BY <1>1, <2>1
<1>2. CASE Has(s.table, p.id) /\ s.table[k].info = p.info
  <2>1. EqualRange(s.table, p.id) # {}
    BY <1>2, HasRange
  <2>2. k \in DOMAIN s.table /\ s.table[k].key = p.id
    BY <2>1, StateFacts, FirstFacts
  <2>3. EndpointLost(s, p) =
          [table |-> RemoveAt(s.table, k),
           told |-> IF Has(RemoveAt(s.table, k), p.id) THEN s.told ELSE ClientLost(s.told, p.id)]
    BY <1>2, <2>1, HasRange DEF EndpointLost
  <2> HIDE DEF k
  <2>4. /\ EndpointLost(s, p).table = RemoveAt(s.table, k)
        /\ EndpointLost(s, p).told =
             IF Has(RemoveAt(s.table, k), p.id) THEN s.told ELSE ClientLost(s.told, p.id)
        /\ EndpointLost(s, p) = [table |-> EndpointLost(s, p).table,
                                 told |-> EndpointLost(s, p).told]
    BY <2>3
  <2> QED BY <1>2, <2>2, <2>4 DEF k
<1> QED BY <1>1, <1>2

\* It withdraws the report with the last entry only.
LEMMA LostKeeps ==
  ASSUME NEW s \in States, NEW p, p.id \in Devices
  PROVE  /\ EndpointLost(s, p) \in States
         /\ Listed(s) => Listed(EndpointLost(s, p))
<1> DEFINE r == EndpointLost(s, p)
<1>1. CASE r = s
  BY <1>1
<1>2. ASSUME NEW k \in DOMAIN s.table, s.table[k].key = p.id,
             r.table = RemoveAt(s.table, k),
             r.told = IF Has(RemoveAt(s.table, k), p.id) THEN s.told ELSE ClientLost(s.told, p.id),
             r = [table |-> r.table, told |-> r.told]
      PROVE  r \in States /\ (Listed(s) => Listed(r))
  <2> HIDE DEF r
  <2>1. s.table \in Seq(Entries) /\ Sorted(s.table) /\ s.told \in ToldType
    BY StateFacts
  <2>2. /\ r.table \in Seq(Entries) /\ Sorted(r.table)
        /\ \A d : d # p.id => (Has(r.table, d) <=> Has(s.table, d))
    BY <1>2, <2>1, RemovedTable
  <2>3. s.table[k] \in Entries
    BY <2>1
  <2>4. /\ ClientLost(s.told, p.id) \in ToldType /\ ClientLost(s.told, p.id)[p.id] = None
        /\ \A d \in Devices : d # p.id => ClientLost(s.told, p.id)[d] = s.told[d]
    <3>1. s.table[k].info \in Infos
      BY <2>3, EntryFacts
    <3> QED BY <2>1, <3>1, ToldFacts
  <2>5. r.told \in ToldType
    BY <1>2, <2>1, <2>4
  <2>6. r \in States
    BY <1>2, <2>2, <2>5, MakeState
  <2>7. ASSUME Listed(s) PROVE Listed(r)
    <3> SUFFICES ASSUME NEW d \in Devices PROVE r.told[d] # None <=> Has(r.table, d)
      BY DEF Listed
    <3>1. s.told[d] # None <=> Has(s.table, d)
      BY <2>7 DEF Listed
    <3>2. Has(s.table, p.id)
      BY <1>2 DEF Has
    <3>3. CASE d # p.id
      BY <1>2, <2>2, <2>4, <3>1, <3>3
    <3>4. CASE d = p.id /\ Has(r.table, p.id)
      BY <1>2, <3>1, <3>2, <3>4
    <3>5. CASE d = p.id /\ ~Has(r.table, p.id)
      BY <1>2, <2>4, <3>5
    <3> QED BY <3>3, <3>4, <3>5
  <2> QED BY <2>6, <2>7
<1> QED BY <1>1, <1>2, LostCases

\* The assignment to the slot of the entry that was found.
Slot(t, k, p) == [t EXCEPT ![k] = Keyed(t[k].key, p)]

\* It leaves the keys.
LEMMA SlotTable ==
  ASSUME NEW t \in Seq(Entries), Sorted(t), NEW k \in DOMAIN t, NEW p \in Endpoints
  PROVE  /\ Slot(t, k, p) \in Seq(Entries) /\ Sorted(Slot(t, k, p))
         /\ DOMAIN Slot(t, k, p) = DOMAIN t /\ Len(Slot(t, k, p)) = Len(t)
         /\ \A i \in DOMAIN t : Slot(t, k, p)[i].key = t[i].key
         /\ \A i \in DOMAIN t : i # k => Slot(t, k, p)[i] = t[i]
         /\ Slot(t, k, p)[k].medium = p.medium /\ Slot(t, k, p)[k].info = p.info
         /\ \A d : Has(Slot(t, k, p), d) <=> Has(t, d)
<1> DEFINE x == Keyed(t[k].key, p)
           r == [t EXCEPT ![k] = x]
<1>1. x \in Entries /\ x.key = t[k].key /\ x.medium = p.medium /\ x.info = p.info
  BY EntryFacts, TableFacts
<1> HIDE DEF x
<1>2. r \in Seq(Entries) /\ DOMAIN r = DOMAIN t /\ Len(r) = Len(t)
  BY <1>1
<1>3. \A i \in DOMAIN t : r[i] = IF i = k THEN x ELSE t[i]
  OBVIOUS
<1> HIDE DEF r
<1>4. \A i \in DOMAIN t : r[i].key = t[i].key
  BY <1>1, <1>3
<1>5. Sorted(r) /\ \A d : Has(r, d) <=> Has(t, d)
  BY <1>2, <1>4 DEF Sorted, Has
<1>6. r[k].medium = p.medium /\ r[k].info = p.info
  BY <1>1, <1>3
<1>7. Slot(t, k, p) = r
  BY DEF Slot, r, x
<1> QED BY <1>2, <1>3, <1>4, <1>5, <1>6, <1>7

\* A call of OnEndpointFound that replaces an endpoint keeps the reports in step with the
\* entries, although the reference may be to the entry of another endpoint; and either there is
\* one entry less, or the call that follows finds the new info.
LEMMA ReplacedKeeps ==
  ASSUME NEW s \in States, NEW p \in Endpoints, Changed(s, p)
  PROVE  /\ Replaced(s, p) \in States
         /\ Listed(s) => Listed(Replaced(s, p))
         /\ Len(Replaced(s, p).table) = Len(s.table) - 1 \/ ~Changed(Replaced(s, p), p)
         /\ Len(Replaced(s, p).table) <= Len(s.table)
<1> DEFINE k == FirstOn(s, p)
           v == Value(s.table[k])
           l == EndpointLost(s, v)
           t == IF k \in DOMAIN l.table THEN Slot(l.table, k, p) ELSE l.table
           r == Replaced(s, p)
<1>1. s.table \in Seq(Entries) /\ Sorted(s.table) /\ Len(s.table) \in Nat
  BY StateFacts
<1>2. /\ k \in OnMedium(s, p) /\ k \in DOMAIN s.table
      /\ \A j \in OnMedium(s, p) : k <= j
  BY <1>1, FirstOnFacts DEF Changed
<1>3. v.id \in Devices
  BY <1>1, <1>2, EntryFacts DEF Endpoints
<1>4. l \in States /\ (Listed(s) => Listed(l))
  BY <1>3, LostKeeps
<1>5. r = [table |-> t, told |-> l.told]
  BY DEF Replaced, Slot
<1>6. \/ l = s
      \/ \E i \in DOMAIN s.table : l.table = RemoveAt(s.table, i)
  BY <1>3, LostCases
<1> HIDE DEF k, v, l, r
<1>7. l.table \in Seq(Entries) /\ Sorted(l.table) /\ l.told \in ToldType
  BY <1>4, StateFacts
<1>8. /\ t \in Seq(Entries) /\ Sorted(t) /\ Len(t) = Len(l.table)
      /\ \A d : Has(t, d) <=> Has(l.table, d)
  <2>1. CASE k \in DOMAIN l.table
    BY <1>7, <2>1, SlotTable
  <2>2. CASE k \notin DOMAIN l.table
    BY <1>7, <2>2
  <2> QED BY <2>1, <2>2
<1> HIDE DEF t
<1>9. r \in States /\ r.table = t /\ r.told = l.told
  BY <1>5, <1>7, <1>8, MakeState
<1>10. Listed(s) => Listed(r)
  BY <1>4, <1>8, <1>9 DEF Listed
<1>11. CASE l = s
  <2>1. /\ DOMAIN t = DOMAIN s.table
        /\ \A i \in DOMAIN s.table : t[i].key = s.table[i].key
        /\ \A i \in DOMAIN s.table : i # k => t[i] = s.table[i]
        /\ t[k].medium = p.medium /\ t[k].info = p.info
    <3> DEFINE u == Slot(s.table, k, p)
    <3>1. t = u
      BY <1>2, <1>11 DEF t
    <3>2. /\ DOMAIN u = DOMAIN s.table
          /\ \A i \in DOMAIN s.table : u[i].key = s.table[i].key
          /\ \A i \in DOMAIN s.table : i # k => u[i] = s.table[i]
          /\ u[k].medium = p.medium /\ u[k].info = p.info
      BY <1>1, <1>2, SlotTable
    <3> HIDE DEF u
    <3> QED BY <3>1, <3>2
  <2>2. s.table[k].medium = p.medium
    BY <1>2 DEF OnMedium
  <2>3. OnMedium(r, p) = OnMedium(s, p)
    BY <1>9, <2>1, <2>2 DEF OnMedium, EqualRange
  <2>4. FirstOn(r, p) \in OnMedium(r, p) /\ \A j \in OnMedium(r, p) : FirstOn(r, p) <= j
    BY <1>2, <1>8, <1>9, <2>3, FirstOnFacts
  <2>5. FirstOn(r, p) = k
    <3>1. OnMedium(s, p) \subseteq Nat
      BY <1>1, TableFacts DEF OnMedium, EqualRange
    <3> QED BY <1>2, <2>3, <2>4, <3>1
  <2>6. ~Changed(r, p)
    BY <1>9, <2>1, <2>5 DEF Changed
  <2>7. Len(r.table) <= Len(s.table)
    BY <1>1, <1>8, <1>9, <1>11
  <2> QED BY <1>9, <1>10, <2>6, <2>7 DEF r
<1>12. CASE \E i \in DOMAIN s.table : l.table = RemoveAt(s.table, i)
  <2>1. Len(l.table) = Len(s.table) - 1
    BY <1>1, <1>12, RemovedTable
  <2>2. Len(r.table) = Len(s.table) - 1 /\ Len(r.table) <= Len(s.table)
    BY <1>1, <1>8, <1>9, <2>1
  <2> QED BY <1>9, <1>10, <2>2 DEF r
<1> QED BY <1>6, <1>11, <1>12

\* One call of OnEndpointFound.
Once(t, p) == IF Changed(t, p) THEN Replaced(t, p) ELSE t

\* A set of states that no call leaves,
Closed(J, p) == \A t \in J : Once(t, p) \in J
\* and m calls in it, one after the other.
Chain(J, s, p, m) ==
  \E g \in [0 .. m -> J] : g[0] = s /\ \A i \in 1 .. m : g[i] = Once(g[i - 1], p)

\* The calls can be made one after the other,
LEMMA CallsExist ==
  ASSUME NEW J, NEW s \in J, NEW p, Closed(J, p), NEW m \in Nat
  PROVE  Chain(J, s, p, m)
<1> DEFINE G(n, g) == g[0] = s /\ \A i \in 1 .. n : g[i] = Once(g[i - 1], p)
           S == {n \in Nat : \E g \in [0 .. n -> J] : G(n, g)}
<1>1. 0 \in S
  <2>1. [i \in 0 .. 0 |-> s] \in [0 .. 0 -> J] /\ G(0, [i \in 0 .. 0 |-> s])
    OBVIOUS
  <2> QED BY <2>1
<1>2. ASSUME NEW n \in Nat, n \in S PROVE n + 1 \in S
  <2>1. PICK g \in [0 .. n -> J] : G(n, g)
    BY <1>2
  <2> DEFINE h == [i \in 0 .. n + 1 |-> IF i <= n THEN g[i] ELSE Once(g[n], p)]
  <2>2. h \in [0 .. n + 1 -> J]
    BY <2>1 DEF Closed
  <2>3. h[0] = s /\ \A i \in 1 .. n + 1 : h[i] = Once(h[i - 1], p)
    <3>1. h[0] = s
      BY <2>1
    <3>2. ASSUME NEW i \in 1 .. n + 1 PROVE h[i] = Once(h[i - 1], p)
      <4>1. i - 1 \in 0 .. n /\ i - 1 <= n /\ h[i - 1] = g[i - 1]
        OBVIOUS
      <4>2. CASE i <= n
        BY <2>1, <4>1, <4>2
      <4>3. CASE i = n + 1
        BY <4>1, <4>3
      <4> QED BY <4>2, <4>3
    <3> QED BY <3>1, <3>2
  <2> HIDE DEF h
  <2> QED BY <2>2, <2>3
<1> HIDE DEF S
<1>3. Nat \subseteq S
  BY <1>1, <1>2, Induction
<1>4. m \in S
  BY <1>3
<1> QED BY <1>4 DEF S, Chain

\* so that Calls is what its recursive definition says.
LEMMA CallsFacts ==
  ASSUME NEW J, NEW s \in J, NEW p, Closed(J, p), Len(s.table) \in Nat
  PROVE  /\ Calls(s, p)[0] = s
         /\ \A n \in 0 .. Len(s.table) : Calls(s, p)[n] \in J
         /\ \A n \in 1 .. Len(s.table) : Calls(s, p)[n] = Once(Calls(s, p)[n - 1], p)
<1> DEFINE m == Len(s.table)
           f == Calls(s, p)
           Eq(g) == g = [n \in 0 .. m |-> IF n = 0 THEN s
                                          ELSE IF Changed(g[n - 1], p) THEN Replaced(g[n - 1], p)
                                          ELSE g[n - 1]]
<1>0. m \in Nat
  OBVIOUS
<1>1. PICK g \in [0 .. m -> J] : g[0] = s /\ \A i \in 1 .. m : g[i] = Once(g[i - 1], p)
  <2> HIDE DEF m
  <2>1. Chain(J, s, p, m)
    BY <1>0, CallsExist
  <2> QED BY <2>1 DEF Chain
<1>2. Eq(g)
  <2>1. \A n \in 0 .. m : g[n] = IF n = 0 THEN s
                                 ELSE IF Changed(g[n - 1], p) THEN Replaced(g[n - 1], p)
                                 ELSE g[n - 1]
    BY <1>1 DEF Once
  <2> QED BY <2>1
<1>3. f = CHOOSE h : Eq(h)
  BY DEF Calls
<1> HIDE DEF f
<1>4. Eq(f)
  <2> HIDE DEF Eq
  <2> QED BY <1>2, <1>3, Zenon
<1>5. f[0] = s /\ \A n \in 1 .. m : f[n] = Once(f[n - 1], p)
  <2> HIDE DEF m
  <2>1. ASSUME NEW n \in 0 .. m
        PROVE  f[n] = IF n = 0 THEN s
                      ELSE IF Changed(f[n - 1], p) THEN Replaced(f[n - 1], p) ELSE f[n - 1]
    BY <1>4, Zenon
  <2> HIDE DEF Eq
  <2>2. 0 \in 0 .. m /\ \A n \in 1 .. m : n \in 0 .. m /\ n # 0
    BY <1>0
  <2> QED BY <2>1, <2>2 DEF Once
<1>6. \A n \in 0 .. m : f[n] \in J
  <2> DEFINE S == {n \in Nat : n <= m => f[n] \in J}
  <2>1. 0 \in S
    BY <1>5
  <2>2. ASSUME NEW n \in Nat, n \in S PROVE n + 1 \in S
    <3>1. ASSUME n + 1 <= m PROVE f[n + 1] \in J
      <4>1. n <= m /\ n + 1 \in 1 .. m /\ (n + 1) - 1 = n
        BY <3>1
      <4>2. f[n + 1] = Once(f[n], p)
        BY <1>5, <4>1
      <4> QED BY <2>2, <4>1, <4>2 DEF Closed
    <3> QED BY <3>1
  <2> HIDE DEF S
  <2>3. Nat \subseteq S
    BY <2>1, <2>2, Induction
  <2> QED BY <2>3 DEF S
<1> QED BY <1>5, <1>6 DEF f

\* One call keeps what LostKeeps and ReplacedKeeps say,
LEMMA OnceKeeps ==
  ASSUME NEW s \in States, NEW p \in Endpoints
  PROVE  /\ Once(s, p) \in States
         /\ Listed(s) => Listed(Once(s, p))
  BY ReplacedKeeps DEF Once

\* and so do all of them.
LEMMA CallsKeep ==
  ASSUME NEW s \in States, NEW p \in Endpoints
  PROVE  /\ \A n \in 0 .. Len(s.table) : Calls(s, p)[n] \in States
         /\ Listed(s) => \A n \in 0 .. Len(s.table) : Listed(Calls(s, p)[n])
         /\ Calls(s, p)[0] = s
         /\ \A n \in 1 .. Len(s.table) : Calls(s, p)[n] = Once(Calls(s, p)[n - 1], p)
<1> DEFINE A == States
           B == {t \in States : Listed(t)}
<1>1. Closed(A, p) /\ Closed(B, p)
  BY OnceKeeps DEF Closed
<1>2. Len(s.table) \in Nat
  BY StateFacts
<1> HIDE DEF A
<1>3. s \in A
  BY DEF A
<1>4. /\ \A n \in 0 .. Len(s.table) : Calls(s, p)[n] \in A
      /\ Calls(s, p)[0] = s
      /\ \A n \in 1 .. Len(s.table) : Calls(s, p)[n] = Once(Calls(s, p)[n - 1], p)
  BY <1>1, <1>2, <1>3, CallsFacts
<1>5. ASSUME Listed(s) PROVE \A n \in 0 .. Len(s.table) : Listed(Calls(s, p)[n])
  <2>1. s \in B
    BY <1>5
  <2> HIDE DEF B
  <2>2. \A n \in 0 .. Len(s.table) : Calls(s, p)[n] \in B
    BY <1>1, <1>2, <2>1, CallsFacts
  <2> QED BY <2>2 DEF B
<1> QED BY <1>4, <1>5 DEF A

\* OnEndpointFound, which calls itself after every endpoint it replaces, stops after at most as
\* many calls as discovered_endpoints_ has entries, whatever entries a slot that moved was
\* assigned to: after them the first entry of the endpoint on its medium, if there is one, has
\* the info that was found.
THEOREM RecursionEnds ==
  ASSUME NEW s \in States, NEW p \in Endpoints
  PROVE  ~Changed(Calls(s, p)[Len(s.table)], p)
<1> DEFINE m == Len(s.table)
           f == Calls(s, p)
           S == {n \in Nat : n <= m => (Len(f[n].table) <= m - n \/ ~Changed(f[n], p))}
<1>1. m \in Nat
  BY StateFacts
<1>2. /\ \A n \in 0 .. m : f[n] \in States
      /\ f[0] = s
      /\ \A n \in 1 .. m : f[n] = Once(f[n - 1], p)
  BY CallsKeep
<1> HIDE DEF f
<1>3. 0 \in S
  BY <1>1, <1>2
<1>4. ASSUME NEW n \in Nat, n \in S PROVE n + 1 \in S
  <2> SUFFICES ASSUME n + 1 <= m
               PROVE  Len(f[n + 1].table) <= m - (n + 1) \/ ~Changed(f[n + 1], p)
    OBVIOUS
  <2>0. n \in 0 .. m /\ n + 1 \in 1 .. m /\ (n + 1) - 1 = n
    BY <1>1
  <2>1. f[n] \in States /\ f[n + 1] = Once(f[n], p)
    BY <1>2, <2>0
  <2>2. CASE ~Changed(f[n], p)
    BY <2>1, <2>2 DEF Once
  <2>3. CASE Changed(f[n], p)
    <3>1. Len(f[n].table) <= m - n
      BY <1>4, <2>0, <2>3
    <3>2. f[n + 1] = Replaced(f[n], p)
      BY <2>1, <2>3 DEF Once
    <3>3. Len(Replaced(f[n], p).table) = Len(f[n].table) - 1 \/ ~Changed(Replaced(f[n], p), p)
      BY <2>1, <2>3, ReplacedKeeps
    <3>4. Len(f[n].table) \in Nat
      BY <2>1, StateFacts
    <3> HIDE DEF m
    <3> QED BY <1>1, <3>1, <3>2, <3>3, <3>4
  <2> QED BY <2>2, <2>3
<1> HIDE DEF S
<1>5. Nat \subseteq S
  BY <1>3, <1>4, Induction
<1>6. Len(f[m].table) <= 0 \/ ~Changed(f[m], p)
  <2> HIDE DEF m
  <2> QED BY <1>1, <1>5 DEF S
<1>7. ASSUME Len(f[m].table) <= 0 PROVE ~Changed(f[m], p)
  <2>1. f[m] \in States
    BY <1>1, <1>2
  <2>2. f[m].table \in Seq(Entries)
    BY <2>1, StateFacts
  <2>3. DOMAIN f[m].table = {}
    BY <1>7, <2>2
  <2> QED BY <2>3 DEF Changed, OnMedium, EqualRange
<1> QED BY <1>6, <1>7 DEF f

\* OnEndpointFound ends with an entry that is there, or emplaces one.
LEMMA FoundCases ==
  ASSUME NEW s \in States, NEW p \in Endpoints
  PROVE  \E l \in States :
           /\ l = Calls(s, p)[Len(s.table)]
           /\ Listed(s) => Listed(l)
           /\ EndpointFound(s, p) = IF OnMedium(l, p) # {} THEN l
                ELSE [table |-> Emplaced(l.table, p.id, p), told |-> ClientFound(l.told, p.id, p.info)]
<1> DEFINE l == Calls(s, p)[Len(s.table)]
<1>1. Len(s.table) \in 0 .. Len(s.table)
  BY StateFacts
<1>2. l \in States /\ (Listed(s) => Listed(l))
  BY <1>1, CallsKeep
<1>3. EndpointFound(s, p) = IF OnMedium(l, p) # {} THEN l
        ELSE [table |-> Emplaced(l.table, p.id, p), told |-> ClientFound(l.told, p.id, p.info)]
  BY DEF EndpointFound
<1> HIDE DEF l
<1>4. l = Calls(s, p)[Len(s.table)]
  BY DEF l
<1> QED BY <1>2, <1>3, <1>4

\* Emplacing an entry reports the endpoint.
LEMMA AddedKeeps ==
  ASSUME NEW l \in States, NEW p \in Endpoints
  PROVE  /\ [table |-> Emplaced(l.table, p.id, p), told |-> ClientFound(l.told, p.id, p.info)] \in States
         /\ Listed(l) =>
              Listed([table |-> Emplaced(l.table, p.id, p), told |-> ClientFound(l.told, p.id, p.info)])
<1> DEFINE t == Emplaced(l.table, p.id, p)
           f == ClientFound(l.told, p.id, p.info)
           r == [table |-> t, told |-> f]
<1>1. l.table \in Seq(Entries) /\ Sorted(l.table) /\ l.told \in ToldType
  BY StateFacts
<1>2. p.id \in Devices /\ p.info \in Infos
  BY EntryFacts
<1>3. t \in Seq(Entries) /\ Sorted(t) /\ \A d : Has(t, d) <=> Has(l.table, d) \/ d = p.id
  BY <1>1, <1>2, EmplacedFacts
<1>4. /\ f \in ToldType /\ f[p.id] # None
      /\ \A d \in Devices : d # p.id => f[d] = l.told[d]
  BY <1>1, <1>2, ToldFacts
<1> HIDE DEF t, f
<1>5. r \in States /\ r.table = t /\ r.told = f
  BY <1>3, <1>4, MakeState
<1>6. Listed(l) => Listed(r)
  BY <1>3, <1>4, <1>5 DEF Listed
<1> QED BY <1>5, <1>6 DEF t, f

\* OnEndpointFound keeps the order of the table, and the reports in step with the entries.
LEMMA FoundKeeps ==
  ASSUME NEW s \in States, NEW p \in Endpoints
  PROVE  /\ EndpointFound(s, p) \in States
         /\ Listed(s) => Listed(EndpointFound(s, p))
<1>1. PICK l \in States :
           /\ Listed(s) => Listed(l)
           /\ EndpointFound(s, p) = IF OnMedium(l, p) # {} THEN l
                ELSE [table |-> Emplaced(l.table, p.id, p), told |-> ClientFound(l.told, p.id, p.info)]
  BY FoundCases
<1> DEFINE r == [table |-> Emplaced(l.table, p.id, p), told |-> ClientFound(l.told, p.id, p.info)]
<1>2. r \in States /\ (Listed(l) => Listed(r))
  BY AddedKeeps
<1>3. EndpointFound(s, p) = l \/ EndpointFound(s, p) = r
  BY <1>1
<1> HIDE DEF r
<1> QED BY <1>1, <1>2, <1>3

\* Without an entry on the medium it calls itself no more.
LEMMA FoundNew ==
  ASSUME NEW s \in States, NEW p \in Endpoints, OnMedium(s, p) = {}
  PROVE  EndpointFound(s, p) =
           [table |-> Emplaced(s.table, p.id, p), told |-> ClientFound(s.told, p.id, p.info)]
<1> DEFINE J == {s}
<1>1. Closed(J, p)
  BY DEF Closed, Once, Changed
<1>2. Len(s.table) \in Nat
  BY StateFacts
<1>3. s \in J
  OBVIOUS
<1> HIDE DEF J
<1>4. \A n \in 0 .. Len(s.table) : Calls(s, p)[n] \in J
  BY <1>1, <1>2, <1>3, CallsFacts
<1>5. Calls(s, p)[Len(s.table)] = s
  BY <1>2, <1>4 DEF J
<1> QED BY <1>5 DEF EndpointFound

----------------------------------------------------------------------------
(* The queue of the PCP handler thread *)

\* The jobs that the router waits for.
ApiOps == {"start", "stop", "inject", "request"}

\* What a job carries.
LEMMA JobFacts ==
  /\ \A x \in Jobs :
       /\ x.op = "start" => x.on \in Starts
       /\ x.op \in {"inject", "injected"} => x.dev \in Devices /\ x.info \in Infos
       /\ x.op = "request" => x.dev \in Devices /\ x.mac \in BOOLEAN
       /\ x.op \in {"bt_found", "bt_changed", "ble_lost"} => x.dev \in Devices
       /\ x.op \in {"bt_lost", "ble_found", "wifi_found", "wifi_lost"} =>
            x.dev \in Devices /\ x.info \in Shown
  /\ \A on \in Starts : [op |-> "start", on |-> on] \in Jobs
  /\ [op |-> "stop"] \in Jobs
  /\ \A d \in Devices, i \in Infos :
       [op |-> "inject", dev |-> d, info |-> i] \in Jobs /\ [op |-> "injected", dev |-> d, info |-> i] \in Jobs
  /\ \A d \in Devices, mac \in BOOLEAN : [op |-> "request", dev |-> d, mac |-> mac] \in Jobs
  /\ \A d \in Devices : /\ [op |-> "bt_found", dev |-> d] \in Jobs
                        /\ [op |-> "bt_changed", dev |-> d] \in Jobs
                        /\ [op |-> "ble_lost", dev |-> d] \in Jobs
  /\ \A d \in Devices, i \in Shown : /\ [op |-> "bt_lost", dev |-> d, info |-> i] \in Jobs
                                     /\ [op |-> "ble_found", dev |-> d, info |-> i] \in Jobs
                                     /\ [op |-> "wifi_found", dev |-> d, info |-> i] \in Jobs
                                     /\ [op |-> "wifi_lost", dev |-> d, info |-> i] \in Jobs
<1>1. ASSUME NEW x \in Jobs
      PROVE  /\ x.op = "start" => x.on \in Starts
             /\ x.op \in {"inject", "injected"} => x.dev \in Devices /\ x.info \in Infos
             /\ x.op = "request" => x.dev \in Devices /\ x.mac \in BOOLEAN
             /\ x.op \in {"bt_found", "bt_changed", "ble_lost"} => x.dev \in Devices
             /\ x.op \in {"bt_lost", "ble_found", "wifi_found", "wifi_lost"} =>
                  x.dev \in Devices /\ x.info \in Shown
  <2>1. CASE x \in [op : {"start"}, on : Starts]
    BY <2>1
  <2>2. CASE x \in [op : {"stop"}]
    BY <2>2
  <2>3. CASE x \in [op : {"inject", "injected"}, dev : Devices, info : Infos]
    BY <2>3
  <2>4. CASE x \in [op : {"request"}, dev : Devices, mac : BOOLEAN]
    BY <2>4
  <2>5. CASE x \in [op : {"bt_found", "bt_changed", "ble_lost"}, dev : Devices]
    BY <2>5
  <2>6. CASE x \in [op : {"bt_lost", "ble_found", "wifi_found", "wifi_lost"},
                    dev : Devices, info : Shown]
    BY <2>6
  <2> QED BY <2>1, <2>2, <2>3, <2>4, <2>5, <2>6 DEF Jobs
<1>2. \A on \in Starts : [op |-> "start", on |-> on] \in Jobs
  BY DEF Jobs
<1>3. [op |-> "stop"] \in Jobs
  BY DEF Jobs
<1>4. \A d \in Devices, i \in Infos :
       [op |-> "inject", dev |-> d, info |-> i] \in Jobs /\ [op |-> "injected", dev |-> d, info |-> i] \in Jobs
  BY DEF Jobs
<1>5. \A d \in Devices, mac \in BOOLEAN : [op |-> "request", dev |-> d, mac |-> mac] \in Jobs
  BY DEF Jobs
<1>6. \A d \in Devices : /\ [op |-> "bt_found", dev |-> d] \in Jobs
                         /\ [op |-> "bt_changed", dev |-> d] \in Jobs
                         /\ [op |-> "ble_lost", dev |-> d] \in Jobs
  BY DEF Jobs
<1>7. \A d \in Devices, i \in Shown : /\ [op |-> "bt_lost", dev |-> d, info |-> i] \in Jobs
                                      /\ [op |-> "ble_found", dev |-> d, info |-> i] \in Jobs
                                      /\ [op |-> "wifi_found", dev |-> d, info |-> i] \in Jobs
                                      /\ [op |-> "wifi_lost", dev |-> d, info |-> i] \in Jobs
  BY DEF Jobs
<1> QED BY <1>1, <1>2, <1>3, <1>4, <1>5, <1>6, <1>7

\* A job is posted behind the others,
LEMMA AppendFacts ==
  ASSUME NEW S, NEW q \in Seq(S), NEW x \in S
  PROVE  /\ Append(q, x) \in Seq(S) /\ Len(Append(q, x)) = Len(q) + 1 /\ Len(q) \in Nat
         /\ DOMAIN q = 1 .. Len(q) /\ DOMAIN Append(q, x) = 1 .. Len(q) + 1
         /\ \A i \in 1 .. Len(q) : Append(q, x)[i] = q[i] /\ q[i] \in S
         /\ Append(q, x)[Len(q) + 1] = x
         /\ Append(q, x) # <<>>
  OBVIOUS

\* and the first one is run.
LEMMA TailFacts ==
  ASSUME NEW S, NEW q \in Seq(S), q # <<>>
  PROVE  /\ Tail(q) \in Seq(S) /\ Len(Tail(q)) = Len(q) - 1 /\ Len(q) \in Nat \ {0}
         /\ DOMAIN q = 1 .. Len(q) /\ DOMAIN Tail(q) = 1 .. Len(q) - 1
         /\ \A i \in 1 .. Len(q) - 1 : Tail(q)[i] = q[i + 1]
         /\ Head(q) = q[1] /\ q[1] \in S
  OBVIOUS

\* q is what waits, c that the router waits, b that a discovery goes on: one API job at most
\* waits, and only if the router waits for it; a "start" only if nothing is discovered; and
\* only an API job may be one more than the bound.
QueueInv(q, c, b) ==
  /\ q \in Seq(Jobs) /\ Len(q) <= MaxQueue + 1
  /\ \A i \in DOMAIN q : q[i].op \in ApiOps => c
  /\ \A i, j \in DOMAIN q : q[i].op \in ApiOps /\ q[j].op \in ApiOps => i = j
  /\ \A i \in DOMAIN q : q[i].op = "start" => ~b
  /\ Len(q) = MaxQueue + 1 => q[Len(q)].op \in ApiOps

\* A callback posts its job where there is room,
LEMMA OtherPosted ==
  ASSUME NEW q, NEW c, NEW b, QueueInv(q, c, b), Len(q) < MaxQueue, NEW x \in Jobs, x.op \notin ApiOps
  PROVE  QueueInv(Append(q, x), c, b)
<1> DEFINE r == Append(q, x)
<1>0. q \in Seq(Jobs)
  BY DEF QueueInv
<1>1. /\ r \in Seq(Jobs) /\ Len(r) = Len(q) + 1 /\ Len(q) \in Nat
      /\ DOMAIN q = 1 .. Len(q) /\ DOMAIN r = 1 .. Len(q) + 1
      /\ \A i \in 1 .. Len(q) : r[i] = q[i]
      /\ r[Len(q) + 1] = x
  BY <1>0, AppendFacts
<1> HIDE DEF r
<1>2. MaxQueue \in Nat /\ x.op # "start"
  BY DiscoveryAssumption DEF ApiOps
<1>3. \A i \in DOMAIN r : r[i].op \in ApiOps \/ r[i].op = "start" => i \in DOMAIN q /\ r[i] = q[i]
  BY <1>1, <1>2
<1>4. Len(r) <= MaxQueue + 1 /\ Len(r) # MaxQueue + 1
  BY <1>1, <1>2
<1> QED BY <1>1, <1>3, <1>4 DEF QueueInv, r

\* an API call anyway,
LEMMA CallPosted ==
  ASSUME NEW q, NEW b, QueueInv(q, FALSE, b), NEW x \in Jobs, x.op \in ApiOps, x.op = "start" => ~b
  PROVE  QueueInv(Append(q, x), TRUE, b)
<1> DEFINE r == Append(q, x)
<1>0. q \in Seq(Jobs)
  BY DEF QueueInv
<1>1. /\ r \in Seq(Jobs) /\ Len(r) = Len(q) + 1 /\ Len(q) \in Nat
      /\ DOMAIN q = 1 .. Len(q) /\ DOMAIN r = 1 .. Len(q) + 1
      /\ \A i \in 1 .. Len(q) : r[i] = q[i]
      /\ r[Len(q) + 1] = x
  BY <1>0, AppendFacts
<1> HIDE DEF r
<1>2. MaxQueue \in Nat
  BY DiscoveryAssumption
<1>3. \A i \in DOMAIN q : q[i].op \notin ApiOps
  BY DEF QueueInv
<1>4. Len(q) # MaxQueue + 1
  <2> SUFFICES ASSUME Len(q) = MaxQueue + 1 PROVE FALSE
    OBVIOUS
  <2>1. Len(q) \in DOMAIN q
    BY <1>1, <1>2
  <2> QED BY <1>3, <2>1 DEF QueueInv
<1>5. Len(q) <= MaxQueue + 1
  BY DEF QueueInv
<1>6. Len(r) <= MaxQueue + 1 /\ r[Len(r)] = x
  <2>0. Len(r) = Len(q) + 1 /\ Len(q) \in Nat
    BY <1>1
  <2>1. Len(r) <= MaxQueue + 1
    BY <1>2, <1>4, <1>5, <2>0
  <2>2. r[Len(r)] = x
    BY <1>1, Zenon
  <2> QED BY <2>1, <2>2
<1>7. \A i \in DOMAIN r : (r[i].op \in ApiOps \/ r[i].op = "start") => i = Len(r) /\ r[i] = x
  BY <1>1, <1>3 DEF ApiOps
<1> QED BY <1>1, <1>6, <1>7 DEF QueueInv, r

\* a job is run,
LEMMA OtherRun ==
  ASSUME NEW q, NEW c, NEW b, QueueInv(q, c, b), q # <<>>
  PROVE  QueueInv(Tail(q), c, b)
<1> DEFINE r == Tail(q)
<1>0. q \in Seq(Jobs)
  BY DEF QueueInv
<1>1. /\ r \in Seq(Jobs) /\ Len(r) = Len(q) - 1 /\ Len(q) \in Nat \ {0}
      /\ DOMAIN q = 1 .. Len(q) /\ DOMAIN r = 1 .. Len(q) - 1
      /\ \A i \in 1 .. Len(q) - 1 : r[i] = q[i + 1]
  BY <1>0, TailFacts
<1> HIDE DEF r
<1>2. MaxQueue \in Nat /\ Len(q) <= MaxQueue + 1
  BY DiscoveryAssumption DEF QueueInv
<1>3. Len(r) <= MaxQueue + 1 /\ Len(r) # MaxQueue + 1
  BY <1>1, <1>2
<1>4. \A i \in DOMAIN r : i + 1 \in DOMAIN q /\ r[i] = q[i + 1]
  BY <1>1
<1>5. \A i \in DOMAIN r : (r[i].op \in ApiOps => c) /\ (r[i].op = "start" => ~b)
  BY <1>4 DEF QueueInv
<1>6. ASSUME NEW i \in DOMAIN r, NEW j \in DOMAIN r, r[i].op \in ApiOps, r[j].op \in ApiOps
      PROVE  i = j
  <2>1. i + 1 = j + 1
    BY <1>4, <1>6 DEF QueueInv
  <2> QED BY <1>1, <2>1
<1> QED BY <1>1, <1>3, <1>5, <1>6 DEF QueueInv, r

\* an API job lets the router go,
LEMMA CallRun ==
  ASSUME NEW q, NEW c, NEW b, QueueInv(q, c, b), q # <<>>, Head(q).op \in ApiOps, NEW b2
  PROVE  QueueInv(Tail(q), FALSE, b2)
<1> DEFINE r == Tail(q)
<1>0. q \in Seq(Jobs)
  BY DEF QueueInv
<1>1. /\ r \in Seq(Jobs) /\ Len(r) = Len(q) - 1 /\ Len(q) \in Nat \ {0}
      /\ DOMAIN q = 1 .. Len(q) /\ DOMAIN r = 1 .. Len(q) - 1
      /\ \A i \in 1 .. Len(q) - 1 : r[i] = q[i + 1]
      /\ Head(q) = q[1]
  BY <1>0, TailFacts
<1> HIDE DEF r
<1>2. MaxQueue \in Nat /\ Len(q) <= MaxQueue + 1
  BY DiscoveryAssumption DEF QueueInv
<1>3. Len(r) <= MaxQueue + 1 /\ Len(r) # MaxQueue + 1
  BY <1>1, <1>2
<1>4. \A i \in DOMAIN r : i + 1 \in DOMAIN q /\ i + 1 # 1 /\ r[i] = q[i + 1]
  BY <1>1
<1>5. \A i \in DOMAIN r : r[i].op \notin ApiOps
  <2>1. 1 \in DOMAIN q /\ q[1].op \in ApiOps
    BY <1>1
  <2> QED BY <1>4, <2>1 DEF QueueInv
<1>6. \A i \in DOMAIN r : r[i].op # "start"
  BY <1>5 DEF ApiOps
<1> QED BY <1>1, <1>3, <1>5, <1>6 DEF QueueInv, r

\* and that of InjectEndpoint posts another, for which its own place is free.
LEMMA InjectRun ==
  ASSUME NEW q, NEW c, NEW b, QueueInv(q, c, b), q # <<>>, Head(q).op \in ApiOps,
         NEW x \in Jobs, x.op \notin ApiOps
  PROVE  QueueInv(Append(Tail(q), x), FALSE, b)
<1> DEFINE r == Tail(q)
<1>0. q \in Seq(Jobs)
  BY DEF QueueInv
<1>1. /\ Len(r) = Len(q) - 1 /\ Len(q) \in Nat \ {0}
      /\ DOMAIN q = 1 .. Len(q) /\ Head(q) = q[1]
  BY <1>0, TailFacts
<1>2. QueueInv(r, FALSE, b)
  BY CallRun
<1> HIDE DEF r
<1>3. MaxQueue \in Nat \ {0} /\ Len(q) <= MaxQueue + 1
  BY DiscoveryAssumption DEF QueueInv
<1>4. Len(q) # MaxQueue + 1
  <2> SUFFICES ASSUME Len(q) = MaxQueue + 1 PROVE FALSE
    OBVIOUS
  <2>1. Len(q) \in DOMAIN q /\ 1 \in DOMAIN q /\ Len(q) # 1
    BY <1>1, <1>3
  <2> QED BY <1>1, <2>1 DEF QueueInv
<1>5. Len(r) < MaxQueue
  BY <1>1, <1>3, <1>4
<1> QED BY <1>2, <1>5, OtherPosted DEF r

----------------------------------------------------------------------------
(* The steps of the mediums *)

\* TypeOK in parts, by what a step may leave alone: the devices,
AirType ==
  /\ air \in [AllMediums \X Devices -> Shown \cup {None}] /\ name \in [Devices -> Shown]
  /\ changes \in 0..MaxChanges
\* the mediums,
MediumType ==
  /\ scanning \subseteq AllMediums
  /\ bt_devices \subseteq Devices /\ ble_peripherals \subseteq Devices
  /\ ble_seen \subseteq Devices /\ wifi_seen \subseteq Devices
  /\ wifi_type_found \in BOOLEAN
\* the handler and the client,
HandlerType ==
  /\ discovering \in BOOLEAN /\ told \in ToldType
  /\ discovered_endpoints \in Seq(Entries) /\ Sorted(discovered_endpoints)
  /\ found_ble_endpoints \in [Devices -> Infos \cup {None}]
  /\ sources \subseteq Sources
\* and the router.
CallType == calling \in BOOLEAN /\ calls \in 0..MaxCalls
\* What waits, and for what.
CallInv == CallType /\ QueueInv(queue, calling, discovering)
\* The handler, with FoundHasEntry.
HandlerInv ==
  /\ HandlerType
  /\ IF discovering THEN Listed(State) ELSE told = [d \in Devices |-> None]
\* The inductive invariant for TypeOK and FoundHasEntry.  Without CallInv a second "start"
\* could clear the table of a discovery that goes on while the client keeps what it was told.
ListedInv == AirType /\ MediumType /\ CallInv /\ HandlerInv

\* It implies both.
LEMMA ListedImplies == ListedInv => TypeOK /\ FoundHasEntry
<1> SUFFICES ASSUME ListedInv PROVE TypeOK /\ FoundHasEntry
  OBVIOUS
<1>1. TypeOK
  <2>1. queue \in Seq(Jobs) /\ Len(queue) <= MaxQueue + 1
    BY DEF ListedInv, CallInv, QueueInv
  <2>2. {bt_devices, ble_peripherals, ble_seen, wifi_seen} \subseteq SUBSET Devices
    BY DEF ListedInv, MediumType
  <2> QED BY <2>1, <2>2 DEF ListedInv, AirType, MediumType, CallInv, CallType, HandlerInv, HandlerType, TypeOK, ToldType
<1>2. FoundHasEntry
  <2>1. CASE discovering
    <3>1. \A d \in Devices : told[d] # None <=> Has(discovered_endpoints, d)
      BY <2>1 DEF ListedInv, HandlerInv, Listed, State
    <3> QED BY <2>1, <3>1, HasRange DEF FoundHasEntry
  <2>2. CASE ~discovering
    BY <2>2 DEF ListedInv, HandlerInv, FoundHasEntry
  <2> QED BY <2>1, <2>2
<1> QED BY <1>1, <1>2

\* It holds initially.
LEMMA ListedInit == Init => ListedInv
<1> SUFFICES ASSUME Init PROVE ListedInv
  OBVIOUS
<1>1. AirType
  BY DiscoveryAssumption DEF Init, AirType, Shown
<1>2. MediumType
  BY DEF Init, MediumType
<1>0. <<>> \in Seq(Jobs) /\ <<>> \in Seq(Entries) /\ Len(<<>>) = 0 /\ DOMAIN <<>> = {}
  OBVIOUS
<1>3. CallInv
  <2>1. CallType
    <3>1. MaxCalls \in Nat /\ calls = 0
      BY DiscoveryAssumption DEF Init
    <3>2. calls \in 0 .. MaxCalls
      BY <3>1
    <3>3. calling \in BOOLEAN
      BY Zenon DEF Init
    <3> QED BY <3>2, <3>3, Zenon DEF CallType
  <2>2. MaxQueue \in Nat /\ 0 <= MaxQueue + 1 /\ 0 # MaxQueue + 1
    BY DiscoveryAssumption
  <2>3. queue = <<>>
    BY DEF Init
  <2>4. QueueInv(queue, calling, discovering)
    BY <1>0, <2>2, <2>3 DEF QueueInv
  <2> QED BY <2>1, <2>4 DEF CallInv
<1>4. HandlerInv
  <2>1. discovered_endpoints \in Seq(Entries) /\ Sorted(discovered_endpoints)
    BY <1>0 DEF Init, Sorted
  <2> QED BY <2>1 DEF Init, HandlerInv, HandlerType, ToldType
<1> QED BY <1>1, <1>2, <1>3, <1>4 DEF ListedInv

\* A medium and a device are a radio.
LEMMA RadioFacts ==
  ASSUME NEW m \in AllMediums, NEW d \in Devices
  PROVE  <<m, d>> \in AllMediums \X Devices
  OBVIOUS

\* A device that shows something else keeps the types of the air.
LEMMA AirKept ==
  ASSUME AirType, NEW m \in AllMediums, NEW d \in Devices, NEW i \in Shown \cup {None},
         changes < MaxChanges, changes' = changes + 1,
         air' = [air EXCEPT ![<<m, d>>] = i],
         \/ name' = name
         \/ i # None /\ name' = [name EXCEPT ![d] = i]
  PROVE  AirType'
<1>1. air' \in [AllMediums \X Devices -> Shown \cup {None}]
  BY RadioFacts DEF AirType
<1>2. name' \in [Devices -> Shown]
  BY DEF AirType
<1>3. changes' \in 0 .. MaxChanges
  BY DiscoveryAssumption DEF AirType
<1> QED BY <1>1, <1>2, <1>3 DEF AirType

\* The names of the mediums.
LEMMA MediumNames == "BLUETOOTH" \in AllMediums /\ "BLE" \in AllMediums /\ "WIFI_LAN" \in AllMediums
  BY DEF AllMediums

\* A callback that posts its job, or none, keeps the queue.
LEMMA Posted ==
  ASSUME CallInv, Room, UNCHANGED <<calling, calls, discovering>>, NEW x \in Jobs, x.op \notin ApiOps,
         queue' = queue \/ Post(x)
  PROVE  CallInv'
<1>1. CallType'
  BY DEF CallInv, CallType
<1>2. QueueInv(queue, calling, discovering) /\ Len(queue) < MaxQueue
  BY DEF CallInv, Room
<1>3. QueueInv(Append(queue, x), calling, discovering)
  BY <1>2, OtherPosted
<1>4. QueueInv(queue', calling', discovering')
  <2>1. CASE queue' = queue
    BY <1>2, <2>1
  <2>2. CASE Post(x)
    BY <1>3, <2>2 DEF Post
  <2> QED BY <2>1, <2>2
<1> QED BY <1>1, <1>4 DEF CallInv

\* The devices and the callbacks of the mediums leave the handler alone.
LEMMA MediumStep ==
  ASSUME ListedInv,
         \/ \E r \in Radios, i \in Shown : Appears(r[1], r[2], i)
         \/ \E d \in Devices :
              \/ BluetoothDiscovered(d)
              \/ \E i \in Shown : BluetoothRenamed(d, i)
              \/ BluetoothLost(d)
              \/ BleDiscovered(d)
              \/ BleLost(d)
              \/ WifiLanDiscovered(d)
              \/ WifiLanLost(d)
  PROVE  ListedInv'
<1>0. AirType /\ MediumType /\ CallInv /\ HandlerInv
  BY DEF ListedInv
<1>h. ASSUME UNCHANGED <<discovering, told, discovered_endpoints, found_ble_endpoints>>,
             sources' \subseteq Sources
      PROVE  HandlerInv'
  BY <1>0, <1>h DEF HandlerInv, HandlerType, State
<1>s. sources \subseteq Sources /\ sources \cup {"REUSED"} \subseteq Sources
  BY <1>0 DEF HandlerInv, HandlerType, Sources
<1>1. ASSUME NEW r \in Radios, NEW i \in Shown, Appears(r[1], r[2], i) PROVE ListedInv'
  <2>1. r[1] \in AllMediums /\ r[2] \in Devices
    BY DiscoveryAssumption
  <2>2. i # None
    BY DiscoveryAssumption DEF Shown
  <2>3. /\ changes < MaxChanges /\ changes' = changes + 1
        /\ air' = [air EXCEPT ![<<r[1], r[2]>>] = i]
        /\ name' = name \/ name' = [name EXCEPT ![r[2]] = i]
    BY <1>1 DEF Appears
  <2>4. AirType'
    BY <1>0, <2>1, <2>2, <2>3, AirKept
  <2>5. MediumType'
    BY <1>0, <1>1 DEF MediumType, Appears, mediumVars
  <2>6. CallInv'
    BY <1>0, <1>1 DEF Appears, CallInv, CallType
  <2>7. sources' \subseteq Sources
    BY <1>1, <1>s DEF Appears
  <2>8. HandlerInv'
    BY <1>1, <1>h, <2>7 DEF Appears
  <2> QED BY <2>4, <2>5, <2>6, <2>8 DEF ListedInv
<1>2. ASSUME NEW d \in Devices, BluetoothDiscovered(d) PROVE ListedInv'
  <2>1. AirType' /\ HandlerInv'
    BY <1>0, <1>2, <1>h, <1>s DEF BluetoothDiscovered, AirType, airVars, handlerVars
  <2>2. MediumType'
    BY <1>0, <1>2 DEF MediumType, BluetoothDiscovered
  <2> DEFINE x == [op |-> "bt_found", dev |-> d]
  <2>3. x \in Jobs /\ x.op \notin ApiOps
    BY JobFacts DEF ApiOps
  <2>4. Room /\ UNCHANGED <<calling, calls, discovering>> /\ Post(x)
    BY <1>2 DEF BluetoothDiscovered, handlerVars
  <2> HIDE DEF x
  <2>5. CallInv'
    BY <1>0, <2>3, <2>4, Posted
  <2> QED BY <2>1, <2>2, <2>5 DEF ListedInv
<1>3. ASSUME NEW d \in Devices, NEW i \in Shown, BluetoothRenamed(d, i) PROVE ListedInv'
  <2>1. MediumType' /\ HandlerInv'
    BY <1>0, <1>3, <1>h, <1>s DEF BluetoothRenamed, MediumType, mediumVars, handlerVars
  <2>2. AirType'
    <3>1. /\ changes < MaxChanges /\ changes' = changes + 1
          /\ air' = [air EXCEPT ![<<"BLUETOOTH", d>>] = i] /\ name' = [name EXCEPT ![d] = i]
      BY <1>3 DEF BluetoothRenamed
    <3>2. i # None
      BY DiscoveryAssumption DEF Shown
    <3> QED BY <1>0, <3>1, <3>2, AirKept, MediumNames
  <2> DEFINE x == [op |-> "bt_changed", dev |-> d]
  <2>3. x \in Jobs /\ x.op \notin ApiOps
    BY JobFacts DEF ApiOps
  <2>4. Room /\ UNCHANGED <<calling, calls, discovering>> /\ (Post(x) \/ queue' = queue)
    BY <1>3 DEF BluetoothRenamed, handlerVars
  <2> HIDE DEF x
  <2>5. CallInv'
    BY <1>0, <2>3, <2>4, Posted
  <2> QED BY <2>1, <2>2, <2>5 DEF ListedInv
<1>4. ASSUME NEW d \in Devices, BluetoothLost(d) PROVE ListedInv'
  <2>1. HandlerInv'
    BY <1>4, <1>h, <1>s DEF BluetoothLost, handlerVars
  <2>2. AirType'
    <3>1. /\ changes < MaxChanges /\ changes' = changes + 1
          /\ air' = [air EXCEPT ![<<"BLUETOOTH", d>>] = None] /\ name' = name
      BY <1>4 DEF BluetoothLost
    <3> QED BY <1>0, <3>1, AirKept, MediumNames
  <2>3. MediumType'
    BY <1>0, <1>4 DEF MediumType, BluetoothLost
  <2> DEFINE x == [op |-> "bt_lost", dev |-> d, info |-> name[d]]
  <2>4. x \in Jobs /\ x.op \notin ApiOps
    <3>1. name[d] \in Shown
      BY <1>0 DEF AirType
    <3> QED BY <3>1, JobFacts DEF ApiOps
  <2>5. Room /\ UNCHANGED <<calling, calls, discovering>> /\ (Post(x) \/ queue' = queue)
    BY <1>4 DEF BluetoothLost, handlerVars
  <2> HIDE DEF x
  <2>6. CallInv'
    BY <1>0, <2>4, <2>5, Posted
  <2> QED BY <2>1, <2>2, <2>3, <2>6 DEF ListedInv
<1>5. ASSUME NEW d \in Devices, BleDiscovered(d) PROVE ListedInv'
  <2>1. AirType' /\ HandlerInv'
    BY <1>0, <1>5, <1>h, <1>s DEF BleDiscovered, AirType, airVars, handlerVars
  <2>2. MediumType'
    BY <1>0, <1>5 DEF MediumType, BleDiscovered
  <2> DEFINE x == [op |-> "ble_found", dev |-> d, info |-> air[<<"BLE", d>>]]
  <2>3. x \in Jobs /\ x.op \notin ApiOps
    <3>1. air[<<"BLE", d>>] \in Shown
      <4>1. air[<<"BLE", d>>] \in Shown \cup {None}
        BY <1>0, RadioFacts, MediumNames DEF AirType
      <4>2. air[<<"BLE", d>>] # None
        BY <1>5 DEF BleDiscovered
      <4> QED BY <4>1, <4>2
    <3> QED BY <3>1, JobFacts DEF ApiOps
  <2>4. Room /\ UNCHANGED <<calling, calls, discovering>> /\ (Post(x) \/ queue' = queue)
    BY <1>5 DEF BleDiscovered, handlerVars
  <2> HIDE DEF x
  <2>5. CallInv'
    BY <1>0, <2>3, <2>4, Posted
  <2> QED BY <2>1, <2>2, <2>5 DEF ListedInv
<1>6. ASSUME NEW d \in Devices, BleLost(d) PROVE ListedInv'
  <2>1. HandlerInv'
    BY <1>6, <1>h, <1>s DEF BleLost, handlerVars
  <2>2. AirType'
    <3>1. /\ changes < MaxChanges /\ changes' = changes + 1
          /\ air' = [air EXCEPT ![<<"BLE", d>>] = None] /\ name' = name
      BY <1>6 DEF BleLost
    <3> QED BY <1>0, <3>1, AirKept, MediumNames
  <2>3. MediumType'
    BY <1>0, <1>6 DEF MediumType, BleLost
  <2> DEFINE x == [op |-> "ble_lost", dev |-> d]
  <2>4. x \in Jobs /\ x.op \notin ApiOps
    BY JobFacts DEF ApiOps
  <2>5. Room /\ UNCHANGED <<calling, calls, discovering>> /\ (Post(x) \/ queue' = queue)
    BY <1>6 DEF BleLost, handlerVars
  <2> HIDE DEF x
  <2>6. CallInv'
    BY <1>0, <2>4, <2>5, Posted
  <2> QED BY <2>1, <2>2, <2>3, <2>6 DEF ListedInv
<1>7. ASSUME NEW d \in Devices, WifiLanDiscovered(d) PROVE ListedInv'
  <2>1. AirType' /\ HandlerInv'
    BY <1>0, <1>7, <1>h, <1>s DEF WifiLanDiscovered, AirType, airVars, handlerVars
  <2>2. MediumType'
    BY <1>0, <1>7 DEF MediumType, WifiLanDiscovered
  <2> DEFINE x == [op |-> "wifi_found", dev |-> d, info |-> air[<<"WIFI_LAN", d>>]]
  <2>3. x \in Jobs /\ x.op \notin ApiOps
    <3>1. air[<<"WIFI_LAN", d>>] \in Shown
      <4>1. air[<<"WIFI_LAN", d>>] \in Shown \cup {None}
        BY <1>0, RadioFacts, MediumNames DEF AirType
      <4>2. air[<<"WIFI_LAN", d>>] # None
        BY <1>7 DEF WifiLanDiscovered
      <4> QED BY <4>1, <4>2
    <3> QED BY <3>1, JobFacts DEF ApiOps
  <2>4. Room /\ UNCHANGED <<calling, calls, discovering>> /\ (Post(x) \/ queue' = queue)
    BY <1>7 DEF WifiLanDiscovered, handlerVars
  <2> HIDE DEF x
  <2>5. CallInv'
    BY <1>0, <2>3, <2>4, Posted
  <2> QED BY <2>1, <2>2, <2>5 DEF ListedInv
<1>8. ASSUME NEW d \in Devices, WifiLanLost(d) PROVE ListedInv'
  <2>1. HandlerInv'
    BY <1>8, <1>h, <1>s DEF WifiLanLost, handlerVars
  <2>2. AirType'
    <3>1. /\ changes < MaxChanges /\ changes' = changes + 1
          /\ air' = [air EXCEPT ![<<"WIFI_LAN", d>>] = None] /\ name' = name
      BY <1>8 DEF WifiLanLost
    <3> QED BY <1>0, <3>1, AirKept, MediumNames
  <2>3. MediumType'
    BY <1>0, <1>8 DEF MediumType, WifiLanLost
  <2> DEFINE x == [op |-> "wifi_lost", dev |-> d, info |-> air[<<"WIFI_LAN", d>>]]
  <2>4. x \in Jobs /\ x.op \notin ApiOps
    <3>1. air[<<"WIFI_LAN", d>>] \in Shown
      <4>1. air[<<"WIFI_LAN", d>>] \in Shown \cup {None}
        BY <1>0, RadioFacts, MediumNames DEF AirType
      <4>2. air[<<"WIFI_LAN", d>>] # None
        BY <1>8 DEF WifiLanLost
      <4> QED BY <4>1, <4>2
    <3> QED BY <3>1, JobFacts DEF ApiOps
  <2>5. Room /\ UNCHANGED <<calling, calls, discovering>> /\ (Post(x) \/ queue' = queue)
    BY <1>8 DEF WifiLanLost, handlerVars
  <2> HIDE DEF x
  <2>6. CallInv'
    BY <1>0, <2>4, <2>5, Posted
  <2> QED BY <2>1, <2>2, <2>3, <2>6 DEF ListedInv
<1> QED BY <1>1, <1>2, <1>3, <1>4, <1>5, <1>6, <1>7, <1>8

----------------------------------------------------------------------------
(* The API calls *)

\* A call posts its job,
LEMMA CallStep ==
  ASSUME ListedInv, NEW x \in Jobs, x.op \in ApiOps, x.op = "start" => ~discovering, Call(x)
  PROVE  ListedInv'
<1>1. AirType' /\ MediumType' /\ HandlerInv'
  BY DEF ListedInv, Call, airVars, mediumVars, handlerVars, AirType, MediumType, HandlerInv, HandlerType, State
<1>2. CallType'
  <2>1. calls' \in 0 .. MaxCalls
    BY DiscoveryAssumption DEF ListedInv, CallInv, CallType, Call
  <2>2. calling' \in BOOLEAN
    BY Zenon DEF Call
  <2> QED BY <2>1, <2>2, Zenon DEF CallType
<1>3. calling = FALSE /\ QueueInv(queue, calling, discovering)
  BY DEF ListedInv, CallInv, CallType, Call
<1>4. QueueInv(queue, FALSE, discovering)
  BY <1>3
<1>5. QueueInv(Append(queue, x), TRUE, discovering)
  BY <1>4, CallPosted
<1>6. queue' = Append(queue, x) /\ calling' = TRUE /\ discovering' = discovering
  BY DEF Call, Post, handlerVars
<1>7. QueueInv(queue', calling', discovering')
  BY <1>5, <1>6
<1> QED BY <1>1, <1>2, <1>7 DEF ListedInv, CallInv

\* and every API call is one.
LEMMA ApiStep ==
  ASSUME ListedInv,
         \/ \E d \in Devices : \/ \E i \in Infos : InjectEndpoint(d, i)
                               \/ \E mac \in BOOLEAN : RequestConnection(d, mac)
         \/ \E on \in Starts : StartDiscovery(on)
         \/ StopDiscovery
  PROVE  ListedInv'
<1>1. ASSUME NEW d \in Devices, NEW i \in Infos, InjectEndpoint(d, i) PROVE ListedInv'
  <2> DEFINE x == [op |-> "inject", dev |-> d, info |-> i]
  <2>1. x \in Jobs /\ x.op \in ApiOps /\ x.op # "start"
    BY JobFacts DEF ApiOps
  <2>2. Call(x)
    BY <1>1 DEF InjectEndpoint
  <2> HIDE DEF x
  <2> QED BY <2>1, <2>2, CallStep
<1>2. ASSUME NEW d \in Devices, NEW mac \in BOOLEAN, RequestConnection(d, mac) PROVE ListedInv'
  <2> DEFINE x == [op |-> "request", dev |-> d, mac |-> mac]
  <2>1. x \in Jobs
    BY JobFacts, Zenon
  <2>2. x.op \in ApiOps /\ x.op # "start"
    BY DEF ApiOps
  <2>3. Call(x)
    BY <1>2 DEF RequestConnection
  <2> HIDE DEF x
  <2> QED BY <2>1, <2>2, <2>3, CallStep
<1>3. ASSUME NEW on \in Starts, StartDiscovery(on) PROVE ListedInv'
  <2> DEFINE x == [op |-> "start", on |-> on]
  <2>1. x \in Jobs /\ x.op \in ApiOps
    BY JobFacts DEF ApiOps
  <2>2. Call(x) /\ ~discovering
    BY <1>3 DEF StartDiscovery
  <2> HIDE DEF x
  <2> QED BY <2>1, <2>2, CallStep
<1>4. ASSUME StopDiscovery PROVE ListedInv'
  <2> DEFINE x == [op |-> "stop"]
  <2>1. x \in Jobs /\ x.op \in ApiOps /\ x.op # "start"
    BY JobFacts DEF ApiOps
  <2>2. Call(x)
    BY <1>4 DEF StopDiscovery
  <2> HIDE DEF x
  <2> QED BY <2>1, <2>2, CallStep
<1> QED BY <1>1, <1>2, <1>3, <1>4

\* What is run is a job.
LEMMA HeadJob ==
  ASSUME ListedInv, queue # <<>>
  PROVE  Head(queue) \in Jobs
<1>1. queue \in Seq(Jobs)
  BY DEF ListedInv, CallInv, QueueInv
<1> QED BY <1>1

\* A job that the router does not wait for keeps CallInv,
LEMMA DoneKeeps ==
  ASSUME CallInv, queue # <<>>, Done, UNCHANGED discovering
  PROVE  CallInv'
<1>1. QueueInv(Tail(queue), calling, discovering)
  BY OtherRun DEF CallInv
<1>2. QueueInv(queue', calling', discovering')
  BY <1>1 DEF Done
<1> QED BY <1>2 DEF CallInv, CallType, Done

\* and one that it waits for.
LEMMA ReturnsKeeps ==
  ASSUME CallInv, queue # <<>>, Head(queue).op \in ApiOps, Returns
  PROVE  CallInv'
<1>1. QueueInv(queue, calling, discovering)
  BY DEF CallInv
<1>2. QueueInv(Tail(queue), FALSE, discovering')
  BY <1>1, CallRun
<1>3. queue' = Tail(queue) /\ calling' = FALSE
  BY DEF Returns
<1>4. QueueInv(queue', calling', discovering')
  BY <1>2, <1>3
<1>5. calling' \in BOOLEAN
  BY <1>3, Zenon
<1>6. calls' \in 0 .. MaxCalls
  BY DEF CallInv, CallType, Returns
<1> QED BY <1>4, <1>5, <1>6, Zenon DEF CallInv, CallType

\* The state of the handler.
LEMMA HandlerState ==
  ASSUME HandlerInv
  PROVE  /\ State \in States /\ State.table = discovered_endpoints /\ State.told = told
         /\ discovering => Listed(State)
<1>1. State \in States
  BY MakeState DEF HandlerInv, HandlerType, State
<1> QED BY <1>1 DEF HandlerInv, State

\* It is replaced by another with the reports in step.
LEMMA BecomesKeeps ==
  ASSUME HandlerInv, discovering, NEW s \in States, Listed(s), Becomes(s),
         UNCHANGED discovering, sources' \subseteq Sources,
         found_ble_endpoints' \in [Devices -> Infos \cup {None}]
  PROVE  HandlerInv'
<1>1. /\ discovered_endpoints' \in Seq(Entries) /\ Sorted(discovered_endpoints') /\ told' \in ToldType
      /\ discovered_endpoints' = s.table /\ told' = s.told
  BY StateFacts DEF Becomes
<1>2. HandlerType'
  BY <1>1 DEF HandlerInv, HandlerType
<1>3. Listed([table |-> discovered_endpoints', told |-> told'])
  BY <1>1 DEF Listed
<1>4. Listed(State)'
  BY <1>3 DEF State
<1> QED BY <1>2, <1>4 DEF HandlerInv

----------------------------------------------------------------------------
(* The jobs *)

\* AppendRemoteBluetoothMacAddressEndpoint and AppendWebRTCEndpoint add entries only to
\* endpoints that have one.
LEMMA AppendedFacts ==
  ASSUME NEW t \in Seq(Entries), Sorted(t), NEW d \in Devices, Has(t, d)
  PROVE  /\ WithMac(t, d) \in Seq(Entries) /\ Sorted(WithMac(t, d))
         /\ \A e : Has(WithMac(t, d), e) <=> Has(t, e)
         /\ WithWebRtc(t, d) \in Seq(Entries) /\ Sorted(WithWebRtc(t, d))
         /\ \A e : Has(WithWebRtc(t, d), e) <=> Has(t, e)
<1> DEFINE i == t[First(t, d)].info
           p == [id |-> d, medium |-> "BLUETOOTH", rtc |-> FALSE, info |-> i]
           w == [id |-> d, medium |-> "WEB_RTC", rtc |-> TRUE, info |-> i]
<1>1. i \in Infos
  <2>1. EqualRange(t, d) # {}
    BY HasRange
  <2>2. First(t, d) \in DOMAIN t
    BY <2>1, FirstFacts
  <2> QED BY <2>2, EntryFacts, TableFacts
<1> HIDE DEF i
<1>2. p \in Endpoints /\ w \in Endpoints
  BY <1>1 DEF Endpoints, AllMediums
<1>3. WithMac(t, d) = t \/ WithMac(t, d) = Emplaced(t, d, p)
  BY DEF WithMac, i
<1>4. WithWebRtc(t, d) = t \/ WithWebRtc(t, d) = Emplaced(t, d, w)
  BY DEF WithWebRtc, i
<1> HIDE DEF p, w
<1>5. /\ Emplaced(t, d, p) \in Seq(Entries) /\ Sorted(Emplaced(t, d, p))
      /\ \A e : Has(Emplaced(t, d, p), e) <=> Has(t, e)
  BY <1>2, EmplacedFacts
<1>6. /\ Emplaced(t, d, w) \in Seq(Entries) /\ Sorted(Emplaced(t, d, w))
      /\ \A e : Has(Emplaced(t, d, w), e) <=> Has(t, e)
  BY <1>2, EmplacedFacts
<1>7. /\ WithMac(t, d) \in Seq(Entries) /\ Sorted(WithMac(t, d))
      /\ \A e : Has(WithMac(t, d), e) <=> Has(t, e)
  BY <1>3, <1>5
<1>8. /\ WithWebRtc(t, d) \in Seq(Entries) /\ Sorted(WithWebRtc(t, d))
      /\ \A e : Has(WithWebRtc(t, d), e) <=> Has(t, e)
  BY <1>4, <1>6
<1> QED BY <1>7, <1>8

\* StartDiscovery begins with no entries and nothing told,
LEMMA StartKeeps ==
  ASSUME ListedInv, StartJob
  PROVE  ListedInv'
<1> DEFINE on == Head(queue).on
<1>1. AirType /\ MediumType /\ CallInv /\ HandlerInv
  BY DEF ListedInv
<1>2. queue # <<>> /\ Head(queue).op = "start" /\ Head(queue).op \in ApiOps /\ Returns
  BY DEF StartJob, Runs, ApiOps
<1>3. AirType'
  BY <1>1 DEF AirType, StartJob, airVars
<1>4. CallInv'
  BY <1>1, <1>2, ReturnsKeeps
<1>5. on \in Starts
  BY <1>2, HeadJob, JobFacts
<1>6. CASE on = {}
  <2>1. UNCHANGED <<mediumVars, handlerVars>>
    BY <1>6 DEF StartJob
  <2>2. MediumType' /\ HandlerInv'
    BY <1>1, <2>1 DEF MediumType, HandlerInv, HandlerType, State, mediumVars, handlerVars
  <2> QED BY <1>3, <1>4, <2>2 DEF ListedInv
<1>7. CASE on # {}
  <2>1. /\ scanning' = on \ {"OUT_OF_BAND"}
        /\ bt_devices' = {} /\ ble_peripherals' = {} /\ ble_seen' = {}
        /\ wifi_type_found' = FALSE /\ wifi_seen' = {}
        /\ discovered_endpoints' = <<>>
        /\ discovering' = TRUE
        /\ sources' = {}
        /\ UNCHANGED <<told, found_ble_endpoints>>
    BY <1>7 DEF StartJob
  <2>2. scanning' \subseteq AllMediums
    BY <1>5, <2>1, DiscoveryAssumption
  <2>3. MediumType'
    BY <2>1, <2>2 DEF MediumType
  <2>4. <<>> \in Seq(Entries) /\ DOMAIN <<>> = {}
    OBVIOUS
  <2>5. ~discovering
    <3>1. queue \in Seq(Jobs) /\ \A i \in DOMAIN queue : queue[i].op = "start" => ~discovering
      BY <1>1 DEF CallInv, QueueInv
    <3>2. 1 \in DOMAIN queue /\ Head(queue) = queue[1]
      BY <1>2, <3>1, TailFacts
    <3> QED BY <1>2, <3>1, <3>2
  <2>6. told' = [d \in Devices |-> None]
    BY <1>1, <2>1, <2>5 DEF HandlerInv
  <2>7. HandlerType'
    <3>1. discovered_endpoints' \in Seq(Entries) /\ Sorted(discovered_endpoints')
      BY <2>1, <2>4 DEF Sorted
    <3>2. told' \in ToldType /\ sources' \subseteq Sources
      BY <2>1, <2>6 DEF ToldType
    <3>3. found_ble_endpoints' \in [Devices -> Infos \cup {None}]
      BY <1>1, <2>1 DEF HandlerInv, HandlerType
    <3>4. discovering' \in BOOLEAN
      BY <2>1, Zenon
    <3> QED BY <3>1, <3>2, <3>3, <3>4, Zenon DEF HandlerType
  <2>8. Listed([table |-> <<>>, told |-> [d \in Devices |-> None]])
    BY <2>4 DEF Listed, Has
  <2>9. Listed(State)'
    BY <2>1, <2>6, <2>8 DEF State
  <2>10. HandlerInv'
    BY <2>1, <2>7, <2>9 DEF HandlerInv
  <2> QED BY <1>3, <1>4, <2>3, <2>10 DEF ListedInv
<1> QED BY <1>6, <1>7

\* StopDiscovery ends with nothing told,
LEMMA StopKeeps ==
  ASSUME ListedInv, StopJob
  PROVE  ListedInv'
<1>1. AirType /\ MediumType /\ CallInv /\ HandlerInv
  BY DEF ListedInv
<1>2. queue # <<>> /\ Head(queue).op \in ApiOps /\ Returns
  BY DEF StopJob, Runs, ApiOps
<1>3. AirType'
  BY <1>1 DEF AirType, StopJob, airVars
<1>4. CallInv'
  BY <1>1, <1>2, ReturnsKeeps
<1>5. MediumType'
  BY <1>1 DEF MediumType, StopJob
<1>6. /\ discovering' = FALSE /\ told' = [d \in Devices |-> None]
      /\ UNCHANGED <<discovered_endpoints, found_ble_endpoints, sources>>
  BY DEF StopJob
<1>7. told' \in ToldType
  BY <1>6 DEF ToldType
<1>8. HandlerType'
  BY <1>1, <1>6, <1>7 DEF HandlerInv, HandlerType
<1>9. HandlerInv'
  BY <1>6, <1>8 DEF HandlerInv
<1> QED BY <1>3, <1>4, <1>5, <1>9 DEF ListedInv

\* InjectEndpoint hands its device on,
LEMMA InjectKeeps ==
  ASSUME ListedInv, InjectJob
  PROVE  ListedInv'
<1> DEFINE x == [op |-> "injected", dev |-> Head(queue).dev, info |-> Head(queue).info]
<1>1. AirType /\ MediumType /\ CallInv /\ HandlerInv
  BY DEF ListedInv
<1>2. queue # <<>> /\ Head(queue).op = "inject" /\ Head(queue).op \in ApiOps
  BY DEF InjectJob, Runs, ApiOps
<1>3. AirType' /\ MediumType' /\ HandlerInv'
  BY <1>1 DEF InjectJob, AirType, MediumType, HandlerInv, HandlerType, State, airVars, mediumVars, handlerVars
<1>4. x \in Jobs
  BY <1>2, HeadJob, JobFacts
<1>5. x.op \notin ApiOps
  BY DEF ApiOps
<1>6. /\ queue' = Append(Tail(queue), x) /\ calling' = FALSE
      /\ calls' = calls /\ discovering' = discovering
  BY DEF InjectJob, handlerVars
<1> HIDE DEF x
<1>7. QueueInv(Append(Tail(queue), x), FALSE, discovering)
  BY <1>1, <1>2, <1>4, <1>5, InjectRun DEF CallInv
<1>8. QueueInv(queue', calling', discovering')
  BY <1>6, <1>7
<1>9. calling' \in BOOLEAN
  BY <1>6, Zenon
<1>10. calls' \in 0 .. MaxCalls
  BY <1>1, <1>6 DEF CallInv, CallType
<1> QED BY <1>3, <1>8, <1>9, <1>10, Zenon DEF ListedInv, CallInv, CallType

\* and RequestConnection appends entries to those of the endpoint.
LEMMA RequestKeeps ==
  ASSUME ListedInv, RequestJob
  PROVE  ListedInv'
<1> DEFINE d    == Head(queue).dev
           t    == IF Head(queue).mac THEN WithMac(discovered_endpoints, d) ELSE discovered_endpoints
           more == WithWebRtc(t, d)
<1>1. AirType /\ MediumType /\ CallInv /\ HandlerInv
  BY DEF ListedInv
<1>2. queue # <<>> /\ Head(queue).op = "request" /\ Head(queue).op \in ApiOps /\ Returns
  BY DEF RequestJob, Runs, ApiOps
<1>3. AirType' /\ MediumType'
  BY <1>1 DEF AirType, MediumType, RequestJob, airVars, mediumVars
<1>4. CallInv'
  BY <1>1, <1>2, ReturnsKeeps
<1>5. d \in Devices
  BY <1>2, HeadJob, JobFacts
<1>6. CASE EqualRange(discovered_endpoints, d) = {}
  <2>1. UNCHANGED handlerVars
    BY <1>6 DEF RequestJob
  <2>2. HandlerInv'
    BY <1>1, <2>1 DEF HandlerInv, HandlerType, State, handlerVars
  <2> QED BY <1>3, <1>4, <2>2 DEF ListedInv
<1>7. CASE EqualRange(discovered_endpoints, d) # {}
  <2>1. /\ discovered_endpoints' = more
        /\ sources' = sources \/ sources' = sources \cup {"MAC", "WEB_RTC"}
        /\ UNCHANGED <<discovering, told, found_ble_endpoints>>
    BY <1>7 DEF RequestJob
  <2>2. discovered_endpoints \in Seq(Entries) /\ Sorted(discovered_endpoints) /\ Has(discovered_endpoints, d)
    BY <1>1, <1>7, HasRange DEF HandlerInv, HandlerType
  <2> HIDE DEF d
  <2>3. t \in Seq(Entries) /\ Sorted(t) /\ \A e : Has(t, e) <=> Has(discovered_endpoints, e)
    <3>1. CASE Head(queue).mac
      BY <1>5, <2>2, <3>1, AppendedFacts
    <3>2. CASE ~Head(queue).mac
      BY <2>2, <3>2
    <3> QED BY <3>1, <3>2
  <2>4. Has(t, d)
    BY <2>2, <2>3
  <2> HIDE DEF t
  <2>5. more \in Seq(Entries) /\ Sorted(more) /\ \A e : Has(more, e) <=> Has(discovered_endpoints, e)
    BY <1>5, <2>3, <2>4, AppendedFacts
  <2> HIDE DEF more
  <2>6. sources' \subseteq Sources
    BY <1>1, <2>1 DEF HandlerInv, HandlerType, Sources
  <2>7. HandlerType'
    BY <1>1, <2>1, <2>5, <2>6 DEF HandlerInv, HandlerType
  <2>8. HandlerInv'
    <3>1. CASE discovering
      <4>1. \A e \in Devices : told[e] # None <=> Has(discovered_endpoints, e)
        BY <1>1, <3>1 DEF HandlerInv, Listed, State
      <4>2. \A e \in Devices : told'[e] # None <=> Has(discovered_endpoints', e)
        BY <2>1, <2>5, <4>1
      <4>3. Listed([table |-> discovered_endpoints', told |-> told'])
        BY <4>2 DEF Listed
      <4>4. Listed(State)'
        BY <4>3 DEF State
      <4> QED BY <2>1, <2>7, <3>1, <4>4 DEF HandlerInv
    <3>2. CASE ~discovering
      BY <1>1, <2>1, <2>7, <3>2 DEF HandlerInv
    <3> QED BY <3>1, <3>2
  <2> QED BY <1>3, <1>4, <2>8 DEF ListedInv
<1> QED BY <1>6, <1>7

\* What is found is an endpoint.
LEMMA EndpointFacts ==
  ASSUME NEW d \in Devices, NEW m \in AllMediums, NEW i \in Infos
  PROVE  /\ Endpoint(d, m, i) \in Endpoints /\ Endpoint(d, m, i).id = d
         /\ Endpoint(d, m, i).medium = m /\ Endpoint(d, m, i).info = i
<1>1. (d \in WebRtc) \in BOOLEAN
  OBVIOUS
<1> DEFINE b == d \in WebRtc
<1> HIDE DEF b
<1>2. b \in BOOLEAN
  BY <1>1 DEF b
<1>3. /\ [id |-> d, medium |-> m, info |-> i, rtc |-> b] \in Endpoints
      /\ [id |-> d, medium |-> m, info |-> i, rtc |-> b].id = d
      /\ [id |-> d, medium |-> m, info |-> i, rtc |-> b].medium = m
      /\ [id |-> d, medium |-> m, info |-> i, rtc |-> b].info = i
  BY <1>2 DEF Endpoints
<1> QED BY <1>3 DEF Endpoint, b

\* A job finds or loses something, and the reports are in step with the entries.
Reports(s) ==
  /\ discovering /\ s \in States /\ Listed(s) /\ Becomes(s)
  /\ UNCHANGED discovering /\ sources' \subseteq Sources
  /\ found_ble_endpoints' \in [Devices -> Infos \cup {None}]

\* Every such job keeps the invariant.
LEMMA JobKeeps ==
  ASSUME ListedInv, queue # <<>>, Done, UNCHANGED <<airVars, mediumVars>>,
         UNCHANGED handlerVars \/ \E s : Reports(s)
  PROVE  ListedInv'
<1>1. AirType /\ MediumType /\ CallInv /\ HandlerInv
  BY DEF ListedInv
<1>2. AirType' /\ MediumType'
  BY <1>1 DEF AirType, MediumType, airVars, mediumVars
<1>3. UNCHANGED discovering
  BY DEF handlerVars, Reports
<1>4. CallInv'
  BY <1>1, <1>3, DoneKeeps
<1>5. HandlerInv'
  <2>1. CASE UNCHANGED handlerVars
    BY <1>1, <2>1 DEF HandlerInv, HandlerType, State, handlerVars
  <2>2. ASSUME NEW s, Reports(s) PROVE HandlerInv'
    BY <1>1, <2>2, BecomesKeeps DEF Reports
  <2> QED BY <2>1, <2>2
<1> QED BY <1>2, <1>4, <1>5 DEF ListedInv

\* What is recognised is an info.
LEMMA ShownFacts == \A i \in Shown : i # Foreign => i \in Infos
  BY DEF Shown

\* The other variables of the handler.
LEMMA KeptFacts ==
  ASSUME HandlerInv
  PROVE  /\ found_ble_endpoints \in [Devices -> Infos \cup {None}] /\ sources \subseteq Sources
         /\ \A x \in Sources : sources \cup {x} \subseteq Sources
  BY DEF HandlerInv, HandlerType

\* The names of the sources.
LEMMA SourceNames ==
  {"BLUETOOTH", "BLE", "WIFI_LAN", "MAC", "WEB_RTC", "INJECTED", "REUSED"} \subseteq Sources
  BY DEF Sources, AllMediums

\* The job of BluetoothDeviceDiscoveredHandler keeps the invariant,
LEMMA BluetoothFoundKeeps ==
  ASSUME ListedInv, BluetoothFoundJob
  PROVE  ListedInv'
<1> DEFINE d == Head(queue).dev
           i == IF Head(queue).op = "injected" THEN Head(queue).info ELSE name[d]
           s == EndpointFound(State, Endpoint(d, "BLUETOOTH", i))
           x == IF Head(queue).op = "injected" THEN "INJECTED" ELSE "BLUETOOTH"
<1>1. AirType /\ HandlerInv
  BY DEF ListedInv
<1>2. queue # <<>> /\ Head(queue).op \in {"bt_found", "injected"} /\ Done /\ UNCHANGED <<airVars, mediumVars>>
  BY DEF BluetoothFoundJob, Runs
<1>3. d \in Devices /\ i \in Shown
  <2>1. d \in Devices /\ (Head(queue).op = "injected" => Head(queue).info \in Infos)
    BY <1>2, HeadJob, JobFacts
  <2> QED BY <1>1, <2>1 DEF AirType, Shown
<1>4. CASE ~discovering \/ i = Foreign
  <2>1. UNCHANGED handlerVars
    BY <1>4 DEF BluetoothFoundJob
  <2> QED BY <1>2, <2>1, JobKeeps
<1>5. CASE discovering /\ i # Foreign
  <2>1. Becomes(s) /\ sources' = sources \cup {x} /\ UNCHANGED <<discovering, found_ble_endpoints>>
    BY <1>5 DEF BluetoothFoundJob
  <2>2. x \in Sources
    BY SourceNames
  <2> HIDE DEF x, i, d
  <2>3. Endpoint(d, "BLUETOOTH", i) \in Endpoints
    BY <1>3, <1>5, ShownFacts, EndpointFacts, MediumNames
  <2>4. s \in States /\ Listed(s)
    BY <1>1, <1>5, <2>3, HandlerState, FoundKeeps
  <2> HIDE DEF s
  <2>5. Reports(s)
    BY <1>1, <1>5, <2>1, <2>2, <2>4, KeptFacts DEF Reports
  <2> QED BY <1>2, <2>5, JobKeeps
<1> QED BY <1>4, <1>5

\* and so do those of BluetoothNameChangedHandler,
LEMMA BluetoothChangedKeeps ==
  ASSUME ListedInv, BluetoothChangedJob
  PROVE  ListedInv'
<1> DEFINE d    == Head(queue).dev
           mine == OfDevice(discovered_endpoints, d)
           k    == CHOOSE i \in mine : \A j \in mine : i <= j
           lost == IF mine = {} THEN State ELSE EndpointLost(State, Value(discovered_endpoints[k]))
           s    == IF name[d] = Foreign THEN lost
                   ELSE EndpointFound(lost, Endpoint(d, "BLUETOOTH", name[d]))
<1>1. AirType /\ HandlerInv
  BY DEF ListedInv
<1>2. queue # <<>> /\ Head(queue).op = "bt_changed" /\ Done /\ UNCHANGED <<airVars, mediumVars>>
  BY DEF BluetoothChangedJob, Runs
<1>3. d \in Devices /\ name[d] \in Shown
  <2>1. d \in Devices
    BY <1>2, HeadJob, JobFacts
  <2> QED BY <1>1, <2>1 DEF AirType
<1>4. CASE ~discovering
  <2>1. UNCHANGED handlerVars
    BY <1>4 DEF BluetoothChangedJob
  <2> QED BY <1>2, <2>1, JobKeeps
<1>5. CASE discovering
  <2>1. Becomes(s) /\ sources' = sources \cup {"BLUETOOTH"} /\ UNCHANGED <<discovering, found_ble_endpoints>>
    BY <1>5 DEF BluetoothChangedJob
  <2>2. discovered_endpoints \in Seq(Entries)
    BY <1>1 DEF HandlerInv, HandlerType
  <2>3. State \in States /\ Listed(State)
    BY <1>1, <1>5, HandlerState
  <2> HIDE DEF d
  <2>4. lost \in States /\ Listed(lost)
    <3>1. CASE mine = {}
      BY <2>3, <3>1
    <3>2. CASE mine # {}
      <4>1. mine \in SUBSET Nat /\ mine \subseteq DOMAIN discovered_endpoints
        BY <2>2, TableFacts DEF OfDevice
      <4> HIDE DEF mine
      <4>2. \E m \in mine : \A j \in mine : m <= j
        BY <3>2, <4>1, Least
      <4>3. k \in mine
        BY <4>2, Zenon
      <4> HIDE DEF k
      <4>4. Value(discovered_endpoints[k]) \in Endpoints
        BY <2>2, <4>1, <4>3, TableFacts, EntryFacts
      <4>5. Value(discovered_endpoints[k]).id \in Devices
        BY <4>4, EntryFacts
      <4> QED BY <2>3, <3>2, <4>5, LostKeeps
    <3> QED BY <3>1, <3>2
  <2> HIDE DEF mine, k, lost
  <2>5. s \in States /\ Listed(s)
    <3>1. CASE name[d] = Foreign
      BY <2>4, <3>1
    <3>2. CASE name[d] # Foreign
      <4>1. name[d] \in Infos
        BY <1>3, <3>2, ShownFacts
      <4>2. Endpoint(d, "BLUETOOTH", name[d]) \in Endpoints
        BY <1>3, <4>1, EndpointFacts, MediumNames
      <4> QED BY <2>4, <3>2, <4>2, FoundKeeps
    <3> QED BY <3>1, <3>2
  <2> HIDE DEF s
  <2>6. Reports(s)
    BY <1>1, <1>5, <2>1, <2>5, KeptFacts, SourceNames DEF Reports
  <2> QED BY <1>2, <2>6, JobKeeps
<1> QED BY <1>4, <1>5

\* BluetoothDeviceLostHandler and WifiLanServiceLostHandler,
LEMMA LostJobKeeps ==
  ASSUME ListedInv, LostJob
  PROVE  ListedInv'
<1> DEFINE d == Head(queue).dev
           i == Head(queue).info
           s == EndpointLost(State, [id |-> d, info |-> i])
           x == IF Head(queue).op = "bt_lost" THEN "BLUETOOTH" ELSE "WIFI_LAN"
<1>1. HandlerInv
  BY DEF ListedInv
<1>2. queue # <<>> /\ Head(queue).op \in {"bt_lost", "wifi_lost"} /\ Done /\ UNCHANGED <<airVars, mediumVars>>
  BY DEF LostJob, Runs
<1>3. d \in Devices
  BY <1>2, HeadJob, JobFacts
<1>4. CASE ~discovering \/ i = Foreign
  <2>1. UNCHANGED handlerVars
    BY <1>4 DEF LostJob
  <2> QED BY <1>2, <2>1, JobKeeps
<1>5. CASE discovering /\ i # Foreign
  <2>1. Becomes(s) /\ sources' = sources \cup {x} /\ UNCHANGED <<discovering, found_ble_endpoints>>
    BY <1>5 DEF LostJob
  <2>2. x \in Sources
    BY SourceNames
  <2> HIDE DEF x, i, d
  <2>3. [id |-> d, info |-> i].id \in Devices
    BY <1>3
  <2>4. s \in States /\ Listed(s)
    BY <1>1, <1>5, <2>3, HandlerState, LostKeeps
  <2> HIDE DEF s
  <2>5. Reports(s)
    BY <1>1, <1>5, <2>1, <2>2, <2>4, KeptFacts DEF Reports
  <2> QED BY <1>2, <2>5, JobKeeps
<1> QED BY <1>4, <1>5

\* BlePeripheralDiscoveredHandler,
LEMMA BleFoundKeeps ==
  ASSUME ListedInv, BleFoundJob
  PROVE  ListedInv'
<1> DEFINE d   == Head(queue).dev
           i   == Head(queue).info
           ble == EndpointFound(State, Endpoint(d, "BLE", i))
           s   == IF d \in Macs THEN EndpointFound(ble, Endpoint(d, "BLUETOOTH", i)) ELSE ble
<1>1. HandlerInv
  BY DEF ListedInv
<1>2. queue # <<>> /\ Head(queue).op = "ble_found" /\ Done /\ UNCHANGED <<airVars, mediumVars>>
  BY DEF BleFoundJob, Runs
<1>3. d \in Devices /\ i \in Shown
  BY <1>2, HeadJob, JobFacts
<1>4. CASE ~discovering \/ i = Foreign
  <2>1. UNCHANGED handlerVars
    BY <1>4 DEF BleFoundJob
  <2> QED BY <1>2, <2>1, JobKeeps
<1>5. CASE discovering /\ i # Foreign
  <2>1. /\ Becomes(s) /\ UNCHANGED discovering
        /\ sources' = sources \cup {"BLE", "MAC"} \/ sources' = sources \cup {"BLE"}
        /\ \/ found_ble_endpoints' = found_ble_endpoints
           \/ found_ble_endpoints' = [found_ble_endpoints EXCEPT ![d] = i]
    BY <1>5 DEF BleFoundJob
  <2> HIDE DEF i, d
  <2>2. i \in Infos
    BY <1>3, <1>5, ShownFacts
  <2>3. Endpoint(d, "BLE", i) \in Endpoints /\ Endpoint(d, "BLUETOOTH", i) \in Endpoints
    BY <1>3, <2>2, EndpointFacts, MediumNames
  <2>4. ble \in States /\ Listed(ble)
    BY <1>1, <1>5, <2>3, HandlerState, FoundKeeps
  <2> HIDE DEF ble
  <2>5. s \in States /\ Listed(s)
    BY <2>3, <2>4, FoundKeeps
  <2> HIDE DEF s
  <2>6. sources' \subseteq Sources
    BY <1>1, <2>1, KeptFacts, SourceNames
  <2>7. found_ble_endpoints' \in [Devices -> Infos \cup {None}]
    BY <1>1, <1>3, <2>1, <2>2, KeptFacts
  <2>8. Reports(s)
    BY <1>5, <2>1, <2>5, <2>6, <2>7 DEF Reports
  <2> QED BY <1>2, <2>8, JobKeeps
<1> QED BY <1>4, <1>5

\* BlePeripheralLostHandler,
LEMMA BleLostKeeps ==
  ASSUME ListedInv, BleLostJob
  PROVE  ListedInv'
<1> DEFINE d == Head(queue).dev
           s == EndpointLost(State, [id |-> d, info |-> found_ble_endpoints[d]])
<1>1. HandlerInv
  BY DEF ListedInv
<1>2. queue # <<>> /\ Head(queue).op = "ble_lost" /\ Done /\ UNCHANGED <<airVars, mediumVars>>
  BY DEF BleLostJob, Runs
<1>3. d \in Devices
  BY <1>2, HeadJob, JobFacts
<1>4. CASE ~discovering \/ found_ble_endpoints[d] = None
  <2>1. UNCHANGED handlerVars
    BY <1>4 DEF BleLostJob
  <2> QED BY <1>2, <2>1, JobKeeps
<1>5. CASE discovering /\ found_ble_endpoints[d] # None
  <2>1. /\ Becomes(s) /\ UNCHANGED discovering /\ sources' = sources \cup {"BLE"}
        /\ found_ble_endpoints' = [found_ble_endpoints EXCEPT ![d] = None]
    BY <1>5 DEF BleLostJob
  <2> HIDE DEF d
  <2>2. [id |-> d, info |-> found_ble_endpoints[d]].id \in Devices
    BY <1>3
  <2>3. s \in States /\ Listed(s)
    BY <1>1, <1>5, <2>2, HandlerState, LostKeeps
  <2> HIDE DEF s
  <2>4. sources' \subseteq Sources
    BY <1>1, <2>1, KeptFacts, SourceNames
  <2>5. found_ble_endpoints' \in [Devices -> Infos \cup {None}]
    BY <1>1, <1>3, <2>1, KeptFacts
  <2>6. Reports(s)
    BY <1>5, <2>1, <2>3, <2>4, <2>5 DEF Reports
  <2> QED BY <1>2, <2>6, JobKeeps
<1> QED BY <1>4, <1>5

\* and WifiLanServiceDiscoveredHandler.
LEMMA WifiLanFoundKeeps ==
  ASSUME ListedInv, WifiLanFoundJob
  PROVE  ListedInv'
<1> DEFINE d == Head(queue).dev
           i == Head(queue).info
           s == EndpointFound(State, Endpoint(d, "WIFI_LAN", i))
<1>1. HandlerInv
  BY DEF ListedInv
<1>2. queue # <<>> /\ Head(queue).op = "wifi_found" /\ Done /\ UNCHANGED <<airVars, mediumVars>>
  BY DEF WifiLanFoundJob, Runs
<1>3. d \in Devices /\ i \in Shown
  BY <1>2, HeadJob, JobFacts
<1>4. CASE ~discovering \/ i = Foreign
  <2>1. UNCHANGED handlerVars
    BY <1>4 DEF WifiLanFoundJob
  <2> QED BY <1>2, <2>1, JobKeeps
<1>5. CASE discovering /\ i # Foreign
  <2>1. /\ Becomes(s) /\ sources' = sources \cup {"WIFI_LAN"}
        /\ UNCHANGED <<discovering, found_ble_endpoints>>
    BY <1>5 DEF WifiLanFoundJob
  <2> HIDE DEF i, d
  <2>2. Endpoint(d, "WIFI_LAN", i) \in Endpoints
    BY <1>3, <1>5, ShownFacts, EndpointFacts, MediumNames
  <2>3. s \in States /\ Listed(s)
    BY <1>1, <1>5, <2>2, HandlerState, FoundKeeps
  <2> HIDE DEF s
  <2>4. Reports(s)
    BY <1>1, <1>5, <2>1, <2>3, KeptFacts, SourceNames DEF Reports
  <2> QED BY <1>2, <2>4, JobKeeps
<1> QED BY <1>4, <1>5

\* Every step keeps the invariant.
LEMMA ListedNext == ListedInv /\ [Next]_vars => ListedInv'
<1> SUFFICES ASSUME ListedInv, [Next]_vars PROVE ListedInv'
  OBVIOUS
<1>1. CASE Next
  BY <1>1, MediumStep, ApiStep, StartKeeps, StopKeeps, InjectKeeps, RequestKeeps, BluetoothFoundKeeps,
     BluetoothChangedKeeps, LostJobKeeps, BleFoundKeeps, BleLostKeeps, WifiLanFoundKeeps DEF Next
<1>2. CASE UNCHANGED vars
  BY <1>2 DEF vars, airVars, mediumVars, handlerVars, ListedInv, AirType, MediumType, CallInv, CallType,
     HandlerInv, HandlerType, State
<1> QED BY <1>1, <1>2

\* The invariant holds always: the types, one API job at a time, and reports in step with the
\* entries.
THEOREM ListedAlways == Spec => []ListedInv
<1>1. Init => ListedInv
  BY ListedInit
<1>2. ListedInv /\ [Next]_vars => ListedInv'
  BY ListedNext
<1> QED BY <1>1, <1>2, PTL DEF Spec

\* All variables keep their types: in particular discovered_endpoints_ stays in the order of
\* its keys through every assignment to a slot that may have moved, and no more jobs wait than
\* the callbacks and one API call have posted.
THEOREM TypeCorrect == Spec => []TypeOK
<1>1. ListedInv => TypeOK
  BY ListedImplies
<1> QED BY <1>1, ListedAlways, PTL

\* For any number of devices and any order of found, changed and lost events of the mediums,
\* injected endpoints, requests and discoveries: between two jobs, the application has been
\* told of an endpoint exactly if discovered_endpoints_ has an entry for it.
THEOREM ReportedHasEntry == Spec => []FoundHasEntry
<1>1. ListedInv => FoundHasEntry
  BY ListedImplies
<1> QED BY <1>1, ListedAlways, PTL

----------------------------------------------------------------------------
(* The jobs of one device *)

\* A job of device d that takes the name it has when the job runs,
Fresh(x, d) == x.op \in {"bt_found", "bt_changed"} /\ x.dev = d
\* one that reports its loss with the name it had,
Gone(x, d) == x.op = "bt_lost" /\ x.dev = d
\* and one that is not about the device on Bluetooth.
Else(x, d) == ~Fresh(x, d) /\ ~Gone(x, d)
\* What the client knows of a device of that name.
KnownAs(i) == IF i = Foreign THEN None ELSE i

\* Between two losses the device was seen again, and what follows a job that found or renamed
\* it is a renaming, if it is not a loss.
Aligned(q, d) ==
  /\ \A i, j \in DOMAIN q : i < j /\ Gone(q[i], d) /\ Gone(q[j], d) =>
       \E k \in DOMAIN q : i < k /\ k < j /\ Fresh(q[k], d)
  /\ \A i, j \in DOMAIN q : i < j /\ Fresh(q[i], d) /\ Fresh(q[j], d) => q[j].op = "bt_changed"
\* A device that was lost behind such a job is not back, and has its last name still.
Away(q, d, shown, called, bt) ==
  \A i, j \in DOMAIN q :
    i < j /\ Fresh(q[i], d) /\ Gone(q[j], d) => shown = None /\ called = q[j].info /\ d \notin bt
\* A device in devices_ was seen after it was lost, and one that is not was lost after it was
\* seen.
Ends(q, d, bt) ==
  /\ d \in bt => \A i \in DOMAIN q : Gone(q[i], d) => \E j \in DOMAIN q : i < j /\ Fresh(q[j], d)
  /\ d \notin bt => \A i \in DOMAIN q : Fresh(q[i], d) => \E j \in DOMAIN q : i < j /\ Gone(q[j], d)
\* What the client knows: the name of a loss that is run first, nothing if the device is found
\* first, and exactly what there is if no job waits.
Believed(q, d, called, bt, known) ==
  /\ \A i \in DOMAIN q : Gone(q[i], d) /\ (\A j \in DOMAIN q : j < i => ~Fresh(q[j], d)) =>
       known = KnownAs(q[i].info)
  /\ \A i \in DOMAIN q : q[i].op = "bt_found" /\ q[i].dev = d =>
       known = None \/ \E j \in DOMAIN q : j < i /\ Gone(q[j], d)
  /\ (\A i \in DOMAIN q : Else(q[i], d)) =>
       known = IF d \in bt THEN KnownAs(called) ELSE None
\* The client is behind by the jobs of q, for device d, which shows "shown" and is named
\* "called", bt being devices_ and "known" what the client knows.
Behind(q, d, shown, called, bt, known) ==
  Aligned(q, d) /\ Away(q, d, shown, called, bt) /\ Ends(q, d, bt) /\ Believed(q, d, called, bt, known)

\* r is q with x in place n at its end,
Longer(q, r, x, n) ==
  /\ n \in Nat /\ n \in DOMAIN r /\ r[n] = x
  /\ \A i \in DOMAIN q : i \in Nat /\ i < n /\ i \in DOMAIN r /\ r[i] = q[i]
  /\ \A i \in DOMAIN r : i \in Nat /\ (i = n \/ (i < n /\ i \in DOMAIN q /\ r[i] = q[i]))

\* and r is q without its first job.
Shorter(q, r) ==
  /\ 1 \in DOMAIN q /\ \A i \in DOMAIN q : i \in Nat /\ (i = 1 \/ (i > 1 /\ i - 1 \in DOMAIN r))
  /\ \A i \in DOMAIN r : i \in Nat /\ i + 1 \in DOMAIN q /\ i + 1 > 1 /\ r[i] = q[i + 1]

\* A job that is posted makes the queue longer,
LEMMA LongerQueue ==
  ASSUME NEW q \in Seq(Jobs), NEW x \in Jobs
  PROVE  Longer(q, Append(q, x), x, Len(q) + 1)
<1> DEFINE r == Append(q, x)
<1>1. /\ Len(q) \in Nat
      /\ DOMAIN q = 1 .. Len(q) /\ DOMAIN r = 1 .. Len(q) + 1
      /\ \A i \in 1 .. Len(q) : r[i] = q[i]
      /\ r[Len(q) + 1] = x
  BY AppendFacts
<1> HIDE DEF r
<1>2. Len(q) + 1 \in Nat /\ Len(q) + 1 \in DOMAIN r
  BY <1>1
<1>3. \A i \in DOMAIN q : i \in Nat /\ i < Len(q) + 1 /\ i \in DOMAIN r /\ r[i] = q[i]
  BY <1>1
<1>4. \A i \in DOMAIN r : i \in Nat /\ (i = Len(q) + 1 \/ (i < Len(q) + 1 /\ i \in DOMAIN q /\ r[i] = q[i]))
  BY <1>1
<1> QED BY <1>1, <1>2, <1>3, <1>4 DEF Longer, r

\* and one that is run makes it shorter.
LEMMA ShorterQueue ==
  ASSUME NEW q \in Seq(Jobs), q # <<>>
  PROVE  Shorter(q, Tail(q)) /\ Head(q) = q[1]
<1> DEFINE r == Tail(q)
<1>1. /\ Len(q) \in Nat \ {0} /\ DOMAIN q = 1 .. Len(q) /\ DOMAIN r = 1 .. Len(q) - 1
      /\ \A i \in 1 .. Len(q) - 1 : r[i] = q[i + 1]
      /\ Head(q) = q[1]
  BY TailFacts
<1> HIDE DEF r
<1>2. 1 \in DOMAIN q /\ \A i \in DOMAIN q : i \in Nat /\ (i = 1 \/ (i > 1 /\ i - 1 \in DOMAIN r))
  BY <1>1
<1>3. \A i \in DOMAIN r : i \in Nat /\ i + 1 \in DOMAIN q /\ i + 1 > 1 /\ r[i] = q[i + 1]
  BY <1>1
<1> QED BY <1>1, <1>2, <1>3 DEF Shorter, r

\* Other devices in devices_ do not matter,
LEMMA BehindSame ==
  ASSUME NEW q, NEW d, NEW shown, NEW called, NEW bt, NEW known, NEW b2,
         Behind(q, d, shown, called, bt, known), d \in bt <=> d \in b2
  PROVE  Behind(q, d, shown, called, b2, known)
<1>1. Away(q, d, shown, called, b2)
  BY DEF Behind, Away
<1>2. Ends(q, d, b2)
  BY DEF Behind, Ends
<1>3. Believed(q, d, called, b2, known)
  BY DEF Behind, Believed
<1> QED BY <1>1, <1>2, <1>3 DEF Behind

\* nor do jobs that are about something else,
LEMMA BehindElsePosted ==
  ASSUME NEW q, NEW d, NEW shown, NEW called, NEW bt, NEW known, NEW r, NEW x, NEW n,
         Behind(q, d, shown, called, bt, known), Longer(q, r, x, n), Else(x, d)
  PROVE  Behind(r, d, shown, called, bt, known)
<1>1. \A i \in DOMAIN r : Fresh(r[i], d) \/ Gone(r[i], d) => i \in DOMAIN q /\ r[i] = q[i]
  BY DEF Longer, Else
<1>2. \A i \in DOMAIN q : i \in DOMAIN r /\ r[i] = q[i]
  BY DEF Longer
<1>3. Aligned(r, d)
  <2>1. ASSUME NEW i \in DOMAIN r, NEW j \in DOMAIN r, i < j, Gone(r[i], d), Gone(r[j], d)
        PROVE  \E k \in DOMAIN r : i < k /\ k < j /\ Fresh(r[k], d)
    <3>1. i \in DOMAIN q /\ j \in DOMAIN q /\ r[i] = q[i] /\ r[j] = q[j]
      BY <1>1, <2>1
    <3>2. PICK k \in DOMAIN q : i < k /\ k < j /\ Fresh(q[k], d)
      BY <2>1, <3>1 DEF Behind, Aligned
    <3>3. k \in DOMAIN r /\ r[k] = q[k]
      BY <1>2
    <3> QED BY <3>2, <3>3
  <2>2. ASSUME NEW i \in DOMAIN r, NEW j \in DOMAIN r, i < j, Fresh(r[i], d), Fresh(r[j], d)
        PROVE  r[j].op = "bt_changed"
    <3>1. i \in DOMAIN q /\ j \in DOMAIN q /\ r[i] = q[i] /\ r[j] = q[j]
      BY <1>1, <2>2
    <3> QED BY <2>2, <3>1 DEF Behind, Aligned
  <2> QED BY <2>1, <2>2 DEF Aligned
<1>4. Away(r, d, shown, called, bt)
  <2>1. ASSUME NEW i \in DOMAIN r, NEW j \in DOMAIN r, i < j, Fresh(r[i], d), Gone(r[j], d)
        PROVE  shown = None /\ called = r[j].info /\ d \notin bt
    <3>1. i \in DOMAIN q /\ j \in DOMAIN q /\ r[i] = q[i] /\ r[j] = q[j]
      BY <1>1, <2>1
    <3> QED BY <2>1, <3>1 DEF Behind, Away
  <2> QED BY <2>1 DEF Away
<1>5. Ends(r, d, bt)
  <2>1. ASSUME NEW i \in DOMAIN r, d \in bt, Gone(r[i], d)
        PROVE  \E j \in DOMAIN r : i < j /\ Fresh(r[j], d)
    <3>1. i \in DOMAIN q /\ r[i] = q[i]
      BY <1>1, <2>1
    <3>2. PICK j \in DOMAIN q : i < j /\ Fresh(q[j], d)
      BY <2>1, <3>1 DEF Behind, Ends
    <3> QED BY <1>2, <3>2
  <2>2. ASSUME NEW i \in DOMAIN r, d \notin bt, Fresh(r[i], d)
        PROVE  \E j \in DOMAIN r : i < j /\ Gone(r[j], d)
    <3>1. i \in DOMAIN q /\ r[i] = q[i]
      BY <1>1, <2>2
    <3>2. PICK j \in DOMAIN q : i < j /\ Gone(q[j], d)
      BY <2>2, <3>1 DEF Behind, Ends
    <3> QED BY <1>2, <3>2
  <2> QED BY <2>1, <2>2 DEF Ends
<1>6. Believed(r, d, called, bt, known)
  <2>1. ASSUME NEW i \in DOMAIN r, Gone(r[i], d), \A j \in DOMAIN r : j < i => ~Fresh(r[j], d)
        PROVE  known = KnownAs(r[i].info)
    <3>1. i \in DOMAIN q /\ r[i] = q[i]
      BY <1>1, <2>1
    <3>2. \A j \in DOMAIN q : j < i => ~Fresh(q[j], d)
      BY <1>2, <2>1
    <3> QED BY <2>1, <3>1, <3>2 DEF Behind, Believed
  <2>2. ASSUME NEW i \in DOMAIN r, r[i].op = "bt_found", r[i].dev = d
        PROVE  known = None \/ \E j \in DOMAIN r : j < i /\ Gone(r[j], d)
    <3>1. i \in DOMAIN q /\ r[i] = q[i]
      BY <1>1, <2>2 DEF Fresh
    <3>2. known = None \/ \E j \in DOMAIN q : j < i /\ Gone(q[j], d)
      BY <2>2, <3>1 DEF Behind, Believed
    <3> QED BY <1>2, <3>2
  <2>3. ASSUME \A i \in DOMAIN r : Else(r[i], d)
        PROVE  known = IF d \in bt THEN KnownAs(called) ELSE None
    <3>1. \A i \in DOMAIN q : Else(q[i], d)
      BY <1>2, <2>3
    <3> QED BY <3>1 DEF Behind, Believed
  <2> QED BY <2>1, <2>2, <2>3 DEF Believed
<1> QED BY <1>3, <1>4, <1>5, <1>6 DEF Behind

\* The order of the jobs is kept when the first is run,
LEMMA BehindRun ==
  ASSUME NEW q, NEW d, NEW shown, NEW called, NEW bt, NEW known, NEW r,
         Behind(q, d, shown, called, bt, known), Shorter(q, r)
  PROVE  Aligned(r, d) /\ Away(r, d, shown, called, bt) /\ Ends(r, d, bt)
<1>1. \A i \in DOMAIN r : i \in Nat /\ i + 1 \in DOMAIN q /\ i + 1 > 1 /\ r[i] = q[i + 1]
  BY DEF Shorter
<1>2. ASSUME NEW i \in DOMAIN r, NEW j \in DOMAIN q, i + 1 < j
      PROVE  j \in Nat /\ j - 1 \in DOMAIN r /\ r[j - 1] = q[j]
  <2>1. j \in Nat /\ j - 1 \in DOMAIN r /\ (j - 1) + 1 = j
    BY <1>1, <1>2 DEF Shorter
  <2> QED BY <1>1, <2>1
<1>3. Aligned(r, d)
  <2>1. ASSUME NEW i \in DOMAIN r, NEW j \in DOMAIN r, i < j, Gone(r[i], d), Gone(r[j], d)
        PROVE  \E k \in DOMAIN r : i < k /\ k < j /\ Fresh(r[k], d)
    <3>1. i + 1 < j + 1
      BY <1>1, <2>1
    <3>2. PICK k \in DOMAIN q : i + 1 < k /\ k < j + 1 /\ Fresh(q[k], d)
      BY <1>1, <2>1, <3>1 DEF Behind, Aligned
    <3>3. k \in Nat /\ k - 1 \in DOMAIN r /\ r[k - 1] = q[k]
      BY <1>1, <1>2, <3>2
    <3>4. i < k - 1 /\ k - 1 < j
      BY <1>1, <3>2, <3>3
    <3> QED BY <3>2, <3>3, <3>4
  <2>2. ASSUME NEW i \in DOMAIN r, NEW j \in DOMAIN r, i < j, Fresh(r[i], d), Fresh(r[j], d)
        PROVE  r[j].op = "bt_changed"
    <3>1. i + 1 < j + 1
      BY <1>1, <2>2
    <3> QED BY <1>1, <2>2, <3>1 DEF Behind, Aligned
  <2> QED BY <2>1, <2>2 DEF Aligned
<1>4. Away(r, d, shown, called, bt)
  <2>1. ASSUME NEW i \in DOMAIN r, NEW j \in DOMAIN r, i < j, Fresh(r[i], d), Gone(r[j], d)
        PROVE  shown = None /\ called = r[j].info /\ d \notin bt
    <3>1. i + 1 < j + 1
      BY <1>1, <2>1
    <3> QED BY <1>1, <2>1, <3>1 DEF Behind, Away
  <2> QED BY <2>1 DEF Away
<1>5. Ends(r, d, bt)
  <2>1. ASSUME NEW i \in DOMAIN r, d \in bt, Gone(r[i], d)
        PROVE  \E j \in DOMAIN r : i < j /\ Fresh(r[j], d)
    <3>1. PICK j \in DOMAIN q : i + 1 < j /\ Fresh(q[j], d)
      BY <1>1, <2>1 DEF Behind, Ends
    <3>2. j \in Nat /\ j - 1 \in DOMAIN r /\ r[j - 1] = q[j]
      BY <1>1, <1>2, <3>1
    <3>3. i < j - 1
      BY <1>1, <3>1, <3>2
    <3> QED BY <3>1, <3>2, <3>3
  <2>2. ASSUME NEW i \in DOMAIN r, d \notin bt, Fresh(r[i], d)
        PROVE  \E j \in DOMAIN r : i < j /\ Gone(r[j], d)
    <3>1. PICK j \in DOMAIN q : i + 1 < j /\ Gone(q[j], d)
      BY <1>1, <2>2 DEF Behind, Ends
    <3>2. j \in Nat /\ j - 1 \in DOMAIN r /\ r[j - 1] = q[j]
      BY <1>1, <1>2, <3>1
    <3>3. i < j - 1
      BY <1>1, <3>1, <3>2
    <3> QED BY <3>1, <3>2, <3>3
  <2> QED BY <2>1, <2>2 DEF Ends
<1> QED BY <1>3, <1>4, <1>5

\* and nothing else changes when it is about something else.
LEMMA BehindElseRun ==
  ASSUME NEW q, NEW d, NEW shown, NEW called, NEW bt, NEW known, NEW r,
         Behind(q, d, shown, called, bt, known), Shorter(q, r), Else(q[1], d)
  PROVE  Behind(r, d, shown, called, bt, known)
<1>1. \A i \in DOMAIN r : i \in Nat /\ i + 1 \in DOMAIN q /\ r[i] = q[i + 1]
  BY DEF Shorter
<1>2. ASSUME NEW i \in DOMAIN q, ~Else(q[i], d)
      PROVE  i \in Nat /\ i - 1 \in DOMAIN r /\ r[i - 1] = q[i]
  <2>1. i \in Nat /\ i - 1 \in DOMAIN r /\ (i - 1) + 1 = i
    BY <1>2 DEF Shorter
  <2> QED BY <1>1, <2>1
<1>3. Aligned(r, d) /\ Away(r, d, shown, called, bt) /\ Ends(r, d, bt)
  BY BehindRun
<1>6. Believed(r, d, called, bt, known)
  <2>1. ASSUME NEW i \in DOMAIN r, Gone(r[i], d), \A j \in DOMAIN r : j < i => ~Fresh(r[j], d)
        PROVE  known = KnownAs(r[i].info)
    <3>1. ASSUME NEW j \in DOMAIN q, j < i + 1, Fresh(q[j], d) PROVE FALSE
      <4>1. j \in Nat /\ j - 1 \in DOMAIN r /\ r[j - 1] = q[j]
        BY <1>2, <3>1 DEF Else
      <4>2. j - 1 < i
        BY <1>1, <3>1, <4>1
      <4> QED BY <2>1, <3>1, <4>1, <4>2
    <3> QED BY <1>1, <2>1, <3>1 DEF Behind, Believed
  <2>2. ASSUME NEW i \in DOMAIN r, r[i].op = "bt_found", r[i].dev = d
        PROVE  known = None \/ \E j \in DOMAIN r : j < i /\ Gone(r[j], d)
    <3>1. known = None \/ \E j \in DOMAIN q : j < i + 1 /\ Gone(q[j], d)
      BY <1>1, <2>2 DEF Behind, Believed
    <3>2. ASSUME NEW j \in DOMAIN q, j < i + 1, Gone(q[j], d) PROVE j - 1 \in DOMAIN r /\ j - 1 < i /\ Gone(r[j - 1], d)
      <4>1. j \in Nat /\ j - 1 \in DOMAIN r /\ r[j - 1] = q[j]
        BY <1>2, <3>2 DEF Else
      <4> QED BY <1>1, <3>2, <4>1
    <3> QED BY <3>1, <3>2
  <2>3. ASSUME \A i \in DOMAIN r : Else(r[i], d)
        PROVE  known = IF d \in bt THEN KnownAs(called) ELSE None
    <3>1. \A i \in DOMAIN q : Else(q[i], d)
      BY <1>2, <2>3
    <3> QED BY <3>1 DEF Behind, Believed
  <2> QED BY <2>1, <2>2, <2>3 DEF Believed
<1> QED BY <1>3, <1>6 DEF Behind

\* A device that shows itself and is not in devices_ has no job that will take its name,
LEMMA NoneFresh ==
  ASSUME NEW q, NEW d, NEW shown, NEW called, NEW bt, NEW known,
         Behind(q, d, shown, called, bt, known), shown # None, d \notin bt
  PROVE  \A i \in DOMAIN q : ~Fresh(q[i], d)
<1> SUFFICES ASSUME NEW i \in DOMAIN q, Fresh(q[i], d) PROVE FALSE
  OBVIOUS
<1>1. PICK j \in DOMAIN q : i < j /\ Gone(q[j], d)
  BY DEF Behind, Ends
<1> QED BY <1>1 DEF Behind, Away

\* so that it may show anything,
LEMMA BehindSeen ==
  ASSUME NEW q, NEW d, NEW shown, NEW called, NEW bt, NEW known, NEW shown2, NEW called2,
         Behind(q, d, shown, called, bt, known), d \notin bt,
         \A i \in DOMAIN q : ~Fresh(q[i], d)
  PROVE  Behind(q, d, shown2, called2, bt, known)
<1>1. Away(q, d, shown2, called2, bt)
  BY DEF Away
<1>2. Believed(q, d, called2, bt, known)
  BY DEF Behind, Believed
<1> QED BY <1>1, <1>2 DEF Behind

\* and be found again.
LEMMA BehindFound ==
  ASSUME NEW q, NEW d, NEW shown, NEW called, NEW bt, NEW known, NEW r, NEW x, NEW n, NEW b2,
         Behind(q, d, shown, called, bt, known), Longer(q, r, x, n),
         x.op = "bt_found", x.dev = d, shown # None, d \notin bt, d \in b2
  PROVE  Behind(r, d, shown, called, b2, known)
<1>0. \A i \in DOMAIN q : ~Fresh(q[i], d)
  BY NoneFresh
<1>1. n \in DOMAIN r /\ Fresh(r[n], d) /\ ~Gone(r[n], d)
  BY DEF Longer, Fresh, Gone
<1>2. \A i \in DOMAIN r : i = n \/ (i < n /\ i \in DOMAIN q /\ r[i] = q[i])
  BY DEF Longer
<1>3. \A i \in DOMAIN q : i < n /\ i \in DOMAIN r /\ r[i] = q[i]
  BY DEF Longer
<1>4. \A i, j \in DOMAIN r : i < j => i # n /\ i \in DOMAIN q /\ r[i] = q[i]
  <2> SUFFICES ASSUME NEW i \in DOMAIN r, NEW j \in DOMAIN r, i < j PROVE i # n
    BY <1>2
  <2>1. i \in Nat /\ j \in Nat /\ n \in Nat
    BY DEF Longer
  <2> QED BY <1>2, <2>1
<1>5. Aligned(r, d)
  <2>1. ASSUME NEW i \in DOMAIN r, NEW j \in DOMAIN r, i < j, Gone(r[i], d), Gone(r[j], d)
        PROVE  \E k \in DOMAIN r : i < k /\ k < j /\ Fresh(r[k], d)
    <3>1. i \in DOMAIN q /\ j \in DOMAIN q /\ r[i] = q[i] /\ r[j] = q[j]
      BY <1>1, <1>2, <2>1
    <3>2. PICK k \in DOMAIN q : i < k /\ k < j /\ Fresh(q[k], d)
      BY <2>1, <3>1 DEF Behind, Aligned
    <3> QED BY <1>0, <3>2
  <2>2. ASSUME NEW i \in DOMAIN r, NEW j \in DOMAIN r, i < j, Fresh(r[i], d) PROVE FALSE
    BY <1>0, <1>4, <2>2
  <2> QED BY <2>1, <2>2 DEF Aligned
<1>6. Away(r, d, shown, called, b2)
  <2>1. ASSUME NEW i \in DOMAIN r, NEW j \in DOMAIN r, i < j, Fresh(r[i], d) PROVE FALSE
    BY <1>0, <1>4, <2>1
  <2> QED BY <2>1 DEF Away
<1>7. Ends(r, d, b2)
  <2>1. ASSUME NEW i \in DOMAIN r, Gone(r[i], d) PROVE \E j \in DOMAIN r : i < j /\ Fresh(r[j], d)
    BY <1>1, <1>2, <2>1
  <2> QED BY <2>1 DEF Ends
<1>8. Believed(r, d, called, b2, known)
  <2>1. ASSUME NEW i \in DOMAIN r, Gone(r[i], d), \A j \in DOMAIN r : j < i => ~Fresh(r[j], d)
        PROVE  known = KnownAs(r[i].info)
    <3>1. i \in DOMAIN q /\ r[i] = q[i]
      BY <1>1, <1>2, <2>1
    <3> QED BY <1>0, <2>1, <3>1 DEF Behind, Believed
  <2>2. ASSUME NEW i \in DOMAIN r, r[i].op = "bt_found", r[i].dev = d
        PROVE  known = None \/ \E j \in DOMAIN r : j < i /\ Gone(r[j], d)
    <3>1. i = n
      BY <1>0, <1>2, <2>2 DEF Fresh
    <3>2. CASE \E j \in DOMAIN q : Gone(q[j], d)
      BY <1>3, <3>1, <3>2
    <3>3. CASE \A j \in DOMAIN q : ~Gone(q[j], d)
      <4>1. \A j \in DOMAIN q : Else(q[j], d)
        BY <1>0, <3>3 DEF Else
      <4> QED BY <4>1 DEF Behind, Believed
    <3> QED BY <3>2, <3>3
  <2>3. ~(\A i \in DOMAIN r : Else(r[i], d))
    BY <1>1 DEF Else
  <2> QED BY <2>1, <2>2, <2>3 DEF Believed
<1> QED BY <1>5, <1>6, <1>7, <1>8 DEF Behind

\* A device in devices_ is renamed,
LEMMA BehindRenamed ==
  ASSUME NEW q, NEW d, NEW shown, NEW called, NEW bt, NEW known, NEW r, NEW x, NEW n,
         NEW shown2, NEW called2,
         Behind(q, d, shown, called, bt, known), Longer(q, r, x, n),
         x.op = "bt_changed", x.dev = d, shown # None, d \in bt
  PROVE  Behind(r, d, shown2, called2, bt, known)
<1>0. \A i, j \in DOMAIN q : ~(i < j /\ Fresh(q[i], d) /\ Gone(q[j], d))
  BY DEF Behind, Away
<1>1. n \in DOMAIN r /\ Fresh(r[n], d) /\ ~Gone(r[n], d) /\ r[n].op = "bt_changed"
  BY DEF Longer, Fresh, Gone
<1>2. \A i \in DOMAIN r : i = n \/ (i < n /\ i \in DOMAIN q /\ r[i] = q[i])
  BY DEF Longer
<1>3. \A i \in DOMAIN q : i < n /\ i \in DOMAIN r /\ r[i] = q[i]
  BY DEF Longer
<1>4. \A i, j \in DOMAIN r : i < j => i # n /\ i \in DOMAIN q /\ r[i] = q[i]
  <2> SUFFICES ASSUME NEW i \in DOMAIN r, NEW j \in DOMAIN r, i < j PROVE i # n
    BY <1>2
  <2>1. i \in Nat /\ j \in Nat /\ n \in Nat
    BY DEF Longer
  <2> QED BY <1>2, <2>1
<1>5. Aligned(r, d)
  <2>1. ASSUME NEW i \in DOMAIN r, NEW j \in DOMAIN r, i < j, Gone(r[i], d), Gone(r[j], d)
        PROVE  \E k \in DOMAIN r : i < k /\ k < j /\ Fresh(r[k], d)
    <3>1. i \in DOMAIN q /\ j \in DOMAIN q /\ r[i] = q[i] /\ r[j] = q[j]
      BY <1>1, <1>2, <2>1
    <3>2. PICK k \in DOMAIN q : i < k /\ k < j /\ Fresh(q[k], d)
      BY <2>1, <3>1 DEF Behind, Aligned
    <3> QED BY <1>3, <3>2
  <2>2. ASSUME NEW i \in DOMAIN r, NEW j \in DOMAIN r, i < j, Fresh(r[i], d), Fresh(r[j], d)
        PROVE  r[j].op = "bt_changed"
    <3>1. CASE j = n
      BY <1>1, <3>1
    <3>2. CASE j # n
      <4>1. i \in DOMAIN q /\ j \in DOMAIN q /\ r[i] = q[i] /\ r[j] = q[j]
        BY <1>2, <1>4, <2>2, <3>2
      <4> QED BY <2>2, <4>1 DEF Behind, Aligned
    <3> QED BY <3>1, <3>2
  <2> QED BY <2>1, <2>2 DEF Aligned
<1>6. Away(r, d, shown2, called2, bt)
  <2>1. ASSUME NEW i \in DOMAIN r, NEW j \in DOMAIN r, i < j, Fresh(r[i], d), Gone(r[j], d) PROVE FALSE
    <3>1. i \in DOMAIN q /\ j \in DOMAIN q /\ r[i] = q[i] /\ r[j] = q[j]
      BY <1>1, <1>2, <1>4, <2>1
    <3> QED BY <1>0, <2>1, <3>1
  <2> QED BY <2>1 DEF Away
<1>7. Ends(r, d, bt)
  <2>1. ASSUME NEW i \in DOMAIN r, Gone(r[i], d) PROVE \E j \in DOMAIN r : i < j /\ Fresh(r[j], d)
    BY <1>1, <1>2, <2>1
  <2> QED BY <2>1 DEF Ends
<1>8. Believed(r, d, called2, bt, known)
  <2>1. ASSUME NEW i \in DOMAIN r, Gone(r[i], d), \A j \in DOMAIN r : j < i => ~Fresh(r[j], d)
        PROVE  known = KnownAs(r[i].info)
    <3>1. i \in DOMAIN q /\ r[i] = q[i]
      BY <1>1, <1>2, <2>1
    <3>2. \A j \in DOMAIN q : j < i => ~Fresh(q[j], d)
      BY <1>3, <2>1
    <3> QED BY <2>1, <3>1, <3>2 DEF Behind, Believed
  <2>2. ASSUME NEW i \in DOMAIN r, r[i].op = "bt_found", r[i].dev = d
        PROVE  known = None \/ \E j \in DOMAIN r : j < i /\ Gone(r[j], d)
    <3>1. i # n
      BY <1>1, <2>2
    <3>2. i \in DOMAIN q /\ r[i] = q[i]
      BY <1>2, <3>1
    <3>3. known = None \/ \E j \in DOMAIN q : j < i /\ Gone(q[j], d)
      BY <2>2, <3>2 DEF Behind, Believed
    <3> QED BY <1>3, <3>3
  <2>3. ~(\A i \in DOMAIN r : Else(r[i], d))
    BY <1>1 DEF Else
  <2> QED BY <2>1, <2>2, <2>3 DEF Believed
<1> QED BY <1>5, <1>6, <1>7, <1>8 DEF Behind

\* and lost.
LEMMA BehindLost ==
  ASSUME NEW q, NEW d, NEW shown, NEW called, NEW bt, NEW known, NEW r, NEW x, NEW n, NEW b2,
         Behind(q, d, shown, called, bt, known), Longer(q, r, x, n),
         x.op = "bt_lost", x.dev = d, x.info = called, shown # None, d \in bt, d \notin b2
  PROVE  Behind(r, d, None, called, b2, known)
<1>0. \A i, j \in DOMAIN q : ~(i < j /\ Fresh(q[i], d) /\ Gone(q[j], d))
  BY DEF Behind, Away
<1>1. n \in DOMAIN r /\ ~Fresh(r[n], d) /\ Gone(r[n], d) /\ r[n].info = called
  BY DEF Longer, Fresh, Gone
<1>2. \A i \in DOMAIN r : i = n \/ (i < n /\ i \in DOMAIN q /\ r[i] = q[i])
  BY DEF Longer
<1>3. \A i \in DOMAIN q : i < n /\ i \in DOMAIN r /\ r[i] = q[i]
  BY DEF Longer
<1>4. \A i, j \in DOMAIN r : i < j => i # n /\ i \in DOMAIN q /\ r[i] = q[i]
  <2> SUFFICES ASSUME NEW i \in DOMAIN r, NEW j \in DOMAIN r, i < j PROVE i # n
    BY <1>2
  <2>1. i \in Nat /\ j \in Nat /\ n \in Nat
    BY DEF Longer
  <2> QED BY <1>2, <2>1
<1>5. Aligned(r, d)
  <2>1. ASSUME NEW i \in DOMAIN r, NEW j \in DOMAIN r, i < j, Gone(r[i], d), Gone(r[j], d)
        PROVE  \E k \in DOMAIN r : i < k /\ k < j /\ Fresh(r[k], d)
    <3>0. i \in DOMAIN q /\ r[i] = q[i]
      BY <1>4, <2>1
    <3>1. CASE j = n
      <4>1. PICK k \in DOMAIN q : i < k /\ Fresh(q[k], d)
        BY <2>1, <3>0 DEF Behind, Ends
      <4> QED BY <1>3, <3>1, <4>1
    <3>2. CASE j # n
      <4>1. j \in DOMAIN q /\ r[j] = q[j]
        BY <1>2, <3>2
      <4>2. PICK k \in DOMAIN q : i < k /\ k < j /\ Fresh(q[k], d)
        BY <2>1, <3>0, <4>1 DEF Behind, Aligned
      <4> QED BY <1>3, <4>2
    <3> QED BY <3>1, <3>2
  <2>2. ASSUME NEW i \in DOMAIN r, NEW j \in DOMAIN r, i < j, Fresh(r[i], d), Fresh(r[j], d)
        PROVE  r[j].op = "bt_changed"
    <3>1. i \in DOMAIN q /\ j \in DOMAIN q /\ r[i] = q[i] /\ r[j] = q[j]
      BY <1>1, <1>2, <2>2
    <3> QED BY <2>2, <3>1 DEF Behind, Aligned
  <2> QED BY <2>1, <2>2 DEF Aligned
<1>6. Away(r, d, None, called, b2)
  <2>1. ASSUME NEW i \in DOMAIN r, NEW j \in DOMAIN r, i < j, Fresh(r[i], d), Gone(r[j], d)
        PROVE  called = r[j].info
    <3>1. CASE j = n
      BY <1>1, <3>1
    <3>2. CASE j # n
      <4>1. i \in DOMAIN q /\ j \in DOMAIN q /\ r[i] = q[i] /\ r[j] = q[j]
        BY <1>2, <1>4, <2>1, <3>2
      <4> QED BY <1>0, <2>1, <4>1
    <3> QED BY <3>1, <3>2
  <2> QED BY <2>1 DEF Away
<1>7. Ends(r, d, b2)
  <2>1. ASSUME NEW i \in DOMAIN r, Fresh(r[i], d) PROVE \E j \in DOMAIN r : i < j /\ Gone(r[j], d)
    BY <1>1, <1>2, <2>1
  <2> QED BY <2>1 DEF Ends
<1>8. Believed(r, d, called, b2, known)
  <2>1. ASSUME NEW i \in DOMAIN r, Gone(r[i], d), \A j \in DOMAIN r : j < i => ~Fresh(r[j], d)
        PROVE  known = KnownAs(r[i].info)
    <3>1. CASE i # n
      <4>1. i \in DOMAIN q /\ r[i] = q[i]
        BY <1>2, <3>1
      <4>2. \A j \in DOMAIN q : j < i => ~Fresh(q[j], d)
        BY <1>3, <2>1
      <4> QED BY <2>1, <4>1, <4>2 DEF Behind, Believed
    <3>2. CASE i = n
      <4>1. \A j \in DOMAIN q : ~Fresh(q[j], d)
        BY <1>3, <2>1, <3>2
      <4>2. \A j \in DOMAIN q : ~Gone(q[j], d)
        BY <4>1 DEF Behind, Ends
      <4>3. \A j \in DOMAIN q : Else(q[j], d)
        BY <4>1, <4>2 DEF Else
      <4>4. known = KnownAs(called)
        BY <4>3 DEF Behind, Believed
      <4> QED BY <1>1, <3>2, <4>4
    <3> QED BY <3>1, <3>2
  <2>2. ASSUME NEW i \in DOMAIN r, r[i].op = "bt_found", r[i].dev = d
        PROVE  known = None \/ \E j \in DOMAIN r : j < i /\ Gone(r[j], d)
    <3>1. i # n
      BY <1>1, <2>2 DEF Fresh
    <3>2. i \in DOMAIN q /\ r[i] = q[i]
      BY <1>2, <3>1
    <3>3. known = None \/ \E j \in DOMAIN q : j < i /\ Gone(q[j], d)
      BY <2>2, <3>2 DEF Behind, Believed
    <3> QED BY <1>3, <3>3
  <2>3. ~(\A i \in DOMAIN r : Else(r[i], d))
    BY <1>1 DEF Else
  <2> QED BY <2>1, <2>2, <2>3 DEF Believed
<1> QED BY <1>5, <1>6, <1>7, <1>8 DEF Behind

\* The first job finds the device, or its new name: the client knows the name it has now.  One
\* that finds it meets a client that knows nothing of it.
LEMMA BehindFreshRun ==
  ASSUME NEW q, NEW d, NEW shown, NEW called, NEW bt, NEW known, NEW r,
         Behind(q, d, shown, called, bt, known), Shorter(q, r), Fresh(q[1], d)
  PROVE  /\ Behind(r, d, shown, called, bt, KnownAs(called))
         /\ q[1].op = "bt_found" => known = None
<1>1. 1 \in DOMAIN q /\ \A i \in DOMAIN r : i \in Nat /\ i + 1 \in DOMAIN q /\ 1 < i + 1 /\ r[i] = q[i + 1]
  BY DEF Shorter
<1>2. ASSUME NEW j \in DOMAIN q, 1 < j
      PROVE  j - 1 \in DOMAIN r /\ r[j - 1] = q[j]
  <2>1. j \in Nat /\ j - 1 \in DOMAIN r /\ (j - 1) + 1 = j
    BY <1>2 DEF Shorter
  <2> QED BY <1>1, <2>1
<1>3. Aligned(r, d) /\ Away(r, d, shown, called, bt) /\ Ends(r, d, bt)
  BY BehindRun
<1>4. Believed(r, d, called, bt, KnownAs(called))
  <2>1. ASSUME NEW i \in DOMAIN r, Gone(r[i], d)
        PROVE  KnownAs(called) = KnownAs(r[i].info)
    <3>1. called = q[i + 1].info
      BY <1>1, <2>1 DEF Behind, Away
    <3> QED BY <1>1, <3>1
  <2>2. ASSUME NEW i \in DOMAIN r, r[i].op = "bt_found", r[i].dev = d PROVE FALSE
    <3>1. Fresh(q[i + 1], d)
      BY <1>1, <2>2 DEF Fresh
    <3>2. q[i + 1].op = "bt_changed"
      BY <1>1, <3>1 DEF Behind, Aligned
    <3> QED BY <1>1, <2>2, <3>2
  <2>3. ASSUME \A i \in DOMAIN r : Else(r[i], d) PROVE d \in bt
    <3> SUFFICES ASSUME d \notin bt PROVE FALSE
      OBVIOUS
    <3>1. PICK j \in DOMAIN q : 1 < j /\ Gone(q[j], d)
      BY <1>1 DEF Behind, Ends
    <3> QED BY <1>2, <2>3, <3>1 DEF Else
  <2> QED BY <2>1, <2>2, <2>3 DEF Believed
<1>5. ASSUME q[1].op = "bt_found" PROVE known = None
  <2>1. ~(\E j \in DOMAIN q : j < 1)
    BY DEF Shorter
  <2>2. known = None \/ \E j \in DOMAIN q : j < 1 /\ Gone(q[j], d)
    BY <1>1, <1>5 DEF Behind, Believed, Fresh
  <2> QED BY <2>1, <2>2
<1> QED BY <1>3, <1>4, <1>5 DEF Behind

\* The first job loses the device, under the name that the client knows.
LEMMA BehindGoneRun ==
  ASSUME NEW q, NEW d, NEW shown, NEW called, NEW bt, NEW known, NEW r,
         Behind(q, d, shown, called, bt, known), Shorter(q, r), Gone(q[1], d)
  PROVE  /\ Behind(r, d, shown, called, bt, None)
         /\ known = KnownAs(q[1].info)
<1>1. 1 \in DOMAIN q /\ \A i \in DOMAIN r : i \in Nat /\ i + 1 \in DOMAIN q /\ 1 < i + 1 /\ r[i] = q[i + 1]
  BY DEF Shorter
<1>2. ASSUME NEW j \in DOMAIN q, 1 < j
      PROVE  j \in Nat /\ j - 1 \in DOMAIN r /\ r[j - 1] = q[j]
  <2>1. j \in Nat /\ j - 1 \in DOMAIN r /\ (j - 1) + 1 = j
    BY <1>2 DEF Shorter
  <2> QED BY <1>1, <2>1
<1>3. Aligned(r, d) /\ Away(r, d, shown, called, bt) /\ Ends(r, d, bt)
  BY BehindRun
<1>4. Believed(r, d, called, bt, None)
  <2>1. ASSUME NEW i \in DOMAIN r, Gone(r[i], d), \A j \in DOMAIN r : j < i => ~Fresh(r[j], d)
        PROVE  FALSE
    <3>1. PICK k \in DOMAIN q : 1 < k /\ k < i + 1 /\ Fresh(q[k], d)
      BY <1>1, <2>1 DEF Behind, Aligned
    <3>2. k \in Nat /\ k - 1 \in DOMAIN r /\ r[k - 1] = q[k]
      BY <1>2, <3>1
    <3>3. k - 1 < i
      BY <1>1, <3>1, <3>2
    <3> QED BY <2>1, <3>1, <3>2, <3>3
  <2>2. ASSUME \A i \in DOMAIN r : Else(r[i], d) PROVE d \notin bt
    <3> SUFFICES ASSUME d \in bt PROVE FALSE
      OBVIOUS
    <3>1. PICK j \in DOMAIN q : 1 < j /\ Fresh(q[j], d)
      BY <1>1 DEF Behind, Ends
    <3> QED BY <1>2, <2>2, <3>1 DEF Else
  <2> QED BY <2>1, <2>2 DEF Believed
<1>5. known = KnownAs(q[1].info)
  <2>1. \A j \in DOMAIN q : j < 1 => ~Fresh(q[j], d)
    BY DEF Shorter
  <2> QED BY <1>1, <2>1 DEF Behind, Believed
<1> QED BY <1>3, <1>4, <1>5 DEF Behind

----------------------------------------------------------------------------
(* What the client is told of a device *)

\* Every endpoint has one entry, on Bluetooth, with the info the client was told.
Single(s) ==
  /\ \A k \in DOMAIN s.table : /\ s.table[k].medium = "BLUETOOTH" /\ s.table[k].id = s.table[k].key
                               /\ s.told[s.table[k].key] = s.table[k].info
  /\ \A j, k \in DOMAIN s.table : s.table[j].key = s.table[k].key => j = k

\* In state r, unlike s, the client knows v of device d.
Heard(s, r, d, v) ==
  /\ r \in States /\ Listed(r) /\ Single(r) /\ r.told[d] = v
  /\ \A e \in Devices : e # d => r.told[e] = s.told[e]

\* The loss of an endpoint under the name the client knows is reported,
LEMMA SingleLost ==
  ASSUME NEW s \in States, Single(s), Listed(s), NEW p, p.id \in Devices, s.told[p.id] # None,
         s.told[p.id] = p.info
  PROVE  Heard(s, EndpointLost(s, p), p.id, None)
<1> DEFINE r == EndpointLost(s, p)
<1>1. s.table \in Seq(Entries) /\ Sorted(s.table) /\ s.told \in ToldType
  BY StateFacts
<1>2. r \in States /\ Listed(r)
  BY LostKeeps
<1>3. Has(s.table, p.id)
  BY DEF Listed
<1>4. s.table[First(s.table, p.id)].info = p.info
  <2>1. EqualRange(s.table, p.id) # {}
    BY <1>3, HasRange
  <2>2. First(s.table, p.id) \in DOMAIN s.table /\ s.table[First(s.table, p.id)].key = p.id
    BY <1>1, <2>1, FirstFacts
  <2> QED BY <2>2 DEF Single
<1>5. PICK k \in DOMAIN s.table :
        /\ s.table[k].key = p.id
        /\ r.table = RemoveAt(s.table, k)
        /\ r.told = IF Has(RemoveAt(s.table, k), p.id) THEN s.told ELSE ClientLost(s.told, p.id)
  BY <1>3, <1>4, LostCases
<1> HIDE DEF r
<1>6. /\ Len(r.table) = Len(s.table) - 1 /\ r.table \in Seq(Entries)
      /\ \A i \in 1 .. Len(s.table) - 1 : r.table[i] = IF i < k THEN s.table[i] ELSE s.table[i + 1]
  <2> DEFINE t == s.table
  <2>1. t \in Seq(Entries) /\ k \in DOMAIN t
    BY <1>1
  <2> HIDE DEF t
  <2>2. /\ RemoveAt(t, k) \in Seq(Entries)
        /\ Len(RemoveAt(t, k)) = Len(t) - 1
        /\ \A i \in 1 .. Len(t) - 1 : RemoveAt(t, k)[i] = IF i < k THEN t[i] ELSE t[i + 1]
    BY <2>1, RemoveFacts, Zenon
  <2>3. r.table = RemoveAt(t, k)
    BY <1>5 DEF t
  <2> QED BY <2>2, <2>3, Zenon DEF t
<1>7. Len(s.table) \in Nat /\ DOMAIN s.table = 1 .. Len(s.table) /\ DOMAIN r.table = 1 .. Len(s.table) - 1
  BY <1>1, <1>6
<1>8. ASSUME NEW i \in DOMAIN r.table
      PROVE  \E j \in DOMAIN s.table :
               r.table[i] = s.table[j] /\ j # k /\ j = IF i < k THEN i ELSE i + 1
  <2>1. i \in 1 .. Len(s.table) - 1 /\ k \in 1 .. Len(s.table)
    BY <1>7
  <2>2. CASE i < k
    <3>1. i \in DOMAIN s.table /\ i # k
      BY <1>7, <2>1, <2>2
    <3> QED BY <1>6, <2>1, <2>2, <3>1
  <2>3. CASE ~(i < k)
    <3>1. i + 1 \in DOMAIN s.table /\ i + 1 # k
      BY <1>7, <2>1, <2>3
    <3> QED BY <1>6, <2>1, <2>3, <3>1
  <2> QED BY <2>2, <2>3
<1>9. \A i \in DOMAIN r.table : r.table[i].key # p.id
  BY <1>5, <1>8 DEF Single
<1>10. r.told = ClientLost(s.told, p.id)
  BY <1>5, <1>9 DEF Has
<1>11. r.told[p.id] = None /\ \A e \in Devices : e # p.id => r.told[e] = s.told[e]
  <2>1. s.table[k].info \in Infos
    BY <1>1, EntryFacts, TableFacts
  <2> QED BY <1>1, <1>10, <2>1, ToldFacts
<1>12. Single(r)
  <2>1. ASSUME NEW i \in DOMAIN r.table
        PROVE  /\ r.table[i].medium = "BLUETOOTH" /\ r.table[i].id = r.table[i].key
               /\ r.told[r.table[i].key] = r.table[i].info
    <3>1. PICK j \in DOMAIN s.table : r.table[i] = s.table[j]
      BY <1>8
    <3>2. s.table[j].key \in Devices /\ s.table[j].key # p.id
      BY <1>1, <1>9, <3>1, TableFacts
    <3> QED BY <1>11, <3>1, <3>2 DEF Single
  <2>2. ASSUME NEW i \in DOMAIN r.table, NEW j \in DOMAIN r.table, r.table[i].key = r.table[j].key
        PROVE  i = j
    <3>1. PICK ii \in DOMAIN s.table : r.table[i] = s.table[ii] /\ ii # k /\ ii = IF i < k THEN i ELSE i + 1
      BY <1>8
    <3>2. PICK jj \in DOMAIN s.table : r.table[j] = s.table[jj] /\ jj # k /\ jj = IF j < k THEN j ELSE j + 1
      BY <1>8
    <3>3. ii = jj
      BY <2>2, <3>1, <3>2 DEF Single
    <3> QED BY <1>7, <3>1, <3>2, <3>3
  <2> QED BY <2>1, <2>2 DEF Single
<1> QED BY <1>2, <1>11, <1>12 DEF r, Heard

\* and an endpoint it does not know is reported as found.
LEMMA SingleFound ==
  ASSUME NEW s \in States, Single(s), Listed(s), NEW d \in Devices, s.told[d] = None, NEW v \in Infos
  PROVE  Heard(s, EndpointFound(s, Endpoint(d, "BLUETOOTH", v)), d, v)
<1> DEFINE p == Endpoint(d, "BLUETOOTH", v)
           r == EndpointFound(s, p)
<1>1. p \in Endpoints /\ p.id = d /\ p.medium = "BLUETOOTH" /\ p.info = v
  BY EndpointFacts, MediumNames
<1> HIDE DEF p
<1>2. s.table \in Seq(Entries) /\ Sorted(s.table) /\ s.told \in ToldType
  BY StateFacts
<1>3. r \in States /\ Listed(r)
  BY <1>1, FoundKeeps
<1>4. ~Has(s.table, d)
  BY DEF Listed
<1>5. OnMedium(s, p) = {}
  BY <1>1, <1>4 DEF OnMedium, EqualRange, Has
<1>6. r = [table |-> Emplaced(s.table, d, p), told |-> ClientFound(s.told, d, v)]
  BY <1>1, <1>5, FoundNew
<1> HIDE DEF r
<1>7. r.table = Emplaced(s.table, d, p) /\ r.told = ClientFound(s.told, d, v)
  BY <1>6
<1>8. r.told[d] = v /\ \A e \in Devices : e # d => r.told[e] = s.told[e]
  BY <1>2, <1>7, ToldFacts
<1>9. PICK c \in 0 .. Len(s.table) :
           /\ r.table \in Seq(Entries)
           /\ Len(r.table) = Len(s.table) + 1
           /\ \A i \in 1 .. Len(s.table) + 1 :
                r.table[i] = IF i < c + 1 THEN s.table[i]
                             ELSE IF i = c + 1 THEN Keyed(d, p) ELSE s.table[i - 1]
  <2> DEFINE t == s.table
             u == Emplaced(t, d, p)
  <2>1. t \in Seq(Entries) /\ Sorted(t)
    BY <1>2
  <2>2. PICK c \in 0 .. Len(t) :
           /\ u \in Seq(Entries)
           /\ Len(u) = Len(t) + 1
           /\ \A i \in 1 .. Len(t) + 1 :
                u[i] = IF i < c + 1 THEN t[i] ELSE IF i = c + 1 THEN Keyed(d, p) ELSE t[i - 1]
    <3> HIDE DEF t
    <3> QED BY <1>1, <2>1, EmplacedTable
  <2>3. r.table = u
    BY <1>7
  <2> HIDE DEF u
  <2> QED BY <2>2, <2>3
<1>10. Len(s.table) \in Nat /\ DOMAIN s.table = 1 .. Len(s.table) /\ DOMAIN r.table = 1 .. Len(s.table) + 1
  BY <1>2, <1>9
<1> DEFINE x == Keyed(d, p)
<1>11. x.key = d /\ x.id = d /\ x.medium = "BLUETOOTH" /\ x.info = v
  BY <1>1, EntryFacts
<1> HIDE DEF x
<1>12. ASSUME NEW i \in DOMAIN r.table
       PROVE  \/ i = c + 1 /\ r.table[i] = x
              \/ \E j \in DOMAIN s.table :
                   r.table[i] = s.table[j] /\ i # c + 1 /\ j = IF i < c + 1 THEN i ELSE i - 1
  <2>1. CASE i < c + 1
    <3>1. i \in DOMAIN s.table /\ r.table[i] = s.table[i] /\ i # c + 1
      BY <1>9, <1>10, <2>1
    <3> QED BY <2>1, <3>1
  <2>2. CASE i = c + 1
    <3>1. ~(i < c + 1) /\ i \in 1 .. Len(s.table) + 1
      BY <1>10, <2>2
    <3> QED BY <1>9, <2>2, <3>1 DEF x
  <2>3. CASE i > c + 1
    <3>1. ~(i < c + 1) /\ i # c + 1 /\ i \in 1 .. Len(s.table) + 1 /\ i - 1 \in DOMAIN s.table
      BY <1>10, <2>3
    <3>2. r.table[i] = s.table[i - 1]
      BY <1>9, <3>1
    <3> QED BY <3>1, <3>2
  <2> QED BY <1>10, <2>1, <2>2, <2>3
<1>13. ASSUME NEW i \in DOMAIN r.table, i # c + 1
       PROVE  /\ r.table[i].key # d /\ r.table[i].key \in Devices
              /\ r.table[i].medium = "BLUETOOTH" /\ r.table[i].id = r.table[i].key
              /\ r.told[r.table[i].key] = r.table[i].info
  <2>1. PICK j \in DOMAIN s.table : r.table[i] = s.table[j]
    BY <1>12, <1>13
  <2>2. s.table[j].key # d /\ s.table[j].key \in Devices
    BY <1>2, <1>4, TableFacts DEF Has
  <2> QED BY <1>8, <2>1, <2>2 DEF Single
<1>14. ASSUME NEW i \in DOMAIN r.table, NEW j \in DOMAIN r.table, r.table[i].key = r.table[j].key
       PROVE  i = j
  <2>1. CASE i = c + 1 \/ j = c + 1
    BY <1>11, <1>12, <1>13, <1>14, <2>1
  <2>2. CASE i # c + 1 /\ j # c + 1
    <3>1. PICK ii \in DOMAIN s.table : r.table[i] = s.table[ii] /\ ii = IF i < c + 1 THEN i ELSE i - 1
      BY <1>12, <2>2
    <3>2. PICK jj \in DOMAIN s.table : r.table[j] = s.table[jj] /\ jj = IF j < c + 1 THEN j ELSE j - 1
      BY <1>12, <2>2
    <3>3. ii = jj
      BY <1>14, <3>1, <3>2 DEF Single
    <3> QED BY <1>10, <2>2, <3>1, <3>2, <3>3
  <2> QED BY <2>1, <2>2
<1>15. Single(r)
  BY <1>8, <1>11, <1>12, <1>13, <1>14 DEF Single
<1> QED BY <1>3, <1>8, <1>15 DEF r, p, Heard

----------------------------------------------------------------------------
(* The invariant of Bluetooth Classic *)

\* The jobs of the Bluetooth callbacks.
BtOps == {"bt_found", "bt_changed", "bt_lost"}

\* None of them waits behind a "start".
NoneBehind(q) == \A i, j \in DOMAIN q : q[i].op = "start" /\ i < j => q[j].op \notin BtOps

\* Without a discovery no scan is on and no device known; a device in devices_ shows itself;
\* and what a discovery starts with has no Bluetooth job of an earlier one behind it.
ScanInv ==
  /\ ~discovering => scanning = {} /\ bt_devices = {}
  /\ \A d \in bt_devices : air[<<"BLUETOOTH", d>>] # None
  /\ NoneBehind(queue)

\* Every endpoint has one entry, and the client is behind by the jobs that wait only,
Exactly ==
  /\ Single(State)
  /\ \A d \in Devices :
       Behind(queue, d, air[<<"BLUETOOTH", d>>], name[d], bt_devices, told[d])

\* as long as only Bluetooth has found or lost anything.
ExactInv == discovering /\ sources \subseteq {"BLUETOOTH"} => Exactly

\* The inductive invariant for ExactOnBluetooth.
FollowInv == ListedInv /\ ScanInv /\ ExactInv

\* A job that is not of a Bluetooth callback is about something else,
LEMMA ElseOp == \A x, d : x.op \notin BtOps => Else(x, d)
  BY DEF Else, Fresh, Gone, BtOps

\* and so is one about another device.
LEMMA ElseDevice == \A x, d : x.dev # d => Else(x, d)
  BY DEF Else, Fresh, Gone

\* NoneBehind is kept when a job is posted,
LEMMA NoneBehindPosted ==
  ASSUME NEW q, NEW r, NEW x, NEW n, Longer(q, r, x, n), NoneBehind(q),
         x.op \notin BtOps \/ \A i \in DOMAIN q : q[i].op # "start"
  PROVE  NoneBehind(r)
<1> SUFFICES ASSUME NEW i \in DOMAIN r, NEW j \in DOMAIN r, r[i].op = "start", i < j
             PROVE  r[j].op \notin BtOps
  BY DEF NoneBehind
<1>1. i \in DOMAIN q /\ r[i] = q[i]
  BY DEF Longer
<1>2. CASE j = n
  BY <1>1, <1>2 DEF Longer
<1>3. CASE j # n
  <2>1. j \in DOMAIN q /\ r[j] = q[j]
    BY <1>3 DEF Longer
  <2> QED BY <1>1, <2>1 DEF NoneBehind
<1> QED BY <1>2, <1>3

\* and when one is run.
LEMMA NoneBehindRun ==
  ASSUME NEW q, NEW r, Shorter(q, r), NoneBehind(q)
  PROVE  NoneBehind(r)
<1> SUFFICES ASSUME NEW i \in DOMAIN r, NEW j \in DOMAIN r, r[i].op = "start", i < j
             PROVE  r[j].op \notin BtOps
  BY DEF NoneBehind
<1>1. /\ i \in Nat /\ i + 1 \in DOMAIN q /\ r[i] = q[i + 1]
      /\ j \in Nat /\ j + 1 \in DOMAIN q /\ r[j] = q[j + 1]
  BY DEF Shorter
<1>2. i + 1 < j + 1
  BY <1>1
<1> QED BY <1>1, <1>2 DEF NoneBehind

\* What waits.
LEMMA QueueIsSeq ==
  ASSUME ListedInv
  PROVE  /\ queue \in Seq(Jobs)
         /\ \A i \in DOMAIN queue : queue[i].op = "start" => ~discovering
  BY DEF ListedInv, CallInv, QueueInv

\* A step that posts a job about something else,
LEMMA QuietPost ==
  ASSUME FollowInv, UNCHANGED <<name, scanning, bt_devices, handlerVars>>,
         \A d \in Devices : air'[<<"BLUETOOTH", d>>] = air[<<"BLUETOOTH", d>>],
         NEW x \in Jobs, x.op \notin BtOps, queue' = queue \/ Post(x)
  PROVE  ScanInv' /\ ExactInv'
<1>1. queue \in Seq(Jobs) /\ bt_devices \subseteq Devices
  BY QueueIsSeq DEF FollowInv, ListedInv, MediumType
<1>2. queue' = queue \/ Longer(queue, queue', x, Len(queue) + 1)
  BY <1>1, LongerQueue DEF Post
<1>3. NoneBehind(queue')
  BY <1>2, NoneBehindPosted DEF FollowInv, ScanInv
<1>4. ScanInv'
  BY <1>1, <1>3 DEF FollowInv, ScanInv, handlerVars
<1>5. ASSUME discovering', sources' \subseteq {"BLUETOOTH"} PROVE Exactly'
  <2>1. Exactly
    BY <1>5 DEF FollowInv, ExactInv, handlerVars
  <2>2. Single(State)'
    BY <2>1 DEF Exactly, State, handlerVars
  <2>3. ASSUME NEW d \in Devices
        PROVE  Behind(queue', d, air'[<<"BLUETOOTH", d>>], name'[d], bt_devices', told'[d])
    <3>1. Behind(queue, d, air[<<"BLUETOOTH", d>>], name[d], bt_devices, told[d])
      BY <2>1 DEF Exactly
    <3>2. /\ air'[<<"BLUETOOTH", d>>] = air[<<"BLUETOOTH", d>>]
          /\ name'[d] = name[d] /\ bt_devices' = bt_devices /\ told'[d] = told[d]
      BY DEF handlerVars
    <3>3. Behind(queue', d, air[<<"BLUETOOTH", d>>], name[d], bt_devices, told[d])
      <4>1. CASE queue' = queue
        BY <3>1, <4>1
      <4>2. CASE Longer(queue, queue', x, Len(queue) + 1)
        BY <3>1, <4>2, BehindElsePosted, ElseOp
      <4> QED BY <1>2, <4>1, <4>2
    <3> QED BY <3>2, <3>3
  <2> QED BY <2>2, <2>3 DEF Exactly
<1> QED BY <1>4, <1>5 DEF ExactInv

\* and a job that changes nothing, or ends what ExactInv is about, keep the invariant.
LEMMA QuietRun ==
  ASSUME FollowInv, queue # <<>>, queue' = Tail(queue),
         UNCHANGED <<air, name, scanning, bt_devices, discovering>>,
         \/ ~discovering
         \/ ~(sources' \subseteq {"BLUETOOTH"})
         \/ UNCHANGED <<told, discovered_endpoints, sources>> /\ Head(queue).op \notin BtOps
  PROVE  ScanInv' /\ ExactInv'
<1>1. queue \in Seq(Jobs)
  BY QueueIsSeq DEF FollowInv
<1>2. Shorter(queue, queue') /\ Head(queue) = queue[1]
  BY <1>1, ShorterQueue
<1>3. NoneBehind(queue')
  BY <1>2, NoneBehindRun DEF FollowInv, ScanInv
<1>4. ScanInv'
  BY <1>3 DEF FollowInv, ScanInv
<1>5. ASSUME discovering', sources' \subseteq {"BLUETOOTH"} PROVE Exactly'
  <2>0. UNCHANGED <<told, discovered_endpoints, sources>> /\ Head(queue).op \notin BtOps
    BY <1>5
  <2>1. Exactly
    BY <1>5, <2>0 DEF FollowInv, ExactInv
  <2>2. Single(State)'
    BY <2>0, <2>1 DEF Exactly, State
  <2>3. ASSUME NEW d \in Devices
        PROVE  Behind(queue', d, air'[<<"BLUETOOTH", d>>], name'[d], bt_devices', told'[d])
    <3>1. Behind(queue, d, air[<<"BLUETOOTH", d>>], name[d], bt_devices, told[d])
      BY <2>1 DEF Exactly
    <3>2. Else(queue[1], d)
      BY <1>2, <2>0, ElseOp
    <3>3. Behind(queue', d, air[<<"BLUETOOTH", d>>], name[d], bt_devices, told[d])
      BY <1>2, <3>1, <3>2, BehindElseRun
    <3> QED BY <2>0, <3>3
  <2> QED BY <2>2, <2>3 DEF Exactly
<1> QED BY <1>4, <1>5 DEF ExactInv

\* A job of a Bluetooth callback tells the client what there is.
LEMMA BluetoothRun ==
  ASSUME FollowInv, queue # <<>>, queue' = Tail(queue), discovering,
         UNCHANGED <<air, name, scanning, bt_devices, discovering>>,
         sources \subseteq sources',
         NEW e \in Devices, Head(queue).dev = e, NEW v,
         \/ Fresh(Head(queue), e) /\ v = KnownAs(name[e])
         \/ Gone(Head(queue), e) /\ v = None,
         Exactly => \E s : Becomes(s) /\ Heard(State, s, e, v)
  PROVE  ScanInv' /\ ExactInv'
<1>1. queue \in Seq(Jobs)
  BY QueueIsSeq DEF FollowInv
<1>2. Shorter(queue, queue') /\ Head(queue) = queue[1]
  BY <1>1, ShorterQueue
<1>3. NoneBehind(queue')
  BY <1>2, NoneBehindRun DEF FollowInv, ScanInv
<1>4. ScanInv'
  BY <1>3 DEF FollowInv, ScanInv
<1>5. ASSUME sources' \subseteq {"BLUETOOTH"} PROVE Exactly'
  <2>1. Exactly
    BY <1>5 DEF FollowInv, ExactInv
  <2>2. PICK s : Becomes(s) /\ Heard(State, s, e, v)
    BY <2>1
  <2>3. Single([table |-> discovered_endpoints', told |-> told'])
    <3>1. discovered_endpoints' = s.table /\ told' = s.told /\ Single(s)
      BY <2>2 DEF Becomes, Heard
    <3> QED BY <3>1 DEF Single
  <2>4. Single(State)'
    BY <2>3 DEF State
  <2>5. told'[e] = v /\ \A d \in Devices : d # e => told'[d] = told[d]
    BY <2>2 DEF Becomes, Heard, State
  <2>6. ASSUME NEW d \in Devices
        PROVE  Behind(queue', d, air'[<<"BLUETOOTH", d>>], name'[d], bt_devices', told'[d])
    <3>1. Behind(queue, d, air[<<"BLUETOOTH", d>>], name[d], bt_devices, told[d])
      BY <2>1 DEF Exactly
    <3>2. CASE d # e
      <4>1. Else(queue[1], d)
        BY <1>2, <3>2, ElseDevice
      <4>2. Behind(queue', d, air[<<"BLUETOOTH", d>>], name[d], bt_devices, told[d])
        BY <1>2, <3>1, <4>1, BehindElseRun
      <4> QED BY <2>5, <3>2, <4>2
    <3>3. CASE d = e /\ Fresh(queue[1], d) /\ v = KnownAs(name[d])
      <4>1. Behind(queue', d, air[<<"BLUETOOTH", d>>], name[d], bt_devices, KnownAs(name[d]))
        BY <1>2, <3>1, <3>3, BehindFreshRun
      <4> QED BY <2>5, <3>3, <4>1
    <3>4. CASE d = e /\ Gone(queue[1], d) /\ v = None
      <4>1. Behind(queue', d, air[<<"BLUETOOTH", d>>], name[d], bt_devices, None)
        BY <1>2, <3>1, <3>4, BehindGoneRun
      <4> QED BY <2>5, <3>4, <4>1
    <3> QED BY <1>2, <3>2, <3>3, <3>4
  <2> QED BY <2>4, <2>6 DEF Exactly
<1> QED BY <1>4, <1>5 DEF ExactInv

\* What the client knows when such a job is run.
LEMMA BehindHead ==
  ASSUME FollowInv, queue # <<>>, Exactly, NEW e \in Devices
  PROVE  /\ Head(queue).op = "bt_found" /\ Head(queue).dev = e => told[e] = None
         /\ Gone(Head(queue), e) => told[e] = KnownAs(Head(queue).info)
<1>1. queue \in Seq(Jobs)
  BY QueueIsSeq DEF FollowInv
<1>2. Shorter(queue, Tail(queue)) /\ Head(queue) = queue[1]
  BY <1>1, ShorterQueue
<1>3. Behind(queue, e, air[<<"BLUETOOTH", e>>], name[e], bt_devices, told[e])
  BY DEF Exactly
<1>4. ASSUME queue[1].op = "bt_found", queue[1].dev = e PROVE told[e] = None
  <2>1. Fresh(queue[1], e)
    BY <1>4 DEF Fresh
  <2> QED BY <1>2, <1>3, <1>4, <2>1, BehindFreshRun
<1>5. ASSUME Gone(queue[1], e) PROVE told[e] = KnownAs(queue[1].info)
  BY <1>2, <1>3, <1>5, BehindGoneRun
<1> QED BY <1>2, <1>4, <1>5

\* A job that leaves the handler alone tells it nothing.
LEMMA NothingHeard ==
  ASSUME ListedInv, discovering, Exactly, UNCHANGED <<told, discovered_endpoints>>, NEW e \in Devices
  PROVE  Becomes(State) /\ Heard(State, State, e, told[e])
<1>1. State \in States /\ State.table = discovered_endpoints /\ State.told = told /\ Listed(State)
  BY HandlerState DEF ListedInv
<1> QED BY <1>1 DEF Exactly, Heard, Becomes

\* A device appears: if one of its jobs waits still, that is noted in "sources".
LEMMA ScanAppears ==
  ASSUME FollowInv, NEW m \in AllMediums, NEW d \in Devices, NEW i \in Shown, Appears(m, d, i)
  PROVE  ScanInv' /\ ExactInv'
<1>0. /\ air \in [AllMediums \X Devices -> Shown \cup {None}] /\ name \in [Devices -> Shown]
      /\ bt_devices \subseteq Devices /\ i # None /\ queue \in Seq(Jobs)
  BY DiscoveryAssumption, QueueIsSeq DEF FollowInv, ListedInv, AirType, MediumType, Shown
<1>1. /\ UNCHANGED <<scanning, bt_devices, queue, discovering, told, discovered_endpoints,
                     found_ble_endpoints>>
      /\ air' = [air EXCEPT ![<<m, d>>] = i] /\ air[<<m, d>>] = None
  BY DEF Appears, mediumVars
<1>2. \A e \in Devices : <<"BLUETOOTH", e>> \in AllMediums \X Devices
  BY MediumNames
<1>3. \A e \in Devices : <<m, d>> # <<"BLUETOOTH", e>> => air'[<<"BLUETOOTH", e>>] = air[<<"BLUETOOTH", e>>]
  BY <1>0, <1>1, <1>2
<1>4. CASE m # "BLUETOOTH"
  <2>1. name' = name /\ sources' = sources
    BY <1>4 DEF Appears
  <2>2. \A e \in Devices : air'[<<"BLUETOOTH", e>>] = air[<<"BLUETOOTH", e>>]
    BY <1>3, <1>4
  <2> DEFINE x == [op |-> "stop"]
  <2>3. x \in Jobs /\ x.op \notin BtOps
    BY JobFacts DEF BtOps
  <2> HIDE DEF x
  <2> QED BY <1>1, <2>1, <2>2, <2>3, QuietPost DEF handlerVars
<1>5. CASE m = "BLUETOOTH"
  <2>1. air'[<<"BLUETOOTH", d>>] = i /\ name'[d] = i /\ d \notin bt_devices
        /\ \A e \in Devices : e # d => name'[e] = name[e] /\ air'[<<"BLUETOOTH", e>>] = air[<<"BLUETOOTH", e>>]
    <3>1. air'[<<"BLUETOOTH", d>>] = i
      BY <1>0, <1>1, <1>2, <1>5
    <3>2. name' = [name EXCEPT ![d] = i]
      BY <1>5 DEF Appears
    <3>3. d \notin bt_devices
      BY <1>1, <1>5 DEF FollowInv, ScanInv
    <3>4. \A e \in Devices : e # d => <<m, d>> # <<"BLUETOOTH", e>>
      OBVIOUS
    <3> QED BY <1>0, <1>3, <3>1, <3>2, <3>3, <3>4
  <2>2. ScanInv'
    <3>1. \A e \in bt_devices : e \in Devices /\ e # d
      BY <1>0, <2>1
    <3>2. \A e \in bt_devices : air'[<<"BLUETOOTH", e>>] # None
      BY <2>1, <3>1 DEF FollowInv, ScanInv
    <3> QED BY <1>1, <3>2 DEF FollowInv, ScanInv
  <2>3. ASSUME discovering', sources' \subseteq {"BLUETOOTH"} PROVE Exactly'
    <3>1. sources' = IF \E k \in DOMAIN queue : queue[k].op \in {"bt_found", "bt_changed"} /\ queue[k].dev = d
                       THEN sources \cup {"REUSED"} ELSE sources
      BY <1>5 DEF Appears
    <3>2. \A k \in DOMAIN queue : ~Fresh(queue[k], d)
      BY <2>3, <3>1 DEF Fresh
    <3>3. sources \subseteq {"BLUETOOTH"}
      BY <2>3, <3>1
    <3>4. Exactly
      BY <1>1, <2>3, <3>3 DEF FollowInv, ExactInv
    <3>5. Single(State)'
      BY <1>1, <3>4 DEF Exactly, State
    <3>6. ASSUME NEW e \in Devices
          PROVE  Behind(queue', e, air'[<<"BLUETOOTH", e>>], name'[e], bt_devices', told'[e])
      <4>1. Behind(queue, e, air[<<"BLUETOOTH", e>>], name[e], bt_devices, told[e])
        BY <3>4 DEF Exactly
      <4>2. CASE e = d
        <5>1. Behind(queue, e, i, i, bt_devices, told[e])
          BY <2>1, <3>2, <4>1, <4>2, BehindSeen
        <5> QED BY <1>1, <2>1, <4>2, <5>1
      <4>3. CASE e # d
        BY <1>1, <2>1, <4>1, <4>3
      <4> QED BY <4>2, <4>3
    <3> QED BY <3>5, <3>6 DEF Exactly
  <2> QED BY <2>2, <2>3 DEF ExactInv
<1> QED BY <1>4, <1>5

\* No "start" waits during a discovery.
LEMMA NoStartWaits ==
  ASSUME FollowInv, discovering
  PROVE  \A i \in DOMAIN queue : queue[i].op # "start"
  BY QueueIsSeq DEF FollowInv

\* device_discovered_cb,
LEMMA ScanDiscovered ==
  ASSUME FollowInv, NEW d \in Devices, BluetoothDiscovered(d)
  PROVE  ScanInv' /\ ExactInv'
<1> DEFINE x == [op |-> "bt_found", dev |-> d]
<1>0. queue \in Seq(Jobs)
  BY QueueIsSeq DEF FollowInv
<1>1. x \in Jobs /\ x.op = "bt_found" /\ x.dev = d
  BY JobFacts
<1>2. /\ "BLUETOOTH" \in scanning /\ air[<<"BLUETOOTH", d>>] # None /\ d \notin bt_devices
      /\ bt_devices' = bt_devices \cup {d} /\ queue' = Append(queue, x)
      /\ UNCHANGED <<air, name, scanning, discovering, told, discovered_endpoints, sources>>
  BY DEF BluetoothDiscovered, Post, airVars, handlerVars
<1> HIDE DEF x
<1>3. Longer(queue, queue', x, Len(queue) + 1)
  BY <1>0, <1>1, <1>2, LongerQueue
<1>4. discovering
  BY <1>2 DEF FollowInv, ScanInv
<1>5. NoneBehind(queue')
  BY <1>3, <1>4, NoStartWaits, NoneBehindPosted DEF FollowInv, ScanInv
<1>6. ScanInv'
  BY <1>2, <1>4, <1>5 DEF FollowInv, ScanInv
<1>7. ASSUME sources' \subseteq {"BLUETOOTH"} PROVE Exactly'
  <2>1. Exactly
    BY <1>2, <1>4, <1>7 DEF FollowInv, ExactInv
  <2>2. Single(State)'
    BY <1>2, <2>1 DEF Exactly, State
  <2>3. ASSUME NEW e \in Devices
        PROVE  Behind(queue', e, air'[<<"BLUETOOTH", e>>], name'[e], bt_devices', told'[e])
    <3>1. Behind(queue, e, air[<<"BLUETOOTH", e>>], name[e], bt_devices, told[e])
      BY <2>1 DEF Exactly
    <3>2. CASE e = d
      <4>1. d \in bt_devices'
        BY <1>2
      <4>2. Behind(queue', e, air[<<"BLUETOOTH", e>>], name[e], bt_devices', told[e])
        <5>1. /\ x.op = "bt_found" /\ x.dev = e /\ air[<<"BLUETOOTH", e>>] # None
              /\ e \notin bt_devices /\ e \in bt_devices'
          BY <1>1, <1>2, <3>2, <4>1
        <5> QED BY <1>3, <3>1, <5>1, BehindFound
      <4> QED BY <1>2, <4>2
    <3>3. CASE e # d
      <4>1. Else(x, e)
        BY <1>1, <3>3, ElseDevice
      <4>2. Behind(queue', e, air[<<"BLUETOOTH", e>>], name[e], bt_devices, told[e])
        BY <1>3, <3>1, <4>1, BehindElsePosted
      <4>3. e \in bt_devices <=> e \in bt_devices'
        BY <1>2, <3>3
      <4>4. Behind(queue', e, air[<<"BLUETOOTH", e>>], name[e], bt_devices', told[e])
        BY <4>2, <4>3, BehindSame
      <4> QED BY <1>2, <4>4
    <3> QED BY <3>2, <3>3
  <2> QED BY <2>2, <2>3 DEF Exactly
<1> QED BY <1>6, <1>7 DEF ExactInv

\* device_name_changed_cb,
LEMMA ScanRenamed ==
  ASSUME FollowInv, NEW d \in Devices, NEW i \in Shown, BluetoothRenamed(d, i)
  PROVE  ScanInv' /\ ExactInv'
<1> DEFINE x == [op |-> "bt_changed", dev |-> d]
<1>0. /\ queue \in Seq(Jobs) /\ i # None /\ bt_devices \subseteq Devices
      /\ air \in [AllMediums \X Devices -> Shown \cup {None}] /\ name \in [Devices -> Shown]
  BY DiscoveryAssumption, QueueIsSeq DEF FollowInv, ListedInv, AirType, MediumType, Shown
<1>1. x \in Jobs /\ x.op = "bt_changed" /\ x.dev = d
  BY JobFacts
<1>2. /\ air[<<"BLUETOOTH", d>>] # None
      /\ air' = [air EXCEPT ![<<"BLUETOOTH", d>>] = i] /\ name' = [name EXCEPT ![d] = i]
      /\ IF d \in bt_devices THEN queue' = Append(queue, x) ELSE queue' = queue
      /\ UNCHANGED <<scanning, bt_devices, discovering, told, discovered_endpoints, sources>>
  BY DEF BluetoothRenamed, Post, mediumVars, handlerVars
<1> HIDE DEF x
<1>3. d \in bt_devices => Longer(queue, queue', x, Len(queue) + 1)
  BY <1>0, <1>1, <1>2, LongerQueue
<1>4. d \in bt_devices => discovering
  BY DEF FollowInv, ScanInv
<1>5. /\ air'[<<"BLUETOOTH", d>>] = i /\ name'[d] = i
      /\ \A e \in Devices : e # d => air'[<<"BLUETOOTH", e>>] = air[<<"BLUETOOTH", e>>] /\ name'[e] = name[e]
  <2>1. \A e \in Devices : <<"BLUETOOTH", e>> \in AllMediums \X Devices
    BY MediumNames
  <2>2. \A e \in Devices : e # d => <<"BLUETOOTH", d>> # <<"BLUETOOTH", e>>
    OBVIOUS
  <2> QED BY <1>0, <1>2, <2>1, <2>2
<1>6. NoneBehind(queue')
  <2>1. CASE d \in bt_devices
    BY <1>3, <1>4, <2>1, NoStartWaits, NoneBehindPosted DEF FollowInv, ScanInv
  <2>2. CASE d \notin bt_devices
    BY <1>2, <2>2 DEF FollowInv, ScanInv
  <2> QED BY <2>1, <2>2
<1>7. ScanInv'
  <2>1. \A e \in bt_devices : air'[<<"BLUETOOTH", e>>] # None
    BY <1>0, <1>5 DEF FollowInv, ScanInv
  <2> QED BY <1>2, <1>6, <2>1 DEF FollowInv, ScanInv
<1>8. ASSUME discovering', sources' \subseteq {"BLUETOOTH"} PROVE Exactly'
  <2>1. Exactly
    BY <1>2, <1>8 DEF FollowInv, ExactInv
  <2>2. Single(State)'
    BY <1>2, <2>1 DEF Exactly, State
  <2>3. ASSUME NEW e \in Devices
        PROVE  Behind(queue', e, air'[<<"BLUETOOTH", e>>], name'[e], bt_devices', told'[e])
    <3>1. Behind(queue, e, air[<<"BLUETOOTH", e>>], name[e], bt_devices, told[e])
      BY <2>1 DEF Exactly
    <3>2. CASE e = d /\ d \in bt_devices
      <4>1. Behind(queue', e, i, i, bt_devices, told[e])
        <5>1. x.op = "bt_changed" /\ x.dev = e /\ air[<<"BLUETOOTH", e>>] # None /\ e \in bt_devices
          BY <1>1, <1>2, <3>2
        <5>2. Longer(queue, queue', x, Len(queue) + 1)
          BY <1>3, <3>2
        <5> QED BY <3>1, <5>1, <5>2, BehindRenamed
      <4> QED BY <1>2, <1>5, <3>2, <4>1
    <3>3. CASE e = d /\ d \notin bt_devices
      <4>1. \A j \in DOMAIN queue : ~Fresh(queue[j], e)
        BY <1>2, <3>1, <3>3, NoneFresh
      <4>2. Behind(queue, e, i, i, bt_devices, told[e])
        BY <3>1, <3>3, <4>1, BehindSeen
      <4> QED BY <1>2, <1>5, <3>3, <4>2
    <3>4. CASE e # d
      <4>1. Behind(queue', e, air[<<"BLUETOOTH", e>>], name[e], bt_devices, told[e])
        <5>1. CASE d \in bt_devices
          <6>1. Else(x, e)
            BY <1>1, <3>4, ElseDevice
          <6> QED BY <1>3, <3>1, <5>1, <6>1, BehindElsePosted
        <5>2. CASE d \notin bt_devices
          BY <1>2, <3>1, <5>2
        <5> QED BY <5>1, <5>2
      <4> QED BY <1>2, <1>5, <3>4, <4>1
    <3> QED BY <3>2, <3>3, <3>4
  <2> QED BY <2>2, <2>3 DEF Exactly
<1> QED BY <1>7, <1>8 DEF ExactInv

\* device_lost_cb,
LEMMA ScanLost ==
  ASSUME FollowInv, NEW d \in Devices, BluetoothLost(d)
  PROVE  ScanInv' /\ ExactInv'
<1> DEFINE x == [op |-> "bt_lost", dev |-> d, info |-> name[d]]
<1>0. /\ queue \in Seq(Jobs) /\ bt_devices \subseteq Devices /\ name[d] \in Shown
      /\ air \in [AllMediums \X Devices -> Shown \cup {None}]
  BY QueueIsSeq DEF FollowInv, ListedInv, AirType, MediumType
<1>1. x \in Jobs /\ x.op = "bt_lost" /\ x.dev = d /\ x.info = name[d]
  BY <1>0, JobFacts
<1>2. /\ air[<<"BLUETOOTH", d>>] # None
      /\ air' = [air EXCEPT ![<<"BLUETOOTH", d>>] = None] /\ bt_devices' = bt_devices \ {d}
      /\ IF d \in bt_devices THEN queue' = Append(queue, x) ELSE queue' = queue
      /\ UNCHANGED <<name, scanning, discovering, told, discovered_endpoints, sources>>
  BY DEF BluetoothLost, Post, handlerVars
<1> HIDE DEF x
<1>3. d \in bt_devices => Longer(queue, queue', x, Len(queue) + 1)
  BY <1>0, <1>1, <1>2, LongerQueue
<1>4. d \in bt_devices => discovering
  BY DEF FollowInv, ScanInv
<1>5. /\ air'[<<"BLUETOOTH", d>>] = None
      /\ \A e \in Devices : e # d => air'[<<"BLUETOOTH", e>>] = air[<<"BLUETOOTH", e>>]
  <2>1. \A e \in Devices : <<"BLUETOOTH", e>> \in AllMediums \X Devices
    BY MediumNames
  <2>2. \A e \in Devices : e # d => <<"BLUETOOTH", d>> # <<"BLUETOOTH", e>>
    OBVIOUS
  <2> QED BY <1>0, <1>2, <2>1, <2>2
<1>6. NoneBehind(queue')
  <2>1. CASE d \in bt_devices
    BY <1>3, <1>4, <2>1, NoStartWaits, NoneBehindPosted DEF FollowInv, ScanInv
  <2>2. CASE d \notin bt_devices
    BY <1>2, <2>2 DEF FollowInv, ScanInv
  <2> QED BY <2>1, <2>2
<1>7. ScanInv'
  <2>1. \A e \in bt_devices' : air'[<<"BLUETOOTH", e>>] # None
    BY <1>0, <1>2, <1>5 DEF FollowInv, ScanInv
  <2> QED BY <1>2, <1>6, <2>1 DEF FollowInv, ScanInv
<1>8. ASSUME discovering', sources' \subseteq {"BLUETOOTH"} PROVE Exactly'
  <2>1. Exactly
    BY <1>2, <1>8 DEF FollowInv, ExactInv
  <2>2. Single(State)'
    BY <1>2, <2>1 DEF Exactly, State
  <2>3. ASSUME NEW e \in Devices
        PROVE  Behind(queue', e, air'[<<"BLUETOOTH", e>>], name'[e], bt_devices', told'[e])
    <3>1. Behind(queue, e, air[<<"BLUETOOTH", e>>], name[e], bt_devices, told[e])
      BY <2>1 DEF Exactly
    <3>2. CASE e = d /\ d \in bt_devices
      <4>1. d \notin bt_devices'
        BY <1>2
      <4>2. Behind(queue', e, None, name[e], bt_devices', told[e])
        <5>1. /\ x.op = "bt_lost" /\ x.dev = e /\ x.info = name[e]
              /\ air[<<"BLUETOOTH", e>>] # None /\ e \in bt_devices /\ e \notin bt_devices'
          BY <1>1, <1>2, <3>2, <4>1
        <5>2. Longer(queue, queue', x, Len(queue) + 1)
          BY <1>3, <3>2
        <5> QED BY <3>1, <5>1, <5>2, BehindLost
      <4> QED BY <1>2, <1>5, <3>2, <4>2
    <3>3. CASE e = d /\ d \notin bt_devices
      <4>1. \A j \in DOMAIN queue : ~Fresh(queue[j], e)
        BY <1>2, <3>1, <3>3, NoneFresh
      <4>2. Behind(queue, e, None, name[e], bt_devices, told[e])
        BY <3>1, <3>3, <4>1, BehindSeen
      <4>3. bt_devices' = bt_devices
        BY <1>2, <3>3
      <4> QED BY <1>2, <1>5, <3>3, <4>2, <4>3
    <3>4. CASE e # d
      <4>1. Behind(queue', e, air[<<"BLUETOOTH", e>>], name[e], bt_devices, told[e])
        <5>1. CASE d \in bt_devices
          <6>1. Else(x, e)
            BY <1>1, <3>4, ElseDevice
          <6> QED BY <1>3, <3>1, <5>1, <6>1, BehindElsePosted
        <5>2. CASE d \notin bt_devices
          BY <1>2, <3>1, <5>2
        <5> QED BY <5>1, <5>2
      <4>2. e \in bt_devices <=> e \in bt_devices'
        BY <1>2, <3>4
      <4>3. Behind(queue', e, air[<<"BLUETOOTH", e>>], name[e], bt_devices', told[e])
        BY <4>1, <4>2, BehindSame
      <4> QED BY <1>2, <1>5, <3>4, <4>3
    <3> QED BY <3>2, <3>3, <3>4
  <2> QED BY <2>2, <2>3 DEF Exactly
<1> QED BY <1>7, <1>8 DEF ExactInv

\* the callbacks of the other mediums and the API calls.
LEMMA ScanOthers ==
  ASSUME FollowInv,
         \/ \E d \in Devices : BleDiscovered(d) \/ BleLost(d) \/ WifiLanDiscovered(d) \/ WifiLanLost(d)
         \/ \E x \in Jobs : x.op \in ApiOps /\ Call(x)
  PROVE  ScanInv' /\ ExactInv'
<1>0. /\ air \in [AllMediums \X Devices -> Shown \cup {None}]
      /\ \A e \in Devices : <<"BLUETOOTH", e>> \in AllMediums \X Devices
  BY MediumNames DEF FollowInv, ListedInv, AirType
<1>1. ASSUME NEW d \in Devices, NEW m \in AllMediums, air[<<m, d>>] # None PROVE air[<<m, d>>] \in Shown
  BY <1>0, <1>1, RadioFacts
<1>2. ASSUME NEW d \in Devices, BleDiscovered(d) PROVE ScanInv' /\ ExactInv'
  <2> DEFINE x == [op |-> "ble_found", dev |-> d, info |-> air[<<"BLE", d>>]]
  <2>1. UNCHANGED <<air, name, scanning, bt_devices, handlerVars>> /\ (queue' = queue \/ Post(x))
    BY <1>2 DEF BleDiscovered, airVars
  <2>2. x \in Jobs /\ x.op \notin BtOps
    BY <1>1, <1>2, JobFacts, MediumNames DEF BleDiscovered, BtOps
  <2> HIDE DEF x
  <2> QED BY <2>1, <2>2, QuietPost
<1>3. ASSUME NEW d \in Devices, BleLost(d) PROVE ScanInv' /\ ExactInv'
  <2> DEFINE x == [op |-> "ble_lost", dev |-> d]
  <2>1. UNCHANGED <<name, scanning, bt_devices, handlerVars>> /\ (queue' = queue \/ Post(x))
    BY <1>3 DEF BleLost
  <2>2. x \in Jobs /\ x.op \notin BtOps
    BY JobFacts DEF BtOps
  <2> HIDE DEF x
  <2>3. \A e \in Devices : air'[<<"BLUETOOTH", e>>] = air[<<"BLUETOOTH", e>>]
    <3>1. air' = [air EXCEPT ![<<"BLE", d>>] = None]
      BY <1>3 DEF BleLost
    <3>2. \A e : <<"BLE", d>> # <<"BLUETOOTH", e>>
      OBVIOUS
    <3> QED BY <1>0, <3>1, <3>2
  <2> QED BY <2>1, <2>2, <2>3, QuietPost
<1>4. ASSUME NEW d \in Devices, WifiLanDiscovered(d) PROVE ScanInv' /\ ExactInv'
  <2> DEFINE x == [op |-> "wifi_found", dev |-> d, info |-> air[<<"WIFI_LAN", d>>]]
  <2>1. UNCHANGED <<air, name, scanning, bt_devices, handlerVars>> /\ (queue' = queue \/ Post(x))
    BY <1>4 DEF WifiLanDiscovered, airVars
  <2>2. x \in Jobs /\ x.op \notin BtOps
    BY <1>1, <1>4, JobFacts, MediumNames DEF WifiLanDiscovered, BtOps
  <2> HIDE DEF x
  <2> QED BY <2>1, <2>2, QuietPost
<1>5. ASSUME NEW d \in Devices, WifiLanLost(d) PROVE ScanInv' /\ ExactInv'
  <2> DEFINE x == [op |-> "wifi_lost", dev |-> d, info |-> air[<<"WIFI_LAN", d>>]]
  <2>1. UNCHANGED <<name, scanning, bt_devices, handlerVars>> /\ (queue' = queue \/ Post(x))
    BY <1>5 DEF WifiLanLost
  <2>2. x \in Jobs /\ x.op \notin BtOps
    BY <1>1, <1>5, JobFacts, MediumNames DEF WifiLanLost, BtOps
  <2> HIDE DEF x
  <2>3. \A e \in Devices : air'[<<"BLUETOOTH", e>>] = air[<<"BLUETOOTH", e>>]
    <3>1. air' = [air EXCEPT ![<<"WIFI_LAN", d>>] = None]
      BY <1>5 DEF WifiLanLost
    <3>2. \A e : <<"WIFI_LAN", d>> # <<"BLUETOOTH", e>>
      OBVIOUS
    <3> QED BY <1>0, <3>1, <3>2
  <2> QED BY <2>1, <2>2, <2>3, QuietPost
<1>6. ASSUME NEW x \in Jobs, x.op \in ApiOps, Call(x) PROVE ScanInv' /\ ExactInv'
  <2>1. UNCHANGED <<air, name, scanning, bt_devices, handlerVars>> /\ Post(x)
    BY <1>6 DEF Call, airVars, mediumVars
  <2>2. x.op \notin BtOps
    BY <1>6 DEF ApiOps, BtOps
  <2> QED BY <2>1, <2>2, QuietPost
<1> QED BY <1>2, <1>3, <1>4, <1>5, <1>6

\* Without jobs and devices the client knows nothing.
LEMMA NoJobs ==
  ASSUME NEW q, NEW d, NEW shown, NEW called, \A i \in DOMAIN q : Else(q[i], d)
  PROVE  Behind(q, d, shown, called, {}, None)
<1>1. Aligned(q, d) /\ Away(q, d, shown, called, {}) /\ Ends(q, d, {})
  BY DEF Else, Aligned, Away, Ends
<1>2. \A i \in DOMAIN q : ~Gone(q[i], d) /\ ~(q[i].op = "bt_found" /\ q[i].dev = d)
  BY DEF Else, Fresh
<1>3. Believed(q, d, called, {}, None)
  BY <1>2 DEF Believed
<1> QED BY <1>1, <1>3 DEF Behind

\* The job of StartDiscovery,
LEMMA ScanStart ==
  ASSUME FollowInv, StartJob
  PROVE  ScanInv' /\ ExactInv'
<1> DEFINE on == Head(queue).on
<1>1. queue # <<>> /\ Head(queue).op = "start" /\ queue' = Tail(queue) /\ UNCHANGED <<air, name>>
  BY DEF StartJob, Runs, Returns, airVars
<1>2. queue \in Seq(Jobs)
  BY QueueIsSeq DEF FollowInv
<1>3. Shorter(queue, queue') /\ Head(queue) = queue[1]
  BY <1>1, <1>2, ShorterQueue
<1>4. ~discovering
  <2>1. 1 \in DOMAIN queue
    BY <1>3 DEF Shorter
  <2> QED BY <1>1, <1>3, <2>1, QueueIsSeq DEF FollowInv
<1>5. CASE on = {}
  <2>1. UNCHANGED <<scanning, bt_devices, discovering>>
    BY <1>5 DEF StartJob, mediumVars, handlerVars
  <2> QED BY <1>1, <1>4, <2>1, QuietRun
<1>6. CASE on # {}
  <2>1. /\ bt_devices' = {} /\ discovered_endpoints' = <<>> /\ discovering' = TRUE /\ told' = told
    BY <1>6 DEF StartJob
  <2>2. told' = [d \in Devices |-> None]
    BY <1>4, <2>1 DEF FollowInv, ListedInv, HandlerInv
  <2>3. NoneBehind(queue')
    BY <1>3, NoneBehindRun DEF FollowInv, ScanInv
  <2>4. ScanInv'
    BY <2>1, <2>3 DEF ScanInv
  <2>5. DOMAIN <<>> = {}
    OBVIOUS
  <2>6. Single([table |-> discovered_endpoints', told |-> told'])
    BY <2>1, <2>5 DEF Single
  <2>7. Single(State)'
    BY <2>6 DEF State
  <2>8. ASSUME NEW d \in Devices
        PROVE  Behind(queue', d, air'[<<"BLUETOOTH", d>>], name'[d], bt_devices', told'[d])
    <3>1. \A i \in DOMAIN queue' : queue'[i].op \notin BtOps
      <4>1. 1 \in DOMAIN queue /\ queue[1].op = "start"
        BY <1>1, <1>3 DEF Shorter
      <4>2. \A i \in DOMAIN queue' : i + 1 \in DOMAIN queue /\ 1 < i + 1 /\ queue'[i] = queue[i + 1]
        BY <1>3 DEF Shorter
      <4> QED BY <4>1, <4>2 DEF FollowInv, ScanInv, NoneBehind
    <3>2. \A i \in DOMAIN queue' : Else(queue'[i], d)
      BY <3>1, ElseOp
    <3>3. Behind(queue', d, air'[<<"BLUETOOTH", d>>], name'[d], {}, None)
      BY <3>2, NoJobs
    <3> QED BY <2>1, <2>2, <3>3
  <2>9. Exactly'
    BY <2>7, <2>8 DEF Exactly
  <2> QED BY <2>4, <2>9 DEF ExactInv
<1> QED BY <1>5, <1>6

\* that of StopDiscovery,
LEMMA ScanStop ==
  ASSUME FollowInv, StopJob
  PROVE  ScanInv' /\ ExactInv'
<1>1. /\ queue # <<>> /\ queue' = Tail(queue) /\ scanning' = {} /\ bt_devices' = {}
      /\ discovering' = FALSE /\ air' = air
  BY DEF StopJob, Runs, Returns, airVars
<1>2. queue \in Seq(Jobs)
  BY QueueIsSeq DEF FollowInv
<1>3. Shorter(queue, queue')
  BY <1>1, <1>2, ShorterQueue
<1>4. NoneBehind(queue')
  BY <1>3, NoneBehindRun DEF FollowInv, ScanInv
<1> QED BY <1>1, <1>4 DEF ScanInv, ExactInv

\* that of InjectEndpoint,
LEMMA ScanInject ==
  ASSUME FollowInv, InjectJob
  PROVE  ScanInv' /\ ExactInv'
<1> DEFINE x == [op |-> "injected", dev |-> Head(queue).dev, info |-> Head(queue).info]
           t == Tail(queue)
<1>1. /\ queue # <<>> /\ Head(queue).op = "inject" /\ queue' = Append(t, x)
      /\ UNCHANGED <<air, name, scanning, bt_devices, discovering, told, discovered_endpoints, sources>>
  BY DEF InjectJob, Runs, airVars, mediumVars, handlerVars
<1>2. x \in Jobs /\ x.op \notin BtOps
  BY <1>1, HeadJob, JobFacts DEF FollowInv, BtOps
<1>3. queue \in Seq(Jobs)
  BY QueueIsSeq DEF FollowInv
<1>4. t \in Seq(Jobs)
  BY <1>1, <1>3, TailFacts
<1>5. Shorter(queue, t) /\ Head(queue) = queue[1]
  BY <1>1, <1>3, ShorterQueue
<1> HIDE DEF x, t
<1>6. Longer(t, queue', x, Len(t) + 1)
  BY <1>1, <1>2, <1>4, LongerQueue
<1>7. NoneBehind(t)
  BY <1>5, NoneBehindRun DEF FollowInv, ScanInv
<1>8. NoneBehind(queue')
  BY <1>2, <1>6, <1>7, NoneBehindPosted
<1>9. ScanInv'
  BY <1>1, <1>8 DEF FollowInv, ScanInv
<1>10. ASSUME discovering', sources' \subseteq {"BLUETOOTH"} PROVE Exactly'
  <2>1. Exactly
    BY <1>1, <1>10 DEF FollowInv, ExactInv
  <2>2. Single(State)'
    BY <1>1, <2>1 DEF Exactly, State
  <2>3. ASSUME NEW d \in Devices
        PROVE  Behind(queue', d, air'[<<"BLUETOOTH", d>>], name'[d], bt_devices', told'[d])
    <3>1. Behind(queue, d, air[<<"BLUETOOTH", d>>], name[d], bt_devices, told[d])
      BY <2>1 DEF Exactly
    <3>2. Else(queue[1], d) /\ Else(x, d)
      <4>1. queue[1].op \notin BtOps
        BY <1>1, <1>5 DEF BtOps
      <4> QED BY <1>2, <4>1, ElseOp
    <3>3. Behind(t, d, air[<<"BLUETOOTH", d>>], name[d], bt_devices, told[d])
      BY <1>5, <3>1, <3>2, BehindElseRun
    <3>4. Behind(queue', d, air[<<"BLUETOOTH", d>>], name[d], bt_devices, told[d])
      BY <1>6, <3>2, <3>3, BehindElsePosted
    <3> QED BY <1>1, <3>4
  <2> QED BY <2>2, <2>3 DEF Exactly
<1> QED BY <1>9, <1>10 DEF ExactInv

\* those of RequestConnection, BLE and Wi-Fi LAN,
LEMMA ScanQuietJobs ==
  ASSUME FollowInv, RequestJob \/ BleFoundJob \/ BleLostJob \/ WifiLanFoundJob
  PROVE  ScanInv' /\ ExactInv'
<1>1. /\ queue # <<>> /\ queue' = Tail(queue) /\ Head(queue).op \notin BtOps
      /\ UNCHANGED <<air, name, scanning, bt_devices>>
  BY DEF RequestJob, BleFoundJob, BleLostJob, WifiLanFoundJob, Runs, Done, Returns, BtOps, airVars, mediumVars
<1>2. /\ UNCHANGED discovering
      /\ \/ UNCHANGED <<told, discovered_endpoints, sources>>
         \/ ~(sources' \subseteq {"BLUETOOTH"})
  <2>1. CASE RequestJob
    <3> DEFINE d    == Head(queue).dev
               more == WithWebRtc(IF Head(queue).mac THEN WithMac(discovered_endpoints, d)
                                                     ELSE discovered_endpoints, d)
    <3>1. CASE EqualRange(discovered_endpoints, d) = {}
      BY <2>1, <3>1 DEF RequestJob, handlerVars
    <3>2. CASE EqualRange(discovered_endpoints, d) # {}
      <4>1. /\ discovered_endpoints' = more
            /\ sources' = IF more = discovered_endpoints THEN sources ELSE sources \cup {"MAC", "WEB_RTC"}
            /\ UNCHANGED <<discovering, told>>
        BY <2>1, <3>2 DEF RequestJob
      <4> HIDE DEF more
      <4> QED BY <4>1
    <3> QED BY <3>1, <3>2
  <2>2. CASE BleFoundJob
    <3>1. UNCHANGED handlerVars \/ (UNCHANGED discovering /\ "BLE" \in sources')
      BY <2>2 DEF BleFoundJob
    <3> QED BY <3>1 DEF handlerVars
  <2>3. CASE BleLostJob
    <3>1. UNCHANGED handlerVars \/ (UNCHANGED discovering /\ "BLE" \in sources')
      BY <2>3 DEF BleLostJob
    <3> QED BY <3>1 DEF handlerVars
  <2>4. CASE WifiLanFoundJob
    <3>1. UNCHANGED handlerVars \/ (UNCHANGED discovering /\ "WIFI_LAN" \in sources')
      BY <2>4 DEF WifiLanFoundJob
    <3> QED BY <3>1 DEF handlerVars
  <2> QED BY <2>1, <2>2, <2>3, <2>4
<1> QED BY <1>1, <1>2, QuietRun

\* that of BluetoothDeviceDiscoveredHandler,
LEMMA ScanFoundJob ==
  ASSUME FollowInv, BluetoothFoundJob
  PROVE  ScanInv' /\ ExactInv'
<1> DEFINE e == Head(queue).dev
           i == IF Head(queue).op = "injected" THEN Head(queue).info ELSE name[e]
<1>0. ListedInv /\ AirType /\ HandlerInv
  BY DEF FollowInv, ListedInv
<1>1. /\ queue # <<>> /\ queue' = Tail(queue) /\ Head(queue).op \in {"bt_found", "injected"}
      /\ UNCHANGED <<air, name, scanning, bt_devices>>
  BY DEF BluetoothFoundJob, Runs, Done, airVars, mediumVars
<1>2. e \in Devices /\ (Head(queue).op = "injected" => Head(queue).info \in Infos)
  BY <1>0, <1>1, HeadJob, JobFacts
<1>3. CASE ~discovering
  <2>1. UNCHANGED discovering
    BY <1>3 DEF BluetoothFoundJob, handlerVars
  <2> QED BY <1>1, <1>3, <2>1, QuietRun
<1>4. CASE discovering /\ Head(queue).op = "injected"
  <2>1. i # Foreign
    BY <1>2, <1>4, DiscoveryAssumption
  <2>2. UNCHANGED discovering /\ "INJECTED" \in sources'
    BY <1>4, <2>1 DEF BluetoothFoundJob
  <2> QED BY <1>1, <2>2, QuietRun
<1>5. CASE discovering /\ Head(queue).op = "bt_found"
  <2>0. Fresh(Head(queue), e) /\ i = name[e] /\ name[e] \in Shown
    BY <1>0, <1>2, <1>5 DEF Fresh, AirType
  <2>1. UNCHANGED discovering /\ sources \subseteq sources'
    BY <1>5 DEF BluetoothFoundJob, handlerVars
  <2>2. ASSUME Exactly PROVE \E s : Becomes(s) /\ Heard(State, s, e, KnownAs(name[e]))
    <3>1. told[e] = None
      BY <1>1, <1>2, <1>5, <2>2, BehindHead
    <3>2. CASE name[e] = Foreign
      <4>1. UNCHANGED <<told, discovered_endpoints>>
        BY <1>5, <2>0, <3>2 DEF BluetoothFoundJob, handlerVars
      <4>2. Becomes(State) /\ Heard(State, State, e, told[e])
        BY <1>0, <1>2, <1>5, <2>2, <4>1, NothingHeard
      <4>3. told[e] = KnownAs(name[e])
        BY <3>1, <3>2 DEF KnownAs
      <4> QED BY <4>2, <4>3
    <3>3. CASE name[e] # Foreign
      <4>1. Becomes(EndpointFound(State, Endpoint(e, "BLUETOOTH", name[e])))
        BY <1>5, <2>0, <3>3 DEF BluetoothFoundJob
      <4>2. name[e] \in Infos /\ KnownAs(name[e]) = name[e]
        BY <2>0, <3>3, ShownFacts DEF KnownAs
      <4>3. State \in States /\ Listed(State) /\ Single(State) /\ State.told[e] = None
        BY <1>0, <1>5, <2>2, <3>1, HandlerState DEF Exactly
      <4> HIDE DEF e
      <4>4. Heard(State, EndpointFound(State, Endpoint(e, "BLUETOOTH", name[e])), e, name[e])
        BY <1>2, <4>2, <4>3, SingleFound
      <4> QED BY <4>1, <4>2, <4>4
    <3> QED BY <3>2, <3>3
  <2> HIDE DEF i
  <2> QED BY <1>1, <1>2, <1>5, <2>0, <2>1, <2>2, BluetoothRun
<1> QED BY <1>1, <1>3, <1>4, <1>5

\* that of BluetoothDeviceLostHandler,
LEMMA ScanLostJob ==
  ASSUME FollowInv, LostJob
  PROVE  ScanInv' /\ ExactInv'
<1> DEFINE e == Head(queue).dev
           i == Head(queue).info
<1>0. ListedInv /\ HandlerInv
  BY DEF FollowInv, ListedInv
<1>1. /\ queue # <<>> /\ queue' = Tail(queue) /\ Head(queue).op \in {"bt_lost", "wifi_lost"}
      /\ UNCHANGED <<air, name, scanning, bt_devices>>
  BY DEF LostJob, Runs, Done, airVars, mediumVars
<1>2. e \in Devices /\ i \in Shown
  BY <1>0, <1>1, HeadJob, JobFacts
<1>3. CASE ~discovering
  <2>1. UNCHANGED discovering
    BY <1>3 DEF LostJob, handlerVars
  <2> QED BY <1>1, <1>3, <2>1, QuietRun
<1>4. CASE discovering /\ Head(queue).op = "wifi_lost"
  <2>1. \/ UNCHANGED handlerVars
        \/ UNCHANGED discovering /\ "WIFI_LAN" \in sources'
    BY <1>4 DEF LostJob
  <2>2. Head(queue).op \notin BtOps
    BY <1>4 DEF BtOps
  <2>3. /\ UNCHANGED discovering
        /\ \/ UNCHANGED <<told, discovered_endpoints, sources>>
           \/ ~(sources' \subseteq {"BLUETOOTH"})
    BY <2>1 DEF handlerVars
  <2> QED BY <1>1, <2>2, <2>3, QuietRun
<1>5. CASE discovering /\ Head(queue).op = "bt_lost"
  <2>0. Gone(Head(queue), e)
    BY <1>5 DEF Gone
  <2>1. UNCHANGED discovering /\ sources \subseteq sources'
    BY <1>5 DEF LostJob, handlerVars
  <2>2. ASSUME Exactly PROVE \E s : Becomes(s) /\ Heard(State, s, e, None)
    <3>1. told[e] = KnownAs(i)
      BY <1>1, <1>2, <2>0, <2>2, BehindHead
    <3>2. CASE i = Foreign
      <4>1. UNCHANGED <<told, discovered_endpoints>>
        BY <1>5, <3>2 DEF LostJob, handlerVars
      <4>2. Becomes(State) /\ Heard(State, State, e, told[e])
        BY <1>0, <1>2, <1>5, <2>2, <4>1, NothingHeard
      <4>3. told[e] = None
        BY <3>1, <3>2 DEF KnownAs
      <4> QED BY <4>2, <4>3
    <3>3. CASE i # Foreign
      <4> DEFINE p == [id |-> e, info |-> i]
      <4>1. Becomes(EndpointLost(State, p))
        BY <1>5, <3>3 DEF LostJob
      <4>2. told[e] = i /\ i # None /\ p.id = e /\ p.info = i
        BY <1>2, <3>1, <3>3, ShownFacts, DiscoveryAssumption DEF KnownAs
      <4>3. State \in States /\ Listed(State) /\ Single(State) /\ State.told = told
        BY <1>0, <1>5, <2>2, HandlerState DEF Exactly
      <4> HIDE DEF e, i, p
      <4>4. Heard(State, EndpointLost(State, p), p.id, None)
        BY <1>2, <4>2, <4>3, SingleLost
      <4> QED BY <4>1, <4>2, <4>4
    <3> QED BY <3>2, <3>3
  <2> QED BY <1>1, <1>2, <1>5, <2>0, <2>1, <2>2, BluetoothRun
<1> QED BY <1>1, <1>3, <1>4, <1>5

\* and that of BluetoothNameChangedHandler.
LEMMA ScanChangedJob ==
  ASSUME FollowInv, BluetoothChangedJob
  PROVE  ScanInv' /\ ExactInv'
<1> DEFINE e    == Head(queue).dev
           mine == OfDevice(discovered_endpoints, e)
           k    == CHOOSE i \in mine : \A j \in mine : i <= j
           lost == IF mine = {} THEN State ELSE EndpointLost(State, Value(discovered_endpoints[k]))
           s    == IF name[e] = Foreign THEN lost
                   ELSE EndpointFound(lost, Endpoint(e, "BLUETOOTH", name[e]))
<1>0. ListedInv /\ AirType /\ HandlerInv
  BY DEF FollowInv, ListedInv
<1>1. /\ queue # <<>> /\ queue' = Tail(queue) /\ Head(queue).op = "bt_changed"
      /\ UNCHANGED <<air, name, scanning, bt_devices>>
  BY DEF BluetoothChangedJob, Runs, Done, airVars, mediumVars
<1>2. e \in Devices /\ name[e] \in Shown /\ Fresh(Head(queue), e)
  <2>1. e \in Devices
    BY <1>0, <1>1, HeadJob, JobFacts
  <2> QED BY <1>0, <1>1, <2>1 DEF AirType, Fresh
<1>3. CASE ~discovering
  <2>1. UNCHANGED discovering
    BY <1>3 DEF BluetoothChangedJob, handlerVars
  <2> QED BY <1>1, <1>3, <2>1, QuietRun
<1>4. CASE discovering
  <2>1. UNCHANGED discovering /\ sources \subseteq sources' /\ Becomes(s)
    BY <1>4 DEF BluetoothChangedJob
  <2>2. ASSUME Exactly PROVE Heard(State, s, e, KnownAs(name[e]))
    <3>1. /\ State \in States /\ Listed(State) /\ Single(State)
          /\ State.told = told /\ State.table = discovered_endpoints
          /\ discovered_endpoints \in Seq(Entries)
      BY <1>0, <1>4, <2>2, HandlerState, StateFacts DEF Exactly
    <3> HIDE DEF e
    <3>2. Heard(State, lost, e, None)
      <4>1. CASE mine = {}
        <5>1. ~Has(discovered_endpoints, e)
          BY <3>1, <4>1 DEF OfDevice, Has, Single
        <5>2. told[e] = None
          BY <1>2, <3>1, <5>1 DEF Listed
        <5> QED BY <3>1, <4>1, <5>2 DEF Heard
      <4>2. CASE mine # {}
        <5>1. mine \in SUBSET Nat /\ mine \subseteq DOMAIN discovered_endpoints
          BY <3>1, TableFacts DEF OfDevice
        <5>2. k \in mine
          <6> HIDE DEF mine
          <6>1. \E m \in mine : \A j \in mine : m <= j
            BY <4>2, <5>1, Least
          <6> QED BY <6>1, Zenon
        <5> HIDE DEF k
        <5>3. k \in DOMAIN discovered_endpoints /\ discovered_endpoints[k].id = e
          BY <5>2 DEF OfDevice
        <5> DEFINE p == Value(discovered_endpoints[k])
        <5>4. /\ discovered_endpoints[k] \in Entries /\ p.id = e /\ p.info = discovered_endpoints[k].info
              /\ p.info \in Infos
          BY <3>1, <5>3, EntryFacts, TableFacts
        <5>5. told[e] = p.info
          BY <3>1, <5>3, <5>4 DEF Single
        <5>6. p.info # None
          BY <5>4, DiscoveryAssumption
        <5>7. lost = EndpointLost(State, p)
          BY <4>2
        <5> HIDE DEF p, lost
        <5>8. Heard(State, EndpointLost(State, p), p.id, None)
          BY <1>2, <3>1, <5>4, <5>5, <5>6, SingleLost
        <5> QED BY <5>4, <5>7, <5>8
      <4> QED BY <4>1, <4>2
    <3> HIDE DEF mine, k, lost
    <3>3. CASE name[e] = Foreign
      BY <3>2, <3>3 DEF KnownAs
    <3>4. CASE name[e] # Foreign
      <4>1. name[e] \in Infos /\ KnownAs(name[e]) = name[e]
        BY <1>2, <3>4, ShownFacts DEF KnownAs
      <4>2. /\ lost \in States /\ Listed(lost) /\ Single(lost) /\ lost.told[e] = None
            /\ \A d \in Devices : d # e => lost.told[d] = State.told[d]
        BY <3>2 DEF Heard
      <4>3. Heard(lost, EndpointFound(lost, Endpoint(e, "BLUETOOTH", name[e])), e, name[e])
        BY <1>2, <4>1, <4>2, SingleFound
      <4>4. s = EndpointFound(lost, Endpoint(e, "BLUETOOTH", name[e]))
        BY <3>4
      <4> HIDE DEF s
      <4>5. Heard(lost, s, e, name[e])
        BY <4>3, <4>4
      <4> QED BY <4>1, <4>2, <4>5 DEF Heard
    <3> QED BY <3>3, <3>4
  <2> HIDE DEF s
  <2> QED BY <1>1, <1>2, <1>4, <2>1, <2>2, BluetoothRun
<1> QED BY <1>3, <1>4

\* Every step keeps the invariant.
LEMMA FollowNext == FollowInv /\ [Next]_vars => FollowInv'
<1> SUFFICES ASSUME FollowInv, [Next]_vars PROVE FollowInv'
  OBVIOUS
<1>1. ListedInv'
  BY ListedNext DEF FollowInv
<1>2. CASE Next
  <2>1. ASSUME NEW r \in Radios, NEW i \in Shown, Appears(r[1], r[2], i) PROVE ScanInv' /\ ExactInv'
    <3>1. r[1] \in AllMediums /\ r[2] \in Devices
      BY DiscoveryAssumption
    <3> QED BY <2>1, <3>1, ScanAppears
  <2>2. ASSUME \/ \E d \in Devices : \/ \E i \in Infos : InjectEndpoint(d, i)
                                     \/ \E mac \in BOOLEAN : RequestConnection(d, mac)
               \/ \E on \in Starts : StartDiscovery(on)
               \/ StopDiscovery
        PROVE  \E x \in Jobs : x.op \in ApiOps /\ Call(x)
    <3>1. ASSUME NEW d \in Devices, NEW i \in Infos, InjectEndpoint(d, i)
          PROVE  \E x \in Jobs : x.op \in ApiOps /\ Call(x)
      <4> DEFINE x == [op |-> "inject", dev |-> d, info |-> i]
      <4>1. x \in Jobs /\ x.op \in ApiOps
        BY JobFacts DEF ApiOps
      <4>2. Call(x)
        BY <3>1 DEF InjectEndpoint
      <4> HIDE DEF x
      <4> QED BY <4>1, <4>2
    <3>2. ASSUME NEW d \in Devices, NEW mac \in BOOLEAN, RequestConnection(d, mac)
          PROVE  \E x \in Jobs : x.op \in ApiOps /\ Call(x)
      <4> DEFINE x == [op |-> "request", dev |-> d, mac |-> mac]
      <4>1. x \in Jobs
        BY JobFacts, Zenon
      <4>2. x.op \in ApiOps
        BY DEF ApiOps
      <4>3. Call(x)
        BY <3>2 DEF RequestConnection
      <4> HIDE DEF x
      <4> QED BY <4>1, <4>2, <4>3
    <3>3. ASSUME NEW on \in Starts, StartDiscovery(on) PROVE \E x \in Jobs : x.op \in ApiOps /\ Call(x)
      <4> DEFINE x == [op |-> "start", on |-> on]
      <4>1. x \in Jobs /\ x.op \in ApiOps
        BY JobFacts DEF ApiOps
      <4>2. Call(x)
        BY <3>3 DEF StartDiscovery
      <4> HIDE DEF x
      <4> QED BY <4>1, <4>2
    <3>4. ASSUME StopDiscovery PROVE \E x \in Jobs : x.op \in ApiOps /\ Call(x)
      <4> DEFINE x == [op |-> "stop"]
      <4>1. x \in Jobs /\ x.op \in ApiOps
        BY JobFacts DEF ApiOps
      <4>2. Call(x)
        BY <3>4 DEF StopDiscovery
      <4> HIDE DEF x
      <4> QED BY <4>1, <4>2
    <3> QED BY <2>2, <3>1, <3>2, <3>3, <3>4
  <2>3. ScanInv' /\ ExactInv'
    BY <1>2, <2>1, <2>2, ScanDiscovered, ScanRenamed, ScanLost, ScanOthers, ScanStart, ScanStop,
       ScanInject, ScanQuietJobs, ScanFoundJob, ScanChangedJob, ScanLostJob DEF Next
  <2> QED BY <1>1, <2>3 DEF FollowInv
<1>3. CASE UNCHANGED vars
  <2>1. UNCHANGED <<air, name, scanning, bt_devices, queue, discovering, told, discovered_endpoints, sources>>
    BY <1>3 DEF vars, airVars, mediumVars, handlerVars
  <2>2. ScanInv' /\ ExactInv'
    BY <2>1 DEF FollowInv, ScanInv, ExactInv, Exactly, State
  <2> QED BY <1>1, <2>2 DEF FollowInv
<1> QED BY <1>2, <1>3

\* It holds initially,
LEMMA FollowInit == Init => FollowInv
<1> SUFFICES ASSUME Init PROVE FollowInv
  OBVIOUS
<1>1. ListedInv
  BY ListedInit
<1>2. queue = <<>> /\ DOMAIN <<>> = {}
  BY DEF Init
<1>3. ScanInv
  BY <1>2 DEF Init, ScanInv, NoneBehind
<1>4. ExactInv
  BY DEF Init, ExactInv
<1> QED BY <1>1, <1>3, <1>4 DEF FollowInv

\* and implies ExactOnBluetooth.
LEMMA FollowImplies == FollowInv => ExactOnBluetooth
<1> SUFFICES ASSUME FollowInv, discovering, queue = <<>>, sources \subseteq {"BLUETOOTH"}, NEW d \in Devices
             PROVE  told[d] = IF d \in bt_devices /\ name[d] # Foreign THEN name[d] ELSE None
  BY DEF ExactOnBluetooth
<1>1. Behind(queue, d, air[<<"BLUETOOTH", d>>], name[d], bt_devices, told[d])
  BY DEF FollowInv, ExactInv, Exactly
<1>2. DOMAIN queue = {}
  OBVIOUS
<1>3. told[d] = IF d \in bt_devices THEN KnownAs(name[d]) ELSE None
  BY <1>1, <1>2 DEF Behind, Believed
<1> QED BY <1>3 DEF KnownAs

\* For any number of devices, renamings, losses and waiting jobs: as long as Bluetooth Classic
\* is all that has found or lost anything since StartDiscovery, the application knows, when no
\* job waits, exactly the recognised devices in range, each with the name it has now, although
\* the jobs run behind the events and read the name only when they run.
THEOREM ExactReports == Spec => []ExactOnBluetooth
<1>1. Init => FollowInv
  BY FollowInit
<1>2. FollowInv /\ [Next]_vars => FollowInv'
  BY FollowNext
<1>3. FollowInv => ExactOnBluetooth
  BY FollowImplies
<1> QED BY <1>1, <1>2, <1>3, PTL DEF Spec
=============================================================================
