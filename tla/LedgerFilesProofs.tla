------------------------- MODULE LedgerFilesProofs -------------------------
(***************************************************************************)
(* The files of the ledger, for any agents, texts and number of faults:    *)
(* what is taken from a text, what append said it wrote, and what is read  *)
(* back.                                                                   *)
(***************************************************************************)
EXTENDS LedgerFiles, Orders

\* The lines of f with something else in them than one record.
Torn(f) == {i \in DOMAIN file[f].lines : ~WholeLine(file[f].lines[i])}

\* Agent a has begun a line of f and not ended it.
Midline(a, f) == pc[a] = "finish" /\ Target(a) = f

\* Whoever is in _write has a record to write and the lock of its file.
Locked ==
  \A a \in Agents :
    pc[a] \in {"write", "finish"} => todo[a] # <<>> /\ holder[Target(a)] = a

\* The last thing begun in a file is the record of whoever is writing to it.
Begun ==
  \A a \in Agents :
    pc[a] = "finish" =>
      LET open == file[Target(a)].open IN
        open # <<>> /\ open[Len(open)] = Head(todo[a])

\* The lines end in the acknowledged records.
Kept ==
  \A f \in Files :
    /\ Len(file[f].lines) = Len(acked[f])
    /\ \A i \in 1..Len(acked[f]) : file[f].lines[i].ended = acked[f][i]

\* Torn lines and records begun and not ended are paid for by faults, but for the
\* one that is being written.
Spent ==
  \A f \in Files :
    LET owed == Cardinality(Torn(f)) + Len(file[f].open) IN
      /\ owed <= faults + 1
      /\ (\A a \in Agents : ~Midline(a, f)) => owed <= faults

FilesInv == TypeOK /\ Locked /\ Begun /\ Kept /\ Spent

-----------------------------------------------------------------------------

-----------------------------------------------------------------------------
(* Lists made by saying which element is the n-th *)

\* The pairs of numbers in S, the smaller first.
Ascending(S) == {p \in S \X S : p[1] < p[2]}

LEMMA NumbersInOrder ==
  ASSUME NEW S \in SUBSET Int
  PROVE  /\ StrictlyOrders(Ascending(S), S)
         /\ \A i \in S : Prior(Ascending(S), S, i) = {j \in S : j < i}
<1>1. \A i, j \in S : <<i, j>> \in Ascending(S) <=> i < j
  BY DEF Ascending
<1>2. \A i \in S : i \in Int
  OBVIOUS
<1>3. /\ \A i, j, k \in S : i < j /\ j < k => i < k
      /\ \A i \in S : ~(i < i)
      /\ \A i, j \in S : i # j => i < j \/ j < i
  BY <1>2
<1>4. StrictlyOrders(Ascending(S), S)
  BY <1>1, <1>3 DEF StrictlyOrders
<1>5. \A i \in S : Prior(Ascending(S), S, i) = {j \in S : j < i}
  BY <1>1 DEF Prior
<1> QED
  BY <1>4, <1>5

\* There is an n-th, and every member is one.
LEMMA NthIsThere ==
  ASSUME NEW S \in SUBSET Int, IsFiniteSet(S)
  PROVE  /\ \A n \in 1..Cardinality(S) :
              Nth(n, S) \in S /\ Cardinality({j \in S : j < Nth(n, S)}) = n - 1
         /\ \A i \in S : \E n \in 1..Cardinality(S) : Nth(n, S) = i
<1> DEFINE Rel == Ascending(S)
<1>1. /\ StrictlyOrders(Rel, S)
      /\ \A i \in S : Prior(Rel, S, i) = {j \in S : j < i}
  BY NumbersInOrder
<1> HIDE DEF Rel
<1>1a. \A n \in 1..Cardinality(S) : HasNth(Rel, S, n)
  BY <1>1, EachNumberTaken
<1>2. ASSUME NEW n \in 1..Cardinality(S)
      PROVE  Nth(n, S) \in S /\ Cardinality({j \in S : j < Nth(n, S)}) = n - 1
  <2>1. \E i \in S : Cardinality(Prior(Rel, S, i)) = n - 1
    BY <1>1a DEF HasNth
  <2>2. \E i \in S : Cardinality({j \in S : j < i}) = n - 1
    BY <1>1, <2>1
  <2> QED
    BY <2>2 DEF Nth
<1>3. ASSUME NEW i \in S
      PROVE  \E n \in 1..Cardinality(S) : Nth(n, S) = i
  <2>1. /\ Cardinality(S) \in Nat
        /\ Cardinality(Prior(Rel, S, i)) \in 0..(Cardinality(S) - 1)
        /\ \A j \in S :
             Cardinality(Prior(Rel, S, j)) = Cardinality(Prior(Rel, S, i)) => j = i
    BY <1>1, Numbered
  <2>2. PICK n \in 1..Cardinality(S) : n - 1 = Cardinality(Prior(Rel, S, i))
    <3>1. Cardinality(Prior(Rel, S, i)) + 1 \in 1..Cardinality(S)
      BY <2>1
    <3> QED
      BY <2>1, <3>1
  <2>3. /\ Nth(n, S) \in S
        /\ Cardinality(Prior(Rel, S, Nth(n, S))) = Cardinality(Prior(Rel, S, i))
    BY <1>1, <1>2, <2>2
  <2> QED
    BY <2>1, <2>3
<1> QED
  BY <1>2, <1>3

\* Places of a list are numbers, and finitely many.
LEMMA PlacesFinite ==
  ASSUME NEW T, NEW list \in Seq(T), NEW S \in SUBSET (DOMAIN list)
  PROVE  S \in SUBSET Int /\ IsFiniteSet(S) /\ Cardinality(S) \in Nat
<1>1. DOMAIN list = 1..Len(list) /\ Len(list) \in Int /\ 1 \in Int
  OBVIOUS
<1>2. IsFiniteSet(1..Len(list))
  BY <1>1, FS_Interval
<1>3. S \in SUBSET (1..Len(list))
  BY <1>1
<1>4. IsFiniteSet(S)
  BY <1>2, <1>3, FS_Subset
<1> QED
  BY <1>1, <1>3, <1>4, FS_CardinalityType

\* What is picked is a list of what stands at the places, and of nothing else.
LEMMA PickedIs ==
  ASSUME NEW T, NEW list \in Seq(T), NEW S \in SUBSET (DOMAIN list)
  PROVE  /\ Picked(list, S) \in Seq(T)
         /\ DOMAIN Picked(list, S) = 1..Cardinality(S)
         /\ \A n \in 1..Cardinality(S) :
              Nth(n, S) \in S /\ Picked(list, S)[n] = list[Nth(n, S)]
         /\ \A i \in S : \E n \in 1..Cardinality(S) : Picked(list, S)[n] = list[i]
<1>1. S \in SUBSET Int /\ IsFiniteSet(S) /\ Cardinality(S) \in Nat
  BY PlacesFinite
<1>2. /\ \A n \in 1..Cardinality(S) : Nth(n, S) \in S
      /\ \A i \in S : \E n \in 1..Cardinality(S) : Nth(n, S) = i
  BY <1>1, NthIsThere
<1>3. \A i \in S : list[i] \in T
  OBVIOUS
<1>4. DOMAIN Picked(list, S) = 1..Cardinality(S)
  BY DEF Picked
<1>5. \A n \in 1..Cardinality(S) : Picked(list, S)[n] = list[Nth(n, S)]
  BY DEF Picked
<1>6. Picked(list, S) \in Seq(T)
  <2>1. \A n \in 1..Cardinality(S) : list[Nth(n, S)] \in T
    BY <1>2, <1>3
  <2> QED
    BY <1>1, <2>1 DEF Picked
<1> QED
  BY <1>2, <1>4, <1>5, <1>6

\* Picking every place changes nothing.
LEMMA PickedAll ==
  ASSUME NEW T, NEW list \in Seq(T)
  PROVE  Picked(list, DOMAIN list) = list
<1> DEFINE S == DOMAIN list
<1>1. S = 1..Len(list) /\ Len(list) \in Int /\ 1 \in Int /\ Len(list) \in Nat
  OBVIOUS
<1>2. Cardinality(1..Len(list)) = Len(list)
  <2>1. Cardinality(1..Len(list)) = IF 1 > Len(list) THEN 0 ELSE Len(list) - 1 + 1
    BY <1>1, FS_Interval
  <2> QED
    BY <1>1, <2>1
<1>3. ASSUME NEW n \in 1..Len(list)
      PROVE  Nth(n, S) = n
  <2>1. S \in SUBSET Int /\ IsFiniteSet(S)
    BY PlacesFinite
  <2>2. Nth(n, S) \in S /\ Cardinality({j \in S : j < Nth(n, S)}) = n - 1
    BY <1>1, <1>2, <2>1, NthIsThere
  <2>3. PICK i \in 1..Len(list) : i = Nth(n, S)
    BY <1>1, <2>2
  <2>4. {j \in S : j < i} = 1..(i - 1)
    BY <1>1
  <2>5. i - 1 \in Int /\ 1 \in Int
    OBVIOUS
  <2>6. Cardinality(1..(i - 1)) = IF 1 > i - 1 THEN 0 ELSE (i - 1) - 1 + 1
    BY <2>5, FS_Interval
  <2>7. Cardinality(1..(i - 1)) = i - 1
    BY <2>6
  <2>8. i - 1 = n - 1
    BY <2>2, <2>3, <2>4, <2>7
  <2> QED
    BY <2>3, <2>8
<1>4. Picked(list, S) = [n \in 1..Len(list) |-> list[Nth(n, S)]]
  BY <1>1, <1>2 DEF Picked
<1>5. list = [n \in 1..Len(list) |-> list[n]]
  OBVIOUS
<1> HIDE DEF S
<1>6. [n \in 1..Len(list) |-> list[Nth(n, S)]] = [n \in 1..Len(list) |-> list[n]]
  BY <1>3
<1> QED
  BY <1>4, <1>5, <1>6 DEF S

\* The pairs of places in P, the one that is read first first.
Reading(P) == {d \in P \X P : Before(d[1], d[2])}

LEMMA PlacesInOrder ==
  ASSUME NEW P \in SUBSET (Int \X Int)
  PROVE  /\ StrictlyOrders(Reading(P), P)
         /\ \A p \in P : Prior(Reading(P), P, p) = {q \in P : Before(q, p)}
<1>1. \A p, q \in P : <<p, q>> \in Reading(P) <=> Before(p, q)
  BY DEF Reading
<1>2. \A p \in P : p[1] \in Int /\ p[2] \in Int /\ p = <<p[1], p[2]>>
  OBVIOUS
<1>3. \A p, q, r \in P : Before(p, q) /\ Before(q, r) => Before(p, r)
  BY <1>2 DEF Before
<1>4. \A p \in P : ~Before(p, p)
  BY <1>2 DEF Before
<1>5. \A p, q \in P : p # q => Before(p, q) \/ Before(q, p)
  <2> SUFFICES ASSUME NEW p \in P, NEW q \in P, ~Before(p, q), ~Before(q, p)
               PROVE  p = q
    OBVIOUS
  <2>1. p[1] = q[1] /\ p[2] = q[2]
    BY <1>2 DEF Before
  <2> QED
    BY <1>2, <2>1
<1>6. StrictlyOrders(Reading(P), P)
  BY <1>1, <1>3, <1>4, <1>5 DEF StrictlyOrders
<1>7. \A p \in P : Prior(Reading(P), P, p) = {q \in P : Before(q, p)}
  BY <1>1 DEF Prior
<1> QED
  BY <1>6, <1>7

\* The places of a list of lists are finitely many, and in each stands something.
LEMMA PlacesAre ==
  ASSUME NEW T, NEW lists \in Seq(Seq(T))
  PROVE  /\ Places(lists) \in SUBSET (Int \X Int)
         /\ IsFiniteSet(Places(lists)) /\ Cardinality(Places(lists)) \in Nat
         /\ \A p \in Places(lists) :
              /\ p[1] \in DOMAIN lists /\ p[2] \in DOMAIN lists[p[1]]
              /\ lists[p[1]][p[2]] \in T
         /\ \A i \in DOMAIN lists : \A j \in DOMAIN lists[i] : <<i, j>> \in Places(lists)
<1>1. /\ DOMAIN lists = 1..Len(lists) /\ Len(lists) \in Int /\ 1 \in Int
      /\ \A i \in DOMAIN lists : lists[i] \in Seq(T)
  OBVIOUS
<1>2. \A i \in DOMAIN lists :
        /\ DOMAIN lists[i] = 1..Len(lists[i]) /\ Len(lists[i]) \in Int
        /\ \A j \in DOMAIN lists[i] : lists[i][j] \in T
  BY <1>1
<1> DEFINE row == [i \in DOMAIN lists |-> {<<i, j>> : j \in DOMAIN lists[i]}]
<1>3. Places(lists) = UNION {row[i] : i \in DOMAIN lists}
  BY DEF Places
<1>4. \A p \in Places(lists) :
        \E i \in DOMAIN lists : \E j \in DOMAIN lists[i] : p = <<i, j>>
  BY <1>3
<1>5. \A i \in DOMAIN lists : \A j \in DOMAIN lists[i] : <<i, j>> \in Places(lists)
  BY <1>3
<1>6. \A p \in Places(lists) :
        /\ p[1] \in DOMAIN lists /\ p[2] \in DOMAIN lists[p[1]]
        /\ lists[p[1]][p[2]] \in T
  BY <1>2, <1>4
<1>7. Places(lists) \in SUBSET (Int \X Int)
  BY <1>1, <1>2, <1>4
<1>8. IsFiniteSet(DOMAIN lists)
  BY <1>1, FS_Interval
<1>9. ASSUME NEW i \in DOMAIN lists
      PROVE  IsFiniteSet(row[i])
  <2> DEFINE pair == [j \in DOMAIN lists[i] |-> <<i, j>>]
  <2>1. IsFiniteSet(DOMAIN lists[i])
    BY <1>1, <1>2, FS_Interval
  <2>2. row[i] = {pair[j] : j \in DOMAIN lists[i]}
    OBVIOUS
  <2> HIDE DEF pair, row
  <2>3. IsFiniteSet({pair[j] : j \in DOMAIN lists[i]})
    BY <2>1, FiniteImage
  <2> QED
    BY <2>2, <2>3
<1> HIDE DEF row
<1>10. IsFiniteSet(UNION {row[i] : i \in DOMAIN lists})
  BY <1>8, <1>9, FiniteUnion
<1>11. IsFiniteSet(Places(lists)) /\ Cardinality(Places(lists)) \in Nat
  BY <1>3, <1>10, FS_CardinalityType
<1> QED
  BY <1>5, <1>6, <1>7, <1>11

\* What is joined is a list of what stands in the lists, and of nothing else.
LEMMA JoinedIs ==
  ASSUME NEW T, NEW lists \in Seq(Seq(T))
  PROVE  /\ Joined(lists) \in Seq(T)
         /\ \A i \in DOMAIN lists : \A j \in DOMAIN lists[i] :
              \E n \in DOMAIN Joined(lists) : Joined(lists)[n] = lists[i][j]
         /\ (\A i \in DOMAIN lists : lists[i] = <<>>) => Joined(lists) = <<>>
<1> DEFINE P == Places(lists)
           Rel == Reading(P)
           at == [p \in P |-> lists[p[1]][p[2]]]
<1>1. /\ P \in SUBSET (Int \X Int) /\ IsFiniteSet(P) /\ Cardinality(P) \in Nat
      /\ \A p \in P : /\ p[1] \in DOMAIN lists /\ p[2] \in DOMAIN lists[p[1]]
                      /\ at[p] \in T
      /\ \A i \in DOMAIN lists : \A j \in DOMAIN lists[i] :
           <<i, j>> \in P /\ at[<<i, j>>] = lists[i][j]
  BY PlacesAre
<1>2. /\ StrictlyOrders(Rel, P)
      /\ \A p \in P : Prior(Rel, P, p) = {q \in P : Before(q, p)}
  BY <1>1, PlacesInOrder
<1>3. /\ DOMAIN Joined(lists) = 1..Cardinality(P)
      /\ \A n \in 1..Cardinality(P) :
           Joined(lists)[n] = lists[NthPlace(n, P)[1]][NthPlace(n, P)[2]]
  BY DEF Joined
<1>3a. Joined(lists) = [n \in 1..Cardinality(P) |-> Joined(lists)[n]]
  BY DEF Joined
<1> HIDE DEF Rel, P
<1>4. \A n \in 1..Cardinality(P) : HasNth(Rel, P, n)
  BY <1>1, <1>2, EachNumberTaken
<1>5. ASSUME NEW n \in 1..Cardinality(P)
      PROVE  /\ NthPlace(n, P) \in P
             /\ Cardinality(Prior(Rel, P, NthPlace(n, P))) = n - 1
  <2>1. \E p \in P : Cardinality({q \in P : Before(q, p)}) = n - 1
    BY <1>2, <1>4 DEF HasNth
  <2>2. /\ NthPlace(n, P) \in P
        /\ Cardinality({q \in P : Before(q, NthPlace(n, P))}) = n - 1
    BY <2>1 DEF NthPlace
  <2> QED
    BY <1>2, <2>2
<1>6. \A n \in 1..Cardinality(P) : Joined(lists)[n] = at[NthPlace(n, P)]
  BY <1>3, <1>5
<1>7. ASSUME NEW p \in P
      PROVE  \E n \in 1..Cardinality(P) : Joined(lists)[n] = at[p]
  <2>1. /\ Cardinality(Prior(Rel, P, p)) \in 0..(Cardinality(P) - 1)
        /\ \A q \in P :
             Cardinality(Prior(Rel, P, q)) = Cardinality(Prior(Rel, P, p)) => q = p
    BY <1>1, <1>2, Numbered
  <2>2. PICK n \in 1..Cardinality(P) : n - 1 = Cardinality(Prior(Rel, P, p))
    <3>1. Cardinality(Prior(Rel, P, p)) + 1 \in 1..Cardinality(P)
      BY <1>1, <2>1
    <3> QED
      BY <1>1, <2>1, <3>1
  <2>3. NthPlace(n, P) = p
    BY <1>5, <2>1, <2>2
  <2> QED
    BY <1>6, <2>3
<1> HIDE DEF at
<1>8. Joined(lists) \in Seq(T)
  <2>1. \A n \in 1..Cardinality(P) : Joined(lists)[n] \in T
    BY <1>1, <1>5, <1>6
  <2>2. [n \in 1..Cardinality(P) |-> Joined(lists)[n]] \in Seq(T)
    BY <1>1, <2>1
  <2> QED
    BY <1>3a, <2>2
<1>9. ASSUME NEW i \in DOMAIN lists, NEW j \in DOMAIN lists[i]
      PROVE  \E n \in DOMAIN Joined(lists) : Joined(lists)[n] = lists[i][j]
  <2>1. <<i, j>> \in P /\ at[<<i, j>>] = lists[i][j]
    BY <1>1
  <2>2. PICK n \in 1..Cardinality(P) : Joined(lists)[n] = at[<<i, j>>]
    BY <1>7, <2>1
  <2>3. n \in DOMAIN Joined(lists)
    BY <1>3
  <2> QED
    BY <2>1, <2>2, <2>3
<1>10. ASSUME \A i \in DOMAIN lists : lists[i] = <<>>
       PROVE  Joined(lists) = <<>>
  <2>1. P = {}
    <3>1. ASSUME NEW p \in P PROVE FALSE
      <4>1. p[1] \in DOMAIN lists /\ p[2] \in DOMAIN lists[p[1]]
        BY <1>1
      <4>2. lists[p[1]] = <<>>
        BY <1>10, <4>1
      <4> QED
        BY <4>1, <4>2
    <3> QED
      BY <3>1
  <2>2. Cardinality(P) = 0
    BY <2>1, FS_EmptySet
  <2>3. DOMAIN Joined(lists) = {}
    BY <1>3, <2>2
  <2> QED
    BY <1>8, <2>3
<1> QED
  BY <1>8, <1>9, <1>10

-----------------------------------------------------------------------------
(* What is taken from a text *)

LEMMA OnLinesTyped ==
  ASSUME NEW chunk \in Seq(Values)
  PROVE  OnLines(chunk) \in Seq(Records)
<1> DEFINE S == {i \in DOMAIN chunk : chunk[i].layout = "line"}
           lines == Picked(chunk, S)
<1>1. /\ lines \in Seq(Values) /\ DOMAIN lines = 1..Cardinality(S)
      /\ \A n \in 1..Cardinality(S) : Nth(n, S) \in S /\ lines[n] = chunk[Nth(n, S)]
  BY PickedIs
<1>2. Cardinality(S) \in Nat
  BY PlacesFinite
<1>3. ASSUME NEW n \in 1..Cardinality(S)
      PROVE  lines[n].recs[1] \in Records
  <2>1. lines[n] \in Values /\ lines[n].layout = "line"
    <3>1. PICK i \in S : lines[n] = chunk[i]
      BY <1>1
    <3>2. chunk[i] \in Values /\ chunk[i].layout = "line"
      OBVIOUS
    <3> QED
      BY <3>1, <3>2
  <2>2. lines[n].recs \in Seq(Records) /\ Len(lines[n].recs) = 1
    BY <2>1 DEF Values
  <2> QED
    BY <2>2
<1>4. OnLines(chunk) = [n \in 1..Cardinality(S) |-> lines[n].recs[1]]
  BY <1>1 DEF OnLines
<1> HIDE DEF lines, S
<1> QED
  BY <1>2, <1>3, <1>4

LEMMA ParseLinesTyped ==
  ASSUME NEW chunk \in Seq(Values)
  PROVE  ParseLines(chunk) \in Seq(Records)
<1>1. OnLines(chunk) \in Seq(Records)
  BY OnLinesTyped
<1>2. Whole(chunk) \in Seq(Records)
  <2>1. CASE Len(chunk) = 1
    <3>1. chunk[1] \in Values
      BY <2>1
    <3> QED
      BY <2>1, <3>1 DEF Whole, Values
  <2> QED
    BY <2>1 DEF Whole
<1> QED
  BY <1>1, <1>2 DEF ParseLines

\* Of what is said more than once the first place is kept, and only that.
LEMMA UniqueIs ==
  ASSUME NEW T, NEW recs \in Seq(T)
  PROVE  /\ Unique(recs) \in Seq(T)
         /\ \A i \in DOMAIN recs : \E n \in DOMAIN Unique(recs) : Unique(recs)[n] = recs[i]
         /\ \A m, n \in DOMAIN Unique(recs) : Unique(recs)[m] = Unique(recs)[n] => m = n
<1> DEFINE S == {i \in DOMAIN recs : \A j \in 1..(i - 1) : recs[j] # recs[i]}
<1>1. /\ Picked(recs, S) \in Seq(T) /\ DOMAIN Picked(recs, S) = 1..Cardinality(S)
      /\ \A n \in 1..Cardinality(S) :
           Nth(n, S) \in S /\ Picked(recs, S)[n] = recs[Nth(n, S)]
      /\ \A i \in S : \E n \in 1..Cardinality(S) : Picked(recs, S)[n] = recs[i]
  <2>1. S \in SUBSET (DOMAIN recs)
    OBVIOUS
  <2> HIDE DEF S
  <2> QED
    BY <2>1, PickedIs
<1>2. S \in SUBSET Int /\ IsFiniteSet(S)
  BY PlacesFinite
<1>3. \A n \in 1..Cardinality(S) : Cardinality({j \in S : j < Nth(n, S)}) = n - 1
  BY <1>2, NthIsThere
<1>4. ASSUME NEW i \in DOMAIN recs
      PROVE  \E n \in 1..Cardinality(S) : Picked(recs, S)[n] = recs[i]
  <2> DEFINE Same == {j \in 1..Len(recs) : recs[j] = recs[i]}
  <2>1. Same \in SUBSET Nat /\ Same # {}
    BY <1>4
  <2>2. PICK k \in Same : \A j \in Same : k <= j
    <3> HIDE DEF Same
    <3> QED
      BY <2>1, LeastNumber
  <2>3. k \in S
    BY <2>2
  <2> QED
    BY <1>1, <2>2, <2>3
<1>5. ASSUME NEW m \in 1..Cardinality(S), NEW n \in 1..Cardinality(S),
             Picked(recs, S)[m] = Picked(recs, S)[n]
      PROVE  m = n
  <2>1. PICK i \in S : i = Nth(m, S) /\ Picked(recs, S)[m] = recs[i]
    BY <1>1
  <2>2. PICK j \in S : j = Nth(n, S) /\ Picked(recs, S)[n] = recs[j]
    BY <1>1
  <2>3. i = j
    BY <1>5, <2>1, <2>2
  <2>4. m - 1 = n - 1
    BY <1>3, <2>1, <2>2, <2>3
  <2> QED
    BY <2>4
<1>6. Unique(recs) = Picked(recs, S)
  BY DEF Unique
<1> HIDE DEF S
<1> QED
  BY <1>1, <1>4, <1>5, <1>6

\* A chunk that is a single value, on its own line or not, is taken.
LEMMA SingleIsTaken ==
  ASSUME NEW chunk \in Seq(Values), Len(chunk) = 1
  PROVE  ToSet(Whole(chunk)) \subseteq ToSet(ParseLines(chunk))
<1> DEFINE S == {i \in DOMAIN chunk : chunk[i].layout = "line"}
           lines == Picked(chunk, S)
<1>1. CASE OnLines(chunk) = <<>>
  BY <1>1 DEF ParseLines
<1>2. CASE OnLines(chunk) # <<>>
  <2>1. /\ DOMAIN lines = 1..Cardinality(S)
        /\ \A n \in 1..Cardinality(S) : Nth(n, S) \in S /\ lines[n] = chunk[Nth(n, S)]
    BY PickedIs
  <2>2. OnLines(chunk) = [n \in 1..Cardinality(S) |-> lines[n].recs[1]]
    BY <2>1 DEF OnLines
  <2>3. Cardinality(S) \in Nat
    BY PlacesFinite
  <2>4. S \subseteq {1} /\ chunk[1] \in Values
    OBVIOUS
  <2> HIDE DEF lines, S
  <2>5. 1 \in 1..Cardinality(S)
    BY <1>2, <2>2, <2>3
  <2>6. OnLines(chunk)[1] = chunk[1].recs[1] /\ 1 \in S /\ 1 \in DOMAIN OnLines(chunk)
    BY <2>1, <2>2, <2>4, <2>5
  <2>7. chunk[1].layout = "line" /\ chunk[1].recs \in Seq(Records) /\ Len(chunk[1].recs) = 1
    BY <2>4, <2>6 DEF S, Values
  <2>8. \A r \in ToSet(Whole(chunk)) : r = chunk[1].recs[1]
    BY <2>7 DEF Whole, ToSet
  <2>9. ParseLines(chunk) = OnLines(chunk)
    BY <1>2 DEF ParseLines
  <2> QED
    BY <2>6, <2>8, <2>9 DEF ToSet
<1> QED
  BY <1>1, <1>2

\* What is in the fences is a list of records: those on a line of a fence and those
\* of a fence that is one value are all in it, and it is empty if no fence yields any.
LEMMA FencedIs ==
  ASSUME NEW t, IsText(t)
  PROVE  /\ Fenced(t) \in Seq(Records)
         /\ \A i \in DOMAIN t.fences :
              ToSet(OnLines(t.fences[i])) \subseteq ToSet(Fenced(t))
         /\ \A i \in DOMAIN t.fences : Len(t.fences[i]) = 1 =>
              ToSet(Whole(t.fences[i])) \subseteq ToSet(Fenced(t))
         /\ (\A i \in DOMAIN t.fences : ParseLines(t.fences[i]) = <<>>) => Fenced(t) = <<>>
<1> DEFINE parsed == [i \in DOMAIN t.fences |-> ParseLines(t.fences[i])]
<1>1. t.fences \in Seq(Seq(Values))
  BY DEF IsText
<1>2. DOMAIN t.fences = 1..Len(t.fences) /\ Len(t.fences) \in Nat
  BY <1>1
<1>3. \A i \in DOMAIN t.fences : t.fences[i] \in Seq(Values)
  BY <1>1
<1>4. \A i \in 1..Len(t.fences) : ParseLines(t.fences[i]) \in Seq(Records)
  BY <1>2, <1>3, ParseLinesTyped
<1>5. parsed \in Seq(Seq(Records))
  <2>1. parsed = [i \in 1..Len(t.fences) |-> ParseLines(t.fences[i])]
    BY <1>2
  <2>2. [i \in 1..Len(t.fences) |-> ParseLines(t.fences[i])] \in Seq(Seq(Records))
    BY <1>2, <1>4
  <2> QED
    BY <2>1, <2>2
<1>6. DOMAIN parsed = DOMAIN t.fences
      /\ \A i \in DOMAIN t.fences : parsed[i] = ParseLines(t.fences[i])
  OBVIOUS
<1>7. Fenced(t) = Joined(parsed)
  BY DEF Fenced
<1> HIDE DEF parsed
<1>8. /\ Fenced(t) \in Seq(Records)
      /\ \A i \in DOMAIN parsed : \A j \in DOMAIN parsed[i] :
           \E n \in DOMAIN Fenced(t) : Fenced(t)[n] = parsed[i][j]
      /\ (\A i \in DOMAIN parsed : parsed[i] = <<>>) => Fenced(t) = <<>>
  BY <1>5, <1>7, JoinedIs
<1>9. ASSUME NEW i \in DOMAIN t.fences
      PROVE  ToSet(OnLines(t.fences[i])) \subseteq ToSet(Fenced(t))
  <2>1. CASE OnLines(t.fences[i]) = <<>>
    BY <2>1 DEF ToSet
  <2>2. CASE OnLines(t.fences[i]) # <<>>
    <3>1. parsed[i] = OnLines(t.fences[i]) /\ i \in DOMAIN parsed
      BY <1>6, <2>2 DEF ParseLines
    <3> QED
      BY <1>8, <3>1 DEF ToSet
  <2> QED
    BY <2>1, <2>2
<1>10. ASSUME NEW i \in DOMAIN t.fences, Len(t.fences[i]) = 1
       PROVE  ToSet(Whole(t.fences[i])) \subseteq ToSet(Fenced(t))
  <2>1. ToSet(Whole(t.fences[i])) \subseteq ToSet(parsed[i])
    BY <1>3, <1>6, <1>10, SingleIsTaken
  <2>2. ToSet(parsed[i]) \subseteq ToSet(Fenced(t))
    BY <1>6, <1>8 DEF ToSet
  <2> QED
    BY <2>1, <2>2
<1> QED
  BY <1>6, <1>8, <1>9, <1>10

\* What the text says outside its fences.
LEMMA UnfencedIs ==
  ASSUME NEW t, IsText(t)
  PROVE  /\ Unfenced(t) \in Seq(Records)
         /\ ToSet(OnLines(t.loose)) \subseteq ToSet(Unfenced(t))
<1>1. t.loose \in Seq(Values)
  BY DEF IsText
<1>2. OnLines(t.loose) \in Seq(Records) /\ ParseLines(t.loose) \in Seq(Records)
  BY <1>1, OnLinesTyped, ParseLinesTyped
<1>3. ToSet(OnLines(t.loose)) \subseteq ToSet(ParseLines(t.loose))
  <2>1. CASE OnLines(t.loose) = <<>>
    BY <2>1 DEF ToSet
  <2>2. CASE OnLines(t.loose) # <<>>
    BY <2>2 DEF ParseLines
  <2> QED
    BY <2>1, <2>2
<1> QED
  BY <1>2, <1>3 DEF Unfenced

\* The records of a text are a list without repeats, with every record on a line of
\* a fence in it and, if the fences yield none, every record on a line of the rest.
LEMMA ExtractIs ==
  ASSUME NEW t, IsText(t)
  PROVE  /\ ExtractRecords(t) \in Seq(Records)
         /\ \A m, n \in DOMAIN ExtractRecords(t) :
              ExtractRecords(t)[m] = ExtractRecords(t)[n] => m = n
         /\ \A i \in DOMAIN t.fences :
              ToSet(OnLines(t.fences[i])) \subseteq ToSet(ExtractRecords(t))
         /\ \A i \in DOMAIN t.fences : Len(t.fences[i]) = 1 =>
              ToSet(Whole(t.fences[i])) \subseteq ToSet(ExtractRecords(t))
         /\ (\A i \in DOMAIN t.fences : ParseLines(t.fences[i]) = <<>>) =>
              ToSet(OnLines(t.loose)) \subseteq ToSet(ExtractRecords(t))
<1> DEFINE said == IF Fenced(t) # <<>> THEN Fenced(t) ELSE Unfenced(t)
<1>1. /\ Fenced(t) \in Seq(Records)
      /\ \A i \in DOMAIN t.fences :
           ToSet(OnLines(t.fences[i])) \subseteq ToSet(Fenced(t))
      /\ \A i \in DOMAIN t.fences : Len(t.fences[i]) = 1 =>
           ToSet(Whole(t.fences[i])) \subseteq ToSet(Fenced(t))
      /\ (\A i \in DOMAIN t.fences : ParseLines(t.fences[i]) = <<>>) => Fenced(t) = <<>>
  BY FencedIs
<1>2. /\ Unfenced(t) \in Seq(Records)
      /\ ToSet(OnLines(t.loose)) \subseteq ToSet(Unfenced(t))
  BY UnfencedIs
<1>3. said \in Seq(Records)
  BY <1>1, <1>2
<1>4. /\ \A i \in DOMAIN t.fences : ToSet(OnLines(t.fences[i])) \subseteq ToSet(said)
      /\ \A i \in DOMAIN t.fences : Len(t.fences[i]) = 1 =>
           ToSet(Whole(t.fences[i])) \subseteq ToSet(said)
  <2>1. CASE Fenced(t) = <<>>
    <3>1. ToSet(Fenced(t)) = {}
      BY <2>1 DEF ToSet
    <3> QED
      BY <1>1, <3>1
  <2> QED
    BY <1>1, <2>1
<1>5. (\A i \in DOMAIN t.fences : ParseLines(t.fences[i]) = <<>>) =>
        ToSet(OnLines(t.loose)) \subseteq ToSet(said)
  BY <1>1, <1>2
<1>6. ExtractRecords(t) = Unique(said)
  BY DEF ExtractRecords
<1> HIDE DEF said
<1>7. /\ Unique(said) \in Seq(Records)
      /\ \A i \in DOMAIN said : \E n \in DOMAIN Unique(said) : Unique(said)[n] = said[i]
      /\ \A m, n \in DOMAIN Unique(said) : Unique(said)[m] = Unique(said)[n] => m = n
  BY <1>3, UniqueIs
<1>8. ToSet(said) \subseteq ToSet(ExtractRecords(t))
  BY <1>6, <1>7 DEF ToSet
<1> QED
  BY <1>4, <1>5, <1>6, <1>7, <1>8

\* What is assumed of the constants and needed here.
LEMMA Bounds == MaxFaults \in Nat /\ Nobody \notin Agents
BY LedgerAssumption

\* Every record goes to a file.
LEMMA TargetIsFile ==
  \A a \in Agents : Target(a) \in Files /\ Target(a)' \in Files
BY DEF Target, Files

\* The torn lines of a file are finitely many.
LEMMA TornFinite ==
  ASSUME TypeOK, NEW f \in Files
  PROVE  IsFiniteSet(Torn(f)) /\ Cardinality(Torn(f)) \in Nat
<1>1. file[f].lines \in Seq([begun : Seq(Records), ended : Records])
  BY DEF TypeOK
<1>2. Torn(f) \subseteq 1..Len(file[f].lines) /\ Len(file[f].lines) \in Nat
  BY <1>1 DEF Torn
<1>3. IsFiniteSet(1..Len(file[f].lines))
  BY <1>2, FS_Interval
<1>4. QED
  BY <1>2, <1>3, FS_Subset, FS_CardinalityType

\* The lock tells the writers of a file apart.
LEMMA OneWriter ==
  ASSUME Locked, NEW a \in Agents, NEW b \in Agents,
         pc[a] \in {"write", "finish"}, pc[b] \in {"write", "finish"},
         Target(a) = Target(b)
  PROVE  a = b
BY DEF Locked

\* In the initial state nothing is on disk and nobody writes.
LEMMA FilesInit == ASSUME Init PROVE FilesInv
<1>1. TypeOK
  BY LedgerAssumption DEF TypeOK, Steps, EmptyFile, Init
<1>2. Locked /\ Begun
  BY DEF Locked, Begun, Init
<1>3. Kept
  BY DEF Kept, EmptyFile, Init
<1>4. ASSUME NEW f \in Files PROVE Torn(f) = {} /\ Len(file[f].open) = 0
  BY DEF Torn, EmptyFile, Init
<1>5. Cardinality({}) = 0 /\ faults = 0
  BY FS_EmptySet DEF Init
<1>6. ASSUME NEW f \in Files PROVE Cardinality(Torn(f)) + Len(file[f].open) = 0
  <2>1. Torn(f) = {} /\ Len(file[f].open) = 0
    BY <1>4
  <2>2. QED
    BY <1>5, <2>1
<1>7. Spent
  BY <1>5, <1>6 DEF Spent
<1>8. QED
  BY <1>1, <1>2, <1>3, <1>7 DEF FilesInv

-----------------------------------------------------------------------------
(* Types and locks *)

\* A step keeps the types.
LEMMA TypeStep ==
  ASSUME TypeOK, Locked, [Next]_ledgerVars
  PROVE  TypeOK'
<1> USE Bounds, TargetIsFile
<1>1. ASSUME NEW a \in Agents, Extract(a) PROVE TypeOK'
  <2>1. PICK t \in Texts : /\ answer' = [answer EXCEPT ![a] = t]
                           /\ todo' = [todo EXCEPT ![a] = ExtractRecords(t)]
    BY <1>1 DEF Extract
  <2>2. ExtractRecords(t) \in Seq(Records)
    BY ExtractIs, LedgerAssumption
  <2>3. QED
    BY <1>1, <2>1, <2>2 DEF TypeOK, Extract, Steps
<1>2. ASSUME NEW a \in Agents, Acquire(a) PROVE TypeOK'
  BY <1>2 DEF TypeOK, Acquire, LockName, Steps
<1>3. ASSUME NEW a \in Agents, Finished(a) PROVE TypeOK'
  BY <1>3 DEF TypeOK, Finished, Steps
<1>4. ASSUME NEW a \in Agents, CannotEncode(a) PROVE TypeOK'
  BY <1>4 DEF TypeOK, CannotEncode, Released, LockName, Steps
<1>5. ASSUME NEW a \in Agents, Write(a) PROVE TypeOK'
  <2>1. todo[a] \in Seq(Records) /\ todo[a] # <<>>
    BY <1>5 DEF TypeOK, Locked, Write
  <2>2. Head(todo[a]) \in Records
    BY <2>1
  <2>3. Append(file[Target(a)].open, Head(todo[a])) \in Seq(Records)
    BY <2>2 DEF TypeOK
  <2>4. file' = [file EXCEPT ![Target(a)] =
                   [file[Target(a)] EXCEPT !.open = Append(@, Head(todo[a]))]]
    BY <1>5 DEF Write, Opened
  <2>5. file' \in [Files -> [lines : Seq([begun : Seq(Records), ended : Records]),
                             open  : Seq(Records)]]
    BY <2>3, <2>4 DEF TypeOK
  <2>6. QED
    BY <1>5, <2>5 DEF TypeOK, Write, Steps
<1>6. ASSUME NEW a \in Agents, Finish(a) PROVE TypeOK'
  <2>1. todo[a] \in Seq(Records) /\ todo[a] # <<>>
    BY <1>6 DEF TypeOK, Locked, Finish
  <2>2. Head(todo[a]) \in Records /\ Tail(todo[a]) \in Seq(Records)
    BY <2>1
  <2> DEFINE f == Target(a)
             line == [begun |-> file[f].open, ended |-> Head(todo[a])]
             Lines == [begun : Seq(Records), ended : Records]
  <2>3. f \in Files
    OBVIOUS
  <2>4. line \in Lines
    BY <2>2, <2>3 DEF TypeOK
  <2>5. file[f].lines \in Seq(Lines)
    BY <2>3 DEF TypeOK
  <2>6. Append(file[f].lines, line) \in Seq(Lines)
    <3> HIDE DEF line, Lines
    <3>1. QED
      BY <2>4, <2>5
  <2>7. file' \in [Files -> [lines : Seq(Lines), open : Seq(Records)]]
    <3>1. file' = [file EXCEPT ![f] = [lines |-> Append(file[f].lines, line), open |-> <<>>]]
      BY <1>6, <2>3 DEF Finish, TypeOK
    <3>2. file \in [Files -> [lines : Seq(Lines), open : Seq(Records)]]
      BY DEF TypeOK
    <3>3. [lines |-> Append(file[f].lines, line), open |-> <<>>]
            \in [lines : Seq(Lines), open : Seq(Records)]
      <4> HIDE DEF line, Lines
      <4>1. QED
        BY <2>6
    <3>4. QED
      <4> HIDE DEF f, line, Lines
      <4>1. QED
        BY <2>3, <3>1, <3>2, <3>3
  <2>8. acked' \in [Files -> Seq(Records)]
    BY <1>6, <2>2, <2>3 DEF Finish, TypeOK
  <2>9. QED
    BY <1>6, <2>2, <2>3, <2>7, <2>8 DEF TypeOK, Finish, Released, LockName, Steps
<1>7. ASSUME NEW a \in Agents, WriteFails(a) PROVE TypeOK'
  <2>1. faults' \in 0..MaxFaults
    BY <1>7 DEF TypeOK, WriteFails
  <2>2. pc' \in [Agents -> Steps] /\ holder' \in [Files -> Agents \cup {Nobody}]
    BY <1>7 DEF TypeOK, WriteFails, Released, LockName, Steps
  <2>3. QED
    BY <1>7, <2>1, <2>2 DEF TypeOK, WriteFails
<1>8. ASSUME CrashAndRerun PROVE TypeOK'
  <2>1. faults' \in 0..MaxFaults
    BY <1>8 DEF TypeOK, CrashAndRerun
  <2>2. pc' \in [Agents -> Steps] /\ todo' \in [Agents -> Seq(Records)]
    BY <1>8 DEF CrashAndRerun, Steps
  <2>3. QED
    BY <1>8, <2>1, <2>2 DEF TypeOK, CrashAndRerun
<1>9. ASSUME UNCHANGED ledgerVars PROVE TypeOK'
  BY <1>9 DEF TypeOK, ledgerVars
<1>10. QED
  BY <1>1, <1>2, <1>3, <1>4, <1>5, <1>6, <1>7, <1>8, <1>9 DEF Next, Thread

\* A step keeps the locks with the writers.
LEMMA LockStep ==
  ASSUME TypeOK, Locked, [Next]_ledgerVars
  PROVE  Locked'
<1> USE Bounds, TargetIsFile
<1>1. ASSUME NEW a \in Agents, Extract(a) PROVE Locked'
  BY <1>1 DEF TypeOK, Locked, Extract, Target
<1>2. ASSUME NEW a \in Agents, Acquire(a) PROVE Locked'
  BY <1>2 DEF TypeOK, Locked, Acquire, LockName, Target
<1>3. ASSUME NEW a \in Agents, Finished(a) PROVE Locked'
  BY <1>3 DEF TypeOK, Locked, Finished, Target
<1>4. ASSUME NEW a \in Agents, CannotEncode(a) PROVE Locked'
  BY <1>4 DEF TypeOK, Locked, CannotEncode, Released, LockName, Target
<1>5. ASSUME NEW a \in Agents, Write(a) PROVE Locked'
  BY <1>5 DEF TypeOK, Locked, Write, Target
<1>6. ASSUME NEW a \in Agents, Finish(a) PROVE Locked'
  BY <1>6 DEF TypeOK, Locked, Finish, Released, LockName, Target
<1>7. ASSUME NEW a \in Agents, WriteFails(a) PROVE Locked'
  BY <1>7 DEF TypeOK, Locked, WriteFails, Released, LockName, Target
<1>8. ASSUME CrashAndRerun PROVE Locked'
  BY <1>8 DEF Locked, CrashAndRerun
<1>9. ASSUME UNCHANGED ledgerVars PROVE Locked'
  BY <1>9 DEF Locked, ledgerVars, Target
<1>10. QED
  BY <1>1, <1>2, <1>3, <1>4, <1>5, <1>6, <1>7, <1>8, <1>9 DEF Next, Thread

-----------------------------------------------------------------------------
(* What is on disk *)

\* The actions that write nothing and begin nothing.
Idle ==
  \/ \E a \in Agents : Extract(a) \/ Acquire(a) \/ Finished(a) \/ CannotEncode(a)
  \/ UNCHANGED ledgerVars

\* Such an action leaves the files alone, and whoever is in the middle of a line
\* with the record it is writing.
LEMMA IdleStep ==
  ASSUME TypeOK, Idle
  PROVE  /\ UNCHANGED <<file, acked, faults>>
         /\ \A b \in Agents :
              (pc[b] = "finish") <=> (pc'[b] = "finish")
         /\ \A b \in Agents :
              pc[b] = "finish" => todo'[b] = todo[b] /\ Target(b)' = Target(b)
<1>1. CASE UNCHANGED ledgerVars
  BY <1>1 DEF ledgerVars, Target
<1>2. ASSUME NEW a \in Agents, Extract(a) \/ Acquire(a) \/ Finished(a) \/ CannotEncode(a)
      PROVE  /\ UNCHANGED <<file, acked, faults>>
             /\ pc[a] # "finish" /\ pc'[a] # "finish"
             /\ \A b \in Agents \ {a} : pc'[b] = pc[b] /\ todo'[b] = todo[b]
  BY <1>2 DEF TypeOK, Extract, Acquire, Finished, CannotEncode
<1>3. QED
  BY <1>1, <1>2 DEF Idle, Target

\* The record begun last is that of the writer.
LEMMA BegunStep ==
  ASSUME TypeOK, Locked, Begun, [Next]_ledgerVars
  PROVE  Begun'
<1> USE TargetIsFile
<1>1. CASE Idle
  BY <1>1, IdleStep DEF Begun
<1>2. ASSUME NEW a \in Agents, Write(a) PROVE Begun'
  <2> SUFFICES ASSUME NEW b \in Agents, pc'[b] = "finish"
               PROVE  LET open == file'[Target(b)'].open IN
                        open # <<>> /\ open[Len(open)] = Head(todo'[b])
    BY DEF Begun
  <2>1. todo' = todo /\ Target(b)' = Target(b)
    BY <1>2 DEF Write, Target
  <2>2. file[Target(a)].open \in Seq(Records)
    BY DEF TypeOK
  <2>3. file'[Target(a)].open = Append(file[Target(a)].open, Head(todo[a]))
    BY <1>2 DEF Write, Opened, TypeOK
  <2>4. CASE b = a
    BY <2>1, <2>2, <2>3, <2>4
  <2>5. CASE b # a
    <3>1. pc[b] = "finish" /\ pc[a] = "write"
      BY <1>2, <2>5 DEF Write, TypeOK
    <3>2. Target(b) # Target(a)
      BY <2>5, <3>1, OneWriter
    <3>3. file'[Target(b)] = file[Target(b)]
      BY <1>2, <3>2 DEF Write, TypeOK
    <3>4. QED
      BY <2>1, <3>1, <3>3 DEF Begun
  <2>6. QED
    BY <2>4, <2>5
<1>3. ASSUME NEW a \in Agents, Finish(a) PROVE Begun'
  <2> SUFFICES ASSUME NEW b \in Agents, pc'[b] = "finish"
               PROVE  LET open == file'[Target(b)'].open IN
                        open # <<>> /\ open[Len(open)] = Head(todo'[b])
    BY DEF Begun
  <2>1. b # a /\ pc[b] = "finish" /\ pc[a] = "finish"
    BY <1>3 DEF Finish, TypeOK
  <2>2. todo'[b] = todo[b] /\ Target(b)' = Target(b)
    BY <1>3, <2>1 DEF Finish, TypeOK, Target
  <2>3. Target(b) # Target(a)
    BY <2>1, OneWriter
  <2>4. file'[Target(b)] = file[Target(b)]
    BY <1>3, <2>3 DEF Finish, TypeOK
  <2>5. QED
    BY <2>1, <2>2, <2>4 DEF Begun
<1>4. ASSUME NEW a \in Agents, WriteFails(a) PROVE Begun'
  BY <1>4 DEF TypeOK, WriteFails, Begun, Target
<1>5. ASSUME CrashAndRerun PROVE Begun'
  BY <1>5 DEF CrashAndRerun, Begun
<1>6. QED
  BY <1>1, <1>2, <1>3, <1>4, <1>5 DEF Next, Thread, Idle

\* The lines of a file go on ending in what was acknowledged.
LEMMA KeptStep ==
  ASSUME TypeOK, Locked, Kept, [Next]_ledgerVars
  PROVE  Kept'
<1> USE TargetIsFile
<1>1. CASE Idle
  BY <1>1, IdleStep DEF Kept
<1>2. ASSUME NEW a \in Agents, Write(a) PROVE Kept'
  <2>1. acked' = acked /\ \A f \in Files : file'[f].lines = file[f].lines
    BY <1>2 DEF Write, Opened, TypeOK
  <2>2. QED
    BY <2>1 DEF Kept
<1>3. ASSUME NEW a \in Agents, Finish(a) PROVE Kept'
  <2> DEFINE line(f) == [begun |-> file[f].open, ended |-> Head(todo[a])]
             Lines == [begun : Seq(Records), ended : Records]
  <2> SUFFICES ASSUME NEW f \in Files
               PROVE  /\ Len(file'[f].lines) = Len(acked'[f])
                      /\ \A i \in 1..Len(acked'[f]) :
                           file'[f].lines[i].ended = acked'[f][i]
    BY DEF Kept
  <2>1. CASE f # Target(a)
    <3>1. file'[f] = file[f] /\ acked'[f] = acked[f]
      BY <1>3, <2>1 DEF Finish, TypeOK
    <3>2. QED
      BY <3>1 DEF Kept
  <2>2. CASE f = Target(a)
    <3>1. file'[f].lines = Append(file[f].lines, line(f))
      BY <1>3, <2>2 DEF Finish, TypeOK
    <3>2. acked'[f] = Append(acked[f], Head(todo[a]))
      BY <1>3, <2>2 DEF Finish, TypeOK
    <3>3. file[f].lines \in Seq(Lines) /\ acked[f] \in Seq(Records)
      BY DEF TypeOK
    <3>4. line(f).ended = Head(todo[a])
      OBVIOUS
    <3>5. /\ Len(file[f].lines) = Len(acked[f])
          /\ \A i \in 1..Len(acked[f]) : file[f].lines[i].ended = acked[f][i]
      BY DEF Kept
    <3>6. QED
      <4> HIDE DEF line, Lines
      <4>1. QED
        BY <3>1, <3>2, <3>3, <3>4, <3>5
  <2>3. QED
    BY <2>1, <2>2
<1>4. ASSUME NEW a \in Agents, WriteFails(a) PROVE Kept'
  BY <1>4 DEF WriteFails, Kept
<1>5. ASSUME CrashAndRerun PROVE Kept'
  BY <1>5 DEF CrashAndRerun, Kept
<1>6. QED
  BY <1>1, <1>2, <1>3, <1>4, <1>5 DEF Next, Thread, Idle

\* How much of file f is owed to faults.
Owed(f) == Cardinality(Torn(f)) + Len(file[f].open)

\* Spent, in terms of Owed.
LEMMA SpentIs ==
  Spent <=> \A f \in Files : /\ Owed(f) <= faults + 1
                             /\ (\A a \in Agents : ~Midline(a, f)) => Owed(f) <= faults
BY DEF Spent, Owed

\* A file is owed a number.
LEMMA OwedType ==
  ASSUME TypeOK, NEW f \in Files
  PROVE  Owed(f) \in Nat /\ Cardinality(Torn(f)) \in Nat /\ Len(file[f].open) \in Nat
<1>1. file[f].open \in Seq(Records)
  BY DEF TypeOK
<1>2. QED
  BY <1>1, TornFinite DEF Owed

\* And so it is after a step that keeps the types.
LEMMA OwedTypeNext ==
  ASSUME TypeOK', NEW f \in Files
  PROVE  Owed(f)' \in Nat /\ Cardinality(Torn(f))' \in Nat
<1>1. file'[f].open \in Seq(Records)
  BY DEF TypeOK
<1>2. file'[f].lines \in Seq([begun : Seq(Records), ended : Records])
  BY DEF TypeOK
<1>3. Torn(f)' \subseteq 1..Len(file'[f].lines) /\ Len(file'[f].lines) \in Nat
  BY <1>2 DEF Torn
<1>4. IsFiniteSet(1..Len(file'[f].lines))
  BY <1>3, FS_Interval
<1>5. Cardinality(Torn(f)') \in Nat
  BY <1>3, <1>4, FS_Subset, FS_CardinalityType
<1>6. QED
  BY <1>1, <1>5 DEF Owed

\* Adding one to a part adds one to the sum.
LEMMA OneMore == \A m, n \in Nat : m + (n + 1) = (m + n) + 1
OBVIOUS

\* Beginning a record adds one to what its file is owed.
LEMMA WriteOwes ==
  ASSUME TypeOK, NEW a \in Agents, Write(a)
  PROVE  \A f \in Files : Owed(f)' = IF f = Target(a) THEN Owed(f) + 1 ELSE Owed(f)
<1> USE TargetIsFile
<1>1. Target(a)' = Target(a)
  BY DEF Write, Target
<1>2. \A f \in Files : file'[f].lines = file[f].lines
  BY DEF Write, Opened, TypeOK
<1>3. \A f \in Files : Torn(f)' = Torn(f)
  BY <1>2 DEF Torn, WholeLine
<1>4. file[Target(a)].open \in Seq(Records)
  BY DEF TypeOK
<1>5. file'[Target(a)].open = Append(file[Target(a)].open, Head(todo[a]))
  BY DEF Write, Opened, TypeOK
<1>6. Len(file'[Target(a)].open) = Len(file[Target(a)].open) + 1
  BY <1>4, <1>5
<1>7. \A f \in Files \ {Target(a)} : file'[f] = file[f]
  BY DEF Write, TypeOK
<1>8. ASSUME NEW f \in Files, f = Target(a) PROVE Owed(f)' = Owed(f) + 1
  <2>1. Owed(f)' = Cardinality(Torn(f)') + Len(file'[f].open)
    BY DEF Owed
  <2>2. Torn(f)' = Torn(f)
    BY <1>3
  <2>3. Cardinality(Torn(f)) \in Nat /\ Len(file[f].open) \in Nat
    BY OwedType
  <2>4. Len(file'[f].open) = Len(file[f].open) + 1
    BY <1>6, <1>8
  <2>5. QED
    BY <2>1, <2>2, <2>3, <2>4, OneMore DEF Owed
<1>9. \A f \in Files \ {Target(a)} : Owed(f)' = Owed(f)
  BY <1>3, <1>7 DEF Owed
<1> QED
  BY <1>8, <1>9

\* A count from 1 on is 1 or at least 2.
LEMMA OneOrMore == \A l \in Nat : l >= 1 => l = 1 \/ l >= 2
OBVIOUS

\* A line may be torn by its end if two records at least were begun in it.
LEMMA AtMostOneMore ==
  ASSUME NEW t2 \in Nat, NEW m \in Nat, NEW t \in Nat, NEW l \in Nat,
         t2 <= m, m <= t + 1, l >= 2
  PROVE  t2 + 1 <= t + l
OBVIOUS

\* Ending a line takes at least one off what its file is owed: the record that
\* ends it was begun, and if that is all there is the line is whole.
LEMMA FinishPays ==
  ASSUME TypeOK, TypeOK', Begun, NEW a \in Agents, Finish(a),
         NEW f \in Files, f = Target(a)
  PROVE  /\ file'[f].open = <<>>
         /\ Cardinality(Torn(f)') + 1 <= Owed(f)
         /\ \A g \in Files \ {f} : Owed(g)' = Owed(g)
<1> DEFINE open == file[f].open
           lines == file[f].lines
           line == [begun |-> open, ended |-> Head(todo[a])]
           Lines == [begun : Seq(Records), ended : Records]
<1>2. /\ file'[f].lines = Append(lines, line) /\ file'[f].open = <<>>
      /\ \A g \in Files \ {f} : file'[g] = file[g]
  BY DEF Finish, TypeOK
<1>3. open \in Seq(Records) /\ lines \in Seq(Lines)
  BY DEF TypeOK
<1>4. open # <<>> /\ open[Len(open)] = Head(todo[a])
  BY DEF Begun, Finish
<1> DEFINE torn == Torn(f)
           torn2 == {i \in DOMAIN file'[f].lines : ~WholeLine(file'[f].lines[i])}
<1>5. IsFiniteSet(torn) /\ Cardinality(torn) \in Nat
  BY TornFinite
<1>6. /\ DOMAIN file'[f].lines = 1..(Len(lines) + 1)
      /\ \A i \in 1..Len(lines) : file'[f].lines[i] = lines[i]
      /\ file'[f].lines[Len(lines) + 1] = line
      /\ DOMAIN lines = 1..Len(lines) /\ Len(lines) \in Nat
  <2> HIDE DEF line, Lines, lines
  <2>1. QED
    BY <1>2, <1>3
<1>7. torn2 \subseteq torn \cup {Len(lines) + 1}
  BY <1>6 DEF Torn
<1>8. WholeLine(line) => torn2 \subseteq torn
  <2> SUFFICES ASSUME WholeLine(line), NEW i \in torn2
               PROVE  i \in torn
    OBVIOUS
  <2> HIDE DEF line
  <2>1. i # Len(lines) + 1
    BY <1>6
  <2> QED
    BY <1>7, <2>1
<1>9. Len(open) \in Nat /\ Len(open) >= 1
  <2> HIDE DEF open
  <2>1. QED
    BY <1>3, <1>4
<1> SUFFICES Cardinality(torn2) + 1 <= Cardinality(torn) + Len(open)
  <2>1. Torn(f)' = torn2
    BY DEF Torn, WholeLine
  <2>2. \A g \in Files \ {f} : Torn(g)' = Torn(g)
    BY <1>2 DEF Torn, WholeLine
  <2>3. QED
    BY <1>2, <2>1, <2>2 DEF Owed
<1>10. PICK len \in Nat : len = Len(open) /\ len >= 1
  BY <1>9
<1>11. Cardinality(torn2) + 1 <= Cardinality(torn) + len
  <2> HIDE DEF torn, torn2
  <2>1. CASE len = 1
    <3>1. open = <<Head(todo[a])>>
      <4> HIDE DEF open
      <4>1. Len(open) = 1
        BY <1>10, <2>1
      <4>2. QED
        BY <1>3, <1>4, <4>1
    <3>2. torn2 \subseteq torn
      BY <1>8, <3>1 DEF WholeLine
    <3>3. Cardinality(torn2) <= Cardinality(torn) /\ Cardinality(torn2) \in Nat
      BY <1>5, <3>2, FS_Subset, FS_CardinalityType
    <3>4. QED
      BY <1>5, <2>1, <3>3
  <2>2. CASE len >= 2
    <3> DEFINE last == Len(lines) + 1
               more == torn \cup {last}
    <3>1. IsFiniteSet(more) /\ Cardinality(more) <= Cardinality(torn) + 1
      <4> HIDE DEF last
      <4>1. QED
        BY <1>5, FS_AddElement
    <3>2. Cardinality(more) \in Nat
      BY <3>1, FS_CardinalityType
    <3>3. Cardinality(torn2) <= Cardinality(more) /\ Cardinality(torn2) \in Nat
      BY <1>7, <3>1, FS_Subset, FS_CardinalityType
    <3> HIDE DEF more
    <3>4. QED
      BY <1>5, <2>2, <3>1, <3>2, <3>3, AtMostOneMore
  <2>3. len = 1 \/ len >= 2
    BY <1>10, OneOrMore
  <2>4. QED
    BY <2>1, <2>2, <2>3
<1>12. QED
  BY <1>10, <1>11

\* Every step pays for what it owes.
LEMMA SpentStep ==
  ASSUME TypeOK, TypeOK', Locked, Begun, Spent, [Next]_ledgerVars
  PROVE  Spent'
<1> USE TargetIsFile
<1>1. \A f \in Files : /\ Owed(f) \in Nat /\ Owed(f) <= faults + 1
                       /\ (\A a \in Agents : ~Midline(a, f)) => Owed(f) <= faults
  BY OwedType, SpentIs
<1>2. faults \in Nat /\ faults' \in Nat
  BY Bounds DEF TypeOK
<1>3. SUFFICES ASSUME NEW f \in Files
               PROVE  /\ Owed(f)' <= faults' + 1
                      /\ (\A a \in Agents : ~Midline(a, f)') => Owed(f)' <= faults'
  BY DEF Spent, Owed
<1>4. CASE Idle
  <2>1. faults' = faults /\ Owed(f)' = Owed(f)
    BY <1>4, IdleStep DEF Owed, Torn, WholeLine
  <2>2. \A a \in Agents : Midline(a, f) => Midline(a, f)'
    BY <1>4, IdleStep DEF Midline
  <2>3. QED
    BY <1>1, <2>1, <2>2
<1>5. ASSUME NEW a \in Agents, Write(a)
      PROVE  /\ Owed(f)' <= faults' + 1
             /\ (\A b \in Agents : ~Midline(b, f)') => Owed(f)' <= faults'
  <2>1. faults' = faults
    BY <1>5 DEF Write
  <2>2. CASE f = Target(a)
    <3>1. \A b \in Agents : ~Midline(b, f)
      BY <1>5, <2>2, OneWriter DEF Write, Midline
    <3>2. Midline(a, f)'
      BY <1>5, <2>2 DEF Write, Midline, Target, TypeOK
    <3>3. Owed(f)' = Owed(f) + 1
      BY <1>5, <2>2, WriteOwes
    <3>4. QED
      BY <1>1, <1>2, <2>1, <3>1, <3>2, <3>3
  <2>3. CASE f # Target(a)
    <3>1. Owed(f)' = Owed(f)
      BY <1>5, <2>3, WriteOwes
    <3>2. \A b \in Agents : Midline(b, f) => Midline(b, f)'
      BY <1>5, <2>3 DEF Write, Midline, Target, TypeOK
    <3>3. QED
      BY <1>1, <2>1, <3>1, <3>2
  <2>4. QED
    BY <2>2, <2>3
<1>6. ASSUME NEW a \in Agents, Finish(a)
      PROVE  /\ Owed(f)' <= faults' + 1
             /\ (\A b \in Agents : ~Midline(b, f)') => Owed(f)' <= faults'
  <2>1. faults' = faults
    BY <1>6 DEF Finish
  <2>2. CASE f = Target(a)
    <3>1. Owed(f) <= faults + 1 /\ Owed(f) \in Nat
      BY <1>1
    <3>2. file'[f].open = <<>> /\ Cardinality(Torn(f)') + 1 <= Owed(f)
      BY <1>6, <2>2, FinishPays
    <3>3. Cardinality(Torn(f)') \in Nat
      <4>1. Owed(f)' \in Nat /\ Cardinality(Torn(f))' \in Nat
        BY OwedTypeNext
      <4>2. QED
        BY <4>1
    <3>4. Owed(f)' = Cardinality(Torn(f)')
      BY <3>2, <3>3 DEF Owed
    <3>5. QED
      BY <1>2, <2>1, <3>1, <3>2, <3>3, <3>4
  <2>3. CASE f # Target(a)
    <3>1. Owed(f)' = Owed(f)
      BY <1>6, <2>3, FinishPays
    <3>2. \A b \in Agents : Midline(b, f) => Midline(b, f)'
      BY <1>6, <2>3 DEF Finish, Midline, Target, TypeOK
    <3>3. QED
      BY <1>1, <2>1, <3>1, <3>2
  <2>4. QED
    BY <2>2, <2>3
<1>7. ASSUME faults' = faults + 1, file' = file
      PROVE  Owed(f)' <= faults'
  <2>1. Owed(f)' = Owed(f)
    BY <1>7 DEF Owed, Torn, WholeLine
  <2>2. QED
    BY <1>1, <1>7, <2>1
<1>8. ASSUME \/ CrashAndRerun
             \/ \E a \in Agents : WriteFails(a)
      PROVE  /\ Owed(f)' <= faults' + 1
             /\ (\A b \in Agents : ~Midline(b, f)') => Owed(f)' <= faults'
  <2>1. faults' = faults + 1 /\ file' = file
    BY <1>8 DEF CrashAndRerun, WriteFails
  <2>2. Owed(f)' <= faults' /\ Owed(f)' = Owed(f)
    BY <1>7, <2>1 DEF Owed, Torn, WholeLine
  <2>3. QED
    BY <1>1, <1>2, <2>2
<1>9. QED
  BY <1>4, <1>5, <1>6, <1>8 DEF Next, Thread, Idle

-----------------------------------------------------------------------------
(* Theorems *)

\* The invariant holds of every behaviour.
LEMMA FilesInvariant == Spec => []FilesInv
<1>1. ASSUME FilesInv, [Next]_ledgerVars PROVE FilesInv'
  <2>1. TypeOK /\ Locked /\ Begun /\ Kept /\ Spent
    BY <1>1 DEF FilesInv
  <2>2. TypeOK'
    BY <1>1, <2>1, TypeStep
  <2>3. Locked'
    BY <1>1, <2>1, LockStep
  <2>4. Begun'
    BY <1>1, <2>1, BegunStep
  <2>5. Kept'
    BY <1>1, <2>1, KeptStep
  <2>6. Spent'
    BY <1>1, <2>1, <2>2, SpentStep
  <2>7. QED
    BY <2>2, <2>3, <2>4, <2>5, <2>6 DEF FilesInv
<1>2. Init => FilesInv
  BY FilesInit
<1>3. FilesInv /\ [Next]_ledgerVars => FilesInv'
  BY <1>1
<1>4. QED
  BY <1>2, <1>3, PTL DEF Spec

\* The invariant gives the property: the acknowledged records are the ends of the
\* lines, and a fault is spent on every torn one.
LEMMA KeptIsOnDisk ==
  ASSUME FilesInv
  PROVE  AnswersOnDisk
<1>1. TypeOK /\ Begun /\ Kept /\ Spent
  BY DEF FilesInv
<1>2. ASSUME NEW f \in Files
      PROVE  [i \in DOMAIN file[f].lines |-> file[f].lines[i].ended] = acked[f]
  <2> DEFINE lines == file[f].lines
  <2>1. lines \in Seq([begun : Seq(Records), ended : Records]) /\ acked[f] \in Seq(Records)
    BY <1>1 DEF TypeOK
  <2>2. Len(lines) = Len(acked[f]) /\ \A i \in 1..Len(acked[f]) : lines[i].ended = acked[f][i]
    BY <1>1 DEF Kept
  <2>3. DOMAIN lines = 1..Len(acked[f])
    BY <2>1, <2>2
  <2>4. acked[f] = [i \in 1..Len(acked[f]) |-> acked[f][i]]
    BY <2>1
  <2>5. QED
    BY <2>2, <2>3, <2>4
<1>3. ASSUME NEW f \in Files PROVE Cardinality(Torn(f)) <= faults
  <2>1. /\ Owed(f) \in Nat /\ Cardinality(Torn(f)) \in Nat /\ Len(file[f].open) \in Nat
        /\ faults \in Nat
    <3>1. faults \in Nat
      BY <1>1, Bounds DEF TypeOK
    <3>2. QED
      BY <1>1, <3>1, OwedType
  <2>2. Owed(f) <= faults + 1 /\ ((\A a \in Agents : ~Midline(a, f)) => Owed(f) <= faults)
    BY <1>1, SpentIs
  <2>3. CASE \A a \in Agents : ~Midline(a, f)
    BY <2>1, <2>2, <2>3 DEF Owed
  <2>4. ASSUME NEW a \in Agents, Midline(a, f) PROVE Cardinality(Torn(f)) <= faults
    <3>1. file[f].open \in Seq(Records) /\ file[f].open # <<>>
      BY <1>1, <2>4 DEF TypeOK, Begun, Midline
    <3>2. Len(file[f].open) >= 1
      BY <3>1
    <3>3. QED
      BY <2>1, <2>2, <3>2 DEF Owed
  <2>5. QED
    BY <2>3, <2>4
<1>4. QED
  BY <1>2, <1>3 DEF AnswersOnDisk, Torn

\* Types: what a thread, a lock and a file hold, through any number of crashes.
THEOREM TypeCorrect == Spec => []TypeOK
<1>1. FilesInv => TypeOK
  BY DEF FilesInv
<1>2. QED
  BY <1>1, FilesInvariant, PTL

\* What append said it wrote is in the file, in its order, and each line that does
\* not parse was paid for by a crash or a failed write: with none, every line of
\* every file is a record.  (Ledger._write: one lock per file, append mode)
THEOREM AppendedIsOnDisk == Spec => []AnswersOnDisk
<1>1. FilesInv => AnswersOnDisk
  BY KeptIsOnDisk
<1>2. QED
  BY <1>1, FilesInvariant, PTL

\* Whoever holds a lock is in _write, and at the file the lock belongs to.
Worked ==
  \A f \in Files :
    holder[f] # Nobody => pc[holder[f]] \in {"write", "finish"} /\ Target(holder[f]) = f

\* A lock is given back on every way out of _write, and nobody changes what it is
\* writing to before that.
LEMMA WorkedStep ==
  ASSUME TypeOK, Locked, Worked, [Next]_ledgerVars
  PROVE  Worked'
<1> USE Bounds, TargetIsFile
<1>1. ASSUME NEW a \in Agents, Extract(a) PROVE Worked'
  <2>1. pc[a] = "asked" /\ holder' = holder /\ holder \in [Files -> Agents \cup {Nobody}]
    BY <1>1 DEF Extract, TypeOK
  <2>2. \A b \in Agents \ {a} : pc'[b] = pc[b] /\ todo'[b] = todo[b]
    BY <1>1 DEF Extract, TypeOK
  <2> QED
    BY <2>1, <2>2 DEF Worked, Target
<1>2. ASSUME NEW a \in Agents, Acquire(a) PROVE Worked'
  BY <1>2 DEF TypeOK, Worked, Acquire, LockName, Target
<1>3. ASSUME NEW a \in Agents, Finished(a) PROVE Worked'
  BY <1>3 DEF TypeOK, Worked, Finished, Target
<1>4. ASSUME NEW a \in Agents, CannotEncode(a) PROVE Worked'
  BY <1>4 DEF TypeOK, Locked, Worked, CannotEncode, Released, LockName, Target
<1>5. ASSUME NEW a \in Agents, Write(a) PROVE Worked'
  <2>1. pc[a] = "write" /\ todo' = todo /\ holder' = holder /\ pc' = [pc EXCEPT ![a] = "finish"]
    BY <1>5 DEF Write
  <2>2. pc \in [Agents -> Steps] /\ holder \in [Files -> Agents \cup {Nobody}]
    BY DEF TypeOK
  <2> QED
    BY <2>1, <2>2 DEF Worked, Target
<1>6. ASSUME NEW a \in Agents, Finish(a) PROVE Worked'
  BY <1>6 DEF TypeOK, Locked, Worked, Finish, Released, LockName, Target
<1>7. ASSUME NEW a \in Agents, WriteFails(a) PROVE Worked'
  BY <1>7 DEF TypeOK, Locked, Worked, WriteFails, Released, LockName, Target
<1>8. ASSUME CrashAndRerun PROVE Worked'
  BY <1>8 DEF Worked, CrashAndRerun
<1>9. ASSUME UNCHANGED ledgerVars PROVE Worked'
  BY <1>9 DEF Worked, ledgerVars, Target
<1>10. QED
  BY <1>1, <1>2, <1>3, <1>4, <1>5, <1>6, <1>7, <1>8, <1>9 DEF Next, Thread

\* A file is locked by the one thread that is writing to it, and by nobody when no
\* thread is: no two are in one file, and a lock outlives neither the write nor the
\* exception that ended it.  (`with self._lock(...)` in Ledger._write)
LockIsTheWriters ==
  \A f \in Files :
    {a \in Agents : pc[a] \in {"write", "finish"} /\ Target(a) = f} = {holder[f]} \ {Nobody}

\* The lock of a file is always its writer's.
THEOREM LocksAreGivenBack == Spec => []LockIsTheWriters
<1>1. Init => Worked
  BY DEF Init, Worked
<1>2. FilesInv /\ Worked /\ [Next]_ledgerVars => Worked'
  BY WorkedStep DEF FilesInv
<1>3. ASSUME FilesInv, Worked PROVE LockIsTheWriters
  <2>1. Locked /\ holder \in [Files -> Agents \cup {Nobody}]
    BY <1>3 DEF FilesInv, TypeOK
  <2> QED
    BY <1>3, <2>1, Bounds DEF Locked, Worked, LockIsTheWriters
<1> QED
  BY <1>1, <1>2, <1>3, FilesInvariant, PTL DEF Spec

\* A thread that waits for a file waits for one that waits for nothing.
NoWaitingInLine ==
  \A a \in Agents :
    pc[a] = "append" /\ todo[a] # <<>> /\ holder[LockName(a)] # Nobody =>
      LET b == holder[LockName(a)] IN
        b # a /\ pc[b] \in {"write", "finish"} /\ Target(b) = LockName(a)

\* No chain of waiting threads is longer than one, so none can close into a ring:
\* nobody holds a lock while asking for another.  (Ledger._write takes one lock)
THEOREM NobodyWaitsForAWaiter == Spec => []NoWaitingInLine
<1>1. ASSUME LockIsTheWriters PROVE NoWaitingInLine
  <2> SUFFICES ASSUME NEW a \in Agents, pc[a] = "append", holder[LockName(a)] # Nobody
               PROVE  LET b == holder[LockName(a)] IN
                        b # a /\ pc[b] \in {"write", "finish"} /\ Target(b) = LockName(a)
    BY DEF NoWaitingInLine
  <2> QED
    BY <1>1, TargetIsFile DEF LockIsTheWriters, LockName
<1> QED
  BY <1>1, LocksAreGivenBack, PTL


-----------------------------------------------------------------------------
(* Reading back *)

\* A file nobody is writing to, after no fault, has nothing torn in it.
LEMMA NothingTorn ==
  ASSUME FilesInv, NEW f \in Files, holder[f] = Nobody, faults = 0
  PROVE  Torn(f) = {} /\ file[f].open = <<>>
<1>1. TypeOK /\ Locked /\ Spent
  BY DEF FilesInv
<1>2. \A a \in Agents : ~Midline(a, f)
  BY <1>1, Bounds DEF Midline, Locked
<1>3. Owed(f) <= 0
  BY <1>1, <1>2, SpentIs
<1>4. Cardinality(Torn(f)) \in Nat /\ Len(file[f].open) \in Nat
  BY <1>1, OwedType
<1>5. Cardinality(Torn(f)) = 0 /\ Len(file[f].open) = 0
  BY <1>3, <1>4 DEF Owed
<1>6. Torn(f) = {}
  BY <1>1, <1>5, TornFinite, FS_EmptySet
<1>7. file[f].open \in Seq(Records)
  BY <1>1 DEF TypeOK
<1> QED
  BY <1>5, <1>6, <1>7

\* The lines of a file and the records they end in.
LEMMA LinesAre ==
  ASSUME FilesInv, NEW f \in Files
  PROVE  /\ file[f].lines \in Seq([begun : Seq(Records), ended : Records])
         /\ DOMAIN file[f].lines = DOMAIN acked[f]
         /\ \A i \in DOMAIN acked[f] : file[f].lines[i].ended = acked[f][i]
         /\ [i \in DOMAIN file[f].lines |-> file[f].lines[i].ended] = acked[f]
<1>1. TypeOK /\ Kept
  BY DEF FilesInv
<1>2. file[f].lines \in Seq([begun : Seq(Records), ended : Records]) /\ acked[f] \in Seq(Records)
  BY <1>1 DEF TypeOK
<1>3. /\ Len(file[f].lines) = Len(acked[f])
      /\ \A i \in 1..Len(acked[f]) : file[f].lines[i].ended = acked[f][i]
  BY <1>1 DEF Kept
<1>4. DOMAIN file[f].lines = 1..Len(acked[f]) /\ DOMAIN acked[f] = 1..Len(acked[f])
  BY <1>2, <1>3
<1>5. [i \in DOMAIN file[f].lines |-> file[f].lines[i].ended] = acked[f]
  BY KeptIsOnDisk DEF AnswersOnDisk
<1> QED
  BY <1>2, <1>3, <1>4, <1>5

\* The invariant gives the property: where no line is torn, what parses is all there is.
LEMMA KeptIsReadBack ==
  ASSUME FilesInv
  PROVE  ReadAllComplete
<1> SUFFICES ASSUME NEW f \in Files
             PROVE  /\ ReadsThrough(f) => ReadBack(f) = acked[f]
                    /\ holder[f] = Nobody /\ faults = 0 =>
                         /\ ReadsThrough(f) <=> ToSet(acked[f]) \cap Separated = {}
                         /\ f # Quarantine => Admitted(f) = acked[f]
  BY DEF ReadAllComplete
<1> DEFINE lines == file[f].lines
           Lines == [begun : Seq(Records), ended : Records]
<1>1. /\ lines \in Seq(Lines) /\ DOMAIN lines = DOMAIN acked[f]
      /\ \A i \in DOMAIN acked[f] : lines[i].ended = acked[f][i]
      /\ [i \in DOMAIN lines |-> lines[i].ended] = acked[f]
  BY LinesAre
<1>2. Picked(lines, DOMAIN lines) = lines
  <2> HIDE DEF lines, Lines
  <2> QED
    BY <1>1, PickedAll
<1>3. ASSUME ReadsThrough(f)
      PROVE  ReadBack(f) = acked[f]
  <2>1. {i \in DOMAIN lines : ParsesAsLine(lines[i])} = DOMAIN lines
    BY <1>3 DEF ReadsThrough
  <2>2. ReadBack(f) = [n \in DOMAIN lines |-> lines[n].ended]
    BY <1>2, <2>1 DEF ReadBack
  <2> QED
    BY <1>1, <2>2
<1>4. ASSUME holder[f] = Nobody, faults = 0
      PROVE  /\ ReadsThrough(f) <=> ToSet(acked[f]) \cap Separated = {}
             /\ Admitted(f) = acked[f]
  <2>1. Torn(f) = {} /\ file[f].open = <<>>
    BY <1>4, NothingTorn
  <2>2. \A i \in DOMAIN lines : WholeLine(lines[i])
    BY <2>1 DEF Torn
  <2>3. {i \in DOMAIN lines : WholeLine(lines[i])} = DOMAIN lines
    BY <2>2
  <2>4. Admitted(f) = [n \in DOMAIN lines |-> lines[n].ended]
    BY <1>2, <2>3 DEF Admitted
  <2>5. ReadsThrough(f) <=> \A i \in DOMAIN acked[f] : acked[f][i] \notin Separated
    BY <1>1, <2>1, <2>2 DEF ReadsThrough, ParsesAsLine
  <2>6. (\A i \in DOMAIN acked[f] : acked[f][i] \notin Separated)
          <=> ToSet(acked[f]) \cap Separated = {}
    BY DEF ToSet
  <2> QED
    BY <1>1, <2>4, <2>5, <2>6
<1> QED
  BY <1>3, <1>4

\* read_all is never short without saying so: what it returns is everything append
\* took, and it raises only after a fault or over a record with a line separator in
\* it; the latter does not stop the batch validator.  (Ledger.read_all, iter_lines)
THEOREM ReadBackComplete == Spec => []ReadAllComplete
<1>1. FilesInv => ReadAllComplete
  BY KeptIsReadBack
<1>2. QED
  BY <1>1, FilesInvariant, PTL

-----------------------------------------------------------------------------
(* What was said is taken *)

\* Nothing is in a list twice.
NoRepeats(list) == \A m, n \in DOMAIN list : list[m] = list[n] => m = n

\* An agent whose model has answered still has to append what of it is not on disk.
Taking ==
  \A a \in Agents : pc[a] # "asked" =>
    /\ answer[a] \in Texts
    /\ ToSet(ExtractRecords(answer[a]))
         \subseteq ToSet(todo[a]) \cup ToSet(acked[a]) \cup ToSet(acked[Quarantine])
    /\ pc[a] = "done" => todo[a] = <<>>

\* As long as nothing failed, what is in an agent's file is there once, and the
\* agent has not got it to append again.
Single ==
  faults = 0 => \A a \in Agents :
    /\ pc[a] = "asked" => acked[a] = <<>>
    /\ NoRepeats(todo[a]) /\ NoRepeats(acked[a])
    /\ ToSet(todo[a]) \cap ToSet(acked[a]) = {}

TakenInv == FilesInv /\ Taking /\ Single

\* The first of a list and the rest of it.
LEMMA HeadAndTail ==
  ASSUME NEW T, NEW list \in Seq(T), list # <<>>
  PROVE  /\ ToSet(list) = {Head(list)} \cup ToSet(Tail(list))
         /\ NoRepeats(list) => /\ NoRepeats(Tail(list))
                               /\ Head(list) \notin ToSet(Tail(list))
<1>1. /\ DOMAIN list = 1..Len(list) /\ Len(list) \in Nat /\ Len(list) >= 1
      /\ DOMAIN Tail(list) = 1..(Len(list) - 1) /\ Head(list) = list[1]
      /\ \A i \in 1..(Len(list) - 1) : Tail(list)[i] = list[i + 1]
  OBVIOUS
<1>2. \A i \in DOMAIN list : i = 1 \/ (i - 1 \in DOMAIN Tail(list) /\ Tail(list)[i - 1] = list[i])
  BY <1>1
<1>3. 1 \in DOMAIN list /\ \A i \in DOMAIN Tail(list) : i + 1 \in DOMAIN list
  BY <1>1
<1>4. ToSet(list) = {Head(list)} \cup ToSet(Tail(list))
  <2>1. ASSUME NEW i \in DOMAIN list
        PROVE  list[i] \in {Head(list)} \cup ToSet(Tail(list))
    <3>1. i = 1 \/ (i - 1 \in DOMAIN Tail(list) /\ Tail(list)[i - 1] = list[i])
      BY <1>2
    <3> QED
      BY <1>1, <3>1 DEF ToSet
  <2>2. ASSUME NEW i \in DOMAIN Tail(list)
        PROVE  Tail(list)[i] \in ToSet(list)
    <3>1. i + 1 \in DOMAIN list /\ Tail(list)[i] = list[i + 1]
      BY <1>1, <1>3
    <3> QED
      BY <3>1 DEF ToSet
  <2>3. Head(list) \in ToSet(list)
    BY <1>1, <1>3 DEF ToSet
  <2> QED
    BY <2>1, <2>2, <2>3 DEF ToSet
<1>5. ASSUME NoRepeats(list)
      PROVE  NoRepeats(Tail(list)) /\ Head(list) \notin ToSet(Tail(list))
  <2>1. ASSUME NEW m \in DOMAIN Tail(list), NEW n \in DOMAIN Tail(list),
               Tail(list)[m] = Tail(list)[n]
        PROVE  m = n
    <3>1. m + 1 = n + 1
      BY <1>1, <1>3, <1>5, <2>1 DEF NoRepeats
    <3> QED
      BY <1>1, <3>1
  <2>2. ASSUME NEW n \in DOMAIN Tail(list), Tail(list)[n] = Head(list)
        PROVE  FALSE
    <3>1. n + 1 = 1
      BY <1>1, <1>3, <1>5, <2>2 DEF NoRepeats
    <3> QED
      BY <1>1, <3>1
  <2> QED
    BY <2>1, <2>2 DEF NoRepeats, ToSet
<1> QED
  BY <1>4, <1>5

\* One more at the end of a list.
LEMMA OneAppended ==
  ASSUME NEW T, NEW list \in Seq(T), NEW e \in T
  PROVE  /\ ToSet(Append(list, e)) = ToSet(list) \cup {e}
         /\ NoRepeats(list) /\ e \notin ToSet(list) => NoRepeats(Append(list, e))
<1>1. /\ DOMAIN list = 1..Len(list) /\ Len(list) \in Nat
      /\ DOMAIN Append(list, e) = 1..(Len(list) + 1)
      /\ \A i \in 1..Len(list) : Append(list, e)[i] = list[i]
      /\ Append(list, e)[Len(list) + 1] = e
  OBVIOUS
<1>2. \A i \in DOMAIN Append(list, e) : i \in DOMAIN list \/ i = Len(list) + 1
  BY <1>1
<1>3. /\ \A i \in DOMAIN list : i \in DOMAIN Append(list, e)
      /\ Len(list) + 1 \in DOMAIN Append(list, e)
  BY <1>1
<1>4. ToSet(Append(list, e)) = ToSet(list) \cup {e}
  BY <1>1, <1>2, <1>3 DEF ToSet
<1>5. ASSUME NoRepeats(list), e \notin ToSet(list)
      PROVE  NoRepeats(Append(list, e))
  BY <1>1, <1>2, <1>5 DEF NoRepeats, ToSet
<1> QED
  BY <1>4, <1>5

\* In the initial state no model has answered.
LEMMA TakenInit == ASSUME Init PROVE TakenInv
<1>1. FilesInv
  BY FilesInit
<1>2. \A a \in Agents : pc[a] = "asked" /\ todo[a] = <<>> /\ acked[a] = <<>>
  BY DEF Init, Files
<1>3. Taking
  BY <1>2 DEF Taking
<1>4. Single
  BY <1>2 DEF Single, NoRepeats, ToSet
<1> QED
  BY <1>1, <1>3, <1>4 DEF TakenInv

\* What Finish does to the lists: the head of todo goes to the end of its file.
LEMMA FinishMoves ==
  ASSUME TypeOK, Locked, NEW a \in Agents, Finish(a)
  PROVE  /\ todo[a] \in Seq(Records) /\ todo[a] # <<>> /\ Head(todo[a]) \in Records
         /\ \A f \in Files : acked[f] \in Seq(Records)
         /\ todo'[a] = Tail(todo[a]) /\ pc'[a] = "append"
         /\ acked'[Target(a)] = Append(acked[Target(a)], Head(todo[a]))
         /\ \A f \in Files \ {Target(a)} : acked'[f] = acked[f]
         /\ \A b \in Agents \ {a} : todo'[b] = todo[b] /\ pc'[b] = pc[b]
         /\ faults' = faults /\ answer' = answer
<1>1. todo[a] \in Seq(Records) /\ todo[a] # <<>>
  BY DEF TypeOK, Locked, Finish
<1>2. Head(todo[a]) \in Records
  BY <1>1
<1>3. \A f \in Files : acked[f] \in Seq(Records)
  BY DEF TypeOK
<1> QED
  BY <1>1, <1>2, <1>3, TargetIsFile DEF Finish, TypeOK

\* The other steps leave what was acknowledged as it is.
LEMMA TakingStep ==
  ASSUME TypeOK, Locked, Taking, [Next]_ledgerVars
  PROVE  Taking'
<1>1. ASSUME NEW a \in Agents, Extract(a) PROVE Taking'
  <2>1. PICK t \in Texts : /\ answer' = [answer EXCEPT ![a] = t]
                           /\ todo' = [todo EXCEPT ![a] = ExtractRecords(t)]
    BY <1>1 DEF Extract
  <2>2. pc' = [pc EXCEPT ![a] = "append"] /\ acked' = acked
    BY <1>1 DEF Extract
  <2> SUFFICES ASSUME NEW b \in Agents, pc'[b] # "asked"
               PROVE  /\ answer'[b] \in Texts
                      /\ ToSet(ExtractRecords(answer'[b]))
                           \subseteq ToSet(todo'[b]) \cup ToSet(acked'[b])
                                       \cup ToSet(acked'[Quarantine])
                      /\ pc'[b] = "done" => todo'[b] = <<>>
    BY DEF Taking
  <2>3. CASE b = a
    BY <2>1, <2>2, <2>3 DEF TypeOK
  <2>4. CASE b # a
    BY <2>1, <2>2, <2>4 DEF TypeOK, Taking
  <2> QED
    BY <2>3, <2>4
<1>2. ASSUME NEW a \in Agents, Acquire(a) PROVE Taking'
  BY <1>2 DEF TypeOK, Taking, Acquire
<1>3. ASSUME NEW a \in Agents, Finished(a) PROVE Taking'
  BY <1>3 DEF TypeOK, Taking, Finished
<1>4. ASSUME NEW a \in Agents, CannotEncode(a) PROVE Taking'
  BY <1>4 DEF TypeOK, Taking, CannotEncode
<1>5. ASSUME NEW a \in Agents, Write(a) PROVE Taking'
  BY <1>5 DEF TypeOK, Taking, Write
<1>6. ASSUME NEW a \in Agents, Finish(a) PROVE Taking'
  <2>1. /\ todo[a] \in Seq(Records) /\ todo[a] # <<>> /\ Head(todo[a]) \in Records
        /\ \A f \in Files : acked[f] \in Seq(Records)
        /\ todo'[a] = Tail(todo[a]) /\ pc'[a] = "append"
        /\ acked'[Target(a)] = Append(acked[Target(a)], Head(todo[a]))
        /\ \A f \in Files \ {Target(a)} : acked'[f] = acked[f]
        /\ \A b \in Agents \ {a} : todo'[b] = todo[b] /\ pc'[b] = pc[b]
        /\ faults' = faults /\ answer' = answer
    BY <1>6, FinishMoves
  <2>2. ToSet(todo[a]) = {Head(todo[a])} \cup ToSet(todo'[a])
    BY <2>1, HeadAndTail
  <2>3. ToSet(acked'[Target(a)]) = ToSet(acked[Target(a)]) \cup {Head(todo[a])}
    BY <2>1, OneAppended, TargetIsFile
  <2>4. \A f \in Files : ToSet(acked[f]) \subseteq ToSet(acked'[f])
    BY <2>1, <2>3
  <2>5. Target(a) = a \/ Target(a) = Quarantine
    BY DEF Target
  <2>6. pc[a] = "finish"
    BY <1>6 DEF Finish
  <2>7. Agents \subseteq Files /\ Quarantine \in Files
    BY DEF Files
  <2> SUFFICES ASSUME NEW b \in Agents, pc'[b] # "asked"
               PROVE  /\ answer'[b] \in Texts
                      /\ ToSet(ExtractRecords(answer'[b]))
                           \subseteq ToSet(todo'[b]) \cup ToSet(acked'[b])
                                       \cup ToSet(acked'[Quarantine])
                      /\ pc'[b] = "done" => todo'[b] = <<>>
    BY DEF Taking
  <2>8. CASE b = a
    <3>1. /\ answer[a] \in Texts
          /\ ToSet(ExtractRecords(answer[a]))
               \subseteq ToSet(todo[a]) \cup ToSet(acked[a]) \cup ToSet(acked[Quarantine])
      BY <2>6 DEF Taking
    <3>2. Head(todo[a]) \in ToSet(acked'[a]) \cup ToSet(acked'[Quarantine])
      BY <2>3, <2>5
    <3> QED
      BY <2>1, <2>2, <2>4, <2>7, <2>8, <3>1, <3>2
  <2>9. CASE b # a
    <3>1. pc[b] # "asked" /\ todo'[b] = todo[b] /\ pc'[b] = pc[b] /\ answer'[b] = answer[b]
      BY <2>1, <2>9
    <3>2. /\ answer[b] \in Texts
          /\ ToSet(ExtractRecords(answer[b]))
               \subseteq ToSet(todo[b]) \cup ToSet(acked[b]) \cup ToSet(acked[Quarantine])
          /\ pc[b] = "done" => todo[b] = <<>>
      BY <3>1 DEF Taking
    <3> QED
      BY <2>4, <2>7, <3>1, <3>2
  <2> QED
    BY <2>8, <2>9
<1>7. ASSUME NEW a \in Agents, WriteFails(a) PROVE Taking'
  BY <1>7 DEF TypeOK, Taking, WriteFails
<1>8. ASSUME CrashAndRerun PROVE Taking'
  BY <1>8 DEF Taking, CrashAndRerun
<1>9. ASSUME UNCHANGED ledgerVars PROVE Taking'
  BY <1>9 DEF Taking, ledgerVars
<1>10. QED
  BY <1>1, <1>2, <1>3, <1>4, <1>5, <1>6, <1>7, <1>8, <1>9 DEF Next, Thread

\* As long as nothing failed, an agent's file grows by what it has not in it.
LEMMA SingleStep ==
  ASSUME TypeOK, Locked, Single, [Next]_ledgerVars
  PROVE  Single'
<1>1. ASSUME NEW a \in Agents, Extract(a) PROVE Single'
  <2>1. PICK t \in Texts : todo' = [todo EXCEPT ![a] = ExtractRecords(t)]
    BY <1>1 DEF Extract
  <2>2. pc' = [pc EXCEPT ![a] = "append"] /\ acked' = acked /\ faults' = faults /\ pc[a] = "asked"
    BY <1>1 DEF Extract
  <2>3. NoRepeats(ExtractRecords(t))
    BY ExtractIs, LedgerAssumption DEF NoRepeats
  <2> SUFFICES ASSUME faults = 0, NEW b \in Agents
               PROVE  /\ pc'[b] = "asked" => acked'[b] = <<>>
                      /\ NoRepeats(todo'[b]) /\ NoRepeats(acked'[b])
                      /\ ToSet(todo'[b]) \cap ToSet(acked'[b]) = {}
    BY <2>2 DEF Single, NoRepeats, ToSet
  <2>4. CASE b = a
    <3>1. acked[a] = <<>>
      BY <2>2 DEF Single
    <3>2. NoRepeats(<<>>) /\ ToSet(<<>>) = {}
      BY DEF NoRepeats, ToSet
    <3>3. todo'[a] = ExtractRecords(t) /\ pc'[a] = "append"
      BY <2>1, <2>2 DEF TypeOK
    <3> QED
      BY <2>2, <2>3, <2>4, <3>1, <3>2, <3>3
  <2>5. CASE b # a
    <3>1. todo'[b] = todo[b] /\ pc'[b] = pc[b] /\ acked'[b] = acked[b]
      BY <2>1, <2>2, <2>5 DEF TypeOK
    <3> QED
      BY <3>1 DEF Single
  <2> QED
    BY <2>4, <2>5
<1>2. ASSUME NEW a \in Agents, Finish(a) PROVE Single'
  <2>1. /\ todo[a] \in Seq(Records) /\ todo[a] # <<>> /\ Head(todo[a]) \in Records
        /\ \A f \in Files : acked[f] \in Seq(Records)
        /\ todo'[a] = Tail(todo[a]) /\ pc'[a] = "append"
        /\ acked'[Target(a)] = Append(acked[Target(a)], Head(todo[a]))
        /\ \A f \in Files \ {Target(a)} : acked'[f] = acked[f]
        /\ \A b \in Agents \ {a} : todo'[b] = todo[b] /\ pc'[b] = pc[b]
        /\ faults' = faults /\ answer' = answer
    BY <1>2, FinishMoves
  <2>2. Target(a) = a \/ Target(a) = Quarantine
    BY DEF Target
  <2>3. Quarantine \notin Agents /\ Agents \subseteq Files
    BY LedgerAssumption DEF Files
  <2> SUFFICES ASSUME faults = 0, NEW b \in Agents
               PROVE  /\ pc'[b] = "asked" => acked'[b] = <<>>
                      /\ NoRepeats(todo'[b]) /\ NoRepeats(acked'[b])
                      /\ ToSet(todo'[b]) \cap ToSet(acked'[b]) = {}
    BY <2>1 DEF Single, NoRepeats, ToSet
  <2>4. CASE b = a
    <3> DEFINE r == Head(todo[a])
    <3>1. NoRepeats(todo[a]) /\ NoRepeats(acked[a]) /\ ToSet(todo[a]) \cap ToSet(acked[a]) = {}
      BY DEF Single
    <3>2. /\ NoRepeats(todo'[a]) /\ r \notin ToSet(todo'[a])
          /\ ToSet(todo[a]) = {r} \cup ToSet(todo'[a])
      BY <2>1, <3>1, HeadAndTail
    <3>3. CASE Target(a) = a
      <4>1. acked'[a] = Append(acked[a], r) /\ acked[a] \in Seq(Records) /\ r \notin ToSet(acked[a])
        BY <2>1, <2>3, <3>1, <3>2, <3>3
      <4>2. NoRepeats(acked'[a]) /\ ToSet(acked'[a]) = ToSet(acked[a]) \cup {r}
        <5> HIDE DEF r
        <5>1. r \in Records
          BY <2>1 DEF r
        <5> QED
          BY <3>1, <4>1, <5>1, OneAppended
      <4> QED
        BY <2>1, <2>4, <3>1, <3>2, <4>2
    <3>4. CASE Target(a) = Quarantine
      <4>1. acked'[a] = acked[a]
        BY <2>1, <2>3, <3>4
      <4> QED
        BY <2>1, <2>4, <3>1, <3>2, <4>1
    <3> QED
      BY <2>2, <3>3, <3>4
  <2>5. CASE b # a
    <3>1. todo'[b] = todo[b] /\ pc'[b] = pc[b] /\ acked'[b] = acked[b]
      BY <2>1, <2>2, <2>3, <2>5
    <3> QED
      BY <3>1 DEF Single
  <2> QED
    BY <2>4, <2>5
<1>3. ASSUME NEW a \in Agents, Acquire(a) \/ Finished(a) \/ CannotEncode(a) \/ Write(a)
      PROVE  Single'
  <2>1. /\ todo' = todo /\ acked' = acked /\ faults' = faults
        /\ \A b \in Agents : pc'[b] = "asked" => pc[b] = "asked"
    BY <1>3 DEF Acquire, Finished, CannotEncode, Write, TypeOK
  <2> QED
    BY <2>1 DEF Single, NoRepeats, ToSet
<1>4. ASSUME CrashAndRerun \/ \E a \in Agents : WriteFails(a)
      PROVE  Single'
  <2>1. faults' = faults + 1 /\ faults \in Nat
    BY <1>4, Bounds DEF CrashAndRerun, WriteFails, TypeOK
  <2> QED
    BY <2>1 DEF Single
<1>5. ASSUME UNCHANGED ledgerVars PROVE Single'
  BY <1>5 DEF Single, ledgerVars, NoRepeats, ToSet
<1>6. QED
  BY <1>1, <1>2, <1>3, <1>4, <1>5 DEF Next, Thread

\* The invariant holds of every behaviour.
LEMMA TakenInvariant == Spec => []TakenInv
<1>1. ASSUME FilesInv, TakenInv, [Next]_ledgerVars PROVE Taking' /\ Single'
  <2>1. TypeOK /\ Locked /\ Taking /\ Single
    BY <1>1 DEF FilesInv, TakenInv
  <2> QED
    BY <1>1, <2>1, TakingStep, SingleStep
<1>2. Init => TakenInv
  BY TakenInit
<1>3. FilesInv' /\ TakenInv /\ FilesInv /\ [Next]_ledgerVars => TakenInv'
  BY <1>1 DEF TakenInv
<1>4. QED
  BY <1>2, <1>3, FilesInvariant, PTL DEF Spec

\* A list without repeats has as many elements as places.
LEMMA AsManyAsPlaces ==
  ASSUME NEW T, NEW list \in Seq(T), NoRepeats(list)
  PROVE  Cardinality(ToSet(list)) = Len(list)
<1>1. DOMAIN list = 1..Len(list) /\ Len(list) \in Nat
  OBVIOUS
<1>2. Cardinality(1..Len(list)) = Len(list) /\ IsFiniteSet(1..Len(list))
  <2>1. Len(list) \in Int /\ 1 \in Int
    BY <1>1
  <2>2. /\ Cardinality(1..Len(list)) = IF 1 > Len(list) THEN 0 ELSE Len(list) - 1 + 1
        /\ IsFiniteSet(1..Len(list))
    BY <2>1, FS_Interval
  <2> QED
    BY <1>1, <2>2
<1> DEFINE at == [i \in 1..Len(list) |-> list[i]]
<1>3. at \in Bijection(1..Len(list), ToSet(list))
  <2>1. at \in [1..Len(list) -> ToSet(list)]
    BY <1>1 DEF ToSet
  <2>2. \A i, j \in 1..Len(list) : at[i] = at[j] => i = j
    BY <1>1 DEF NoRepeats
  <2>3. \A r \in ToSet(list) : \E i \in 1..Len(list) : at[i] = r
    BY <1>1 DEF ToSet
  <2> HIDE DEF at
  <2> QED
    BY <2>1, <2>2, <2>3 DEF Bijection, Injection, Surjection, IsInjective
<1> HIDE DEF at
<1>4. Cardinality(ToSet(list)) = Cardinality(1..Len(list))
  BY <1>2, <1>3, FS_Bijection DEF ExistsBijection
<1> QED
  BY <1>2, <1>4

\* The invariant gives the property: an agent that is through has nothing to append.
LEMMA TakenIsSaid ==
  ASSUME TakenInv
  PROVE  SaidIsTaken
<1>1. TypeOK /\ Taking /\ Single
  BY DEF TakenInv, FilesInv
<1> SUFFICES ASSUME NEW a \in Agents, pc[a] = "done"
             PROVE  LET text == answer[a]
                        kept == ToSet(acked[a]) \cup ToSet(acked[Quarantine])
                    IN /\ \A i \in DOMAIN text.fences :
                            LET fence == text.fences[i] IN
                              /\ ToSet(OnLines(fence)) \subseteq kept
                              /\ Len(fence) = 1 => ToSet(Whole(fence)) \subseteq kept
                       /\ (\A i \in DOMAIN text.fences : ParseLines(text.fences[i]) = <<>>) =>
                            ToSet(OnLines(text.loose)) \subseteq kept
                       /\ faults = 0 => Cardinality(ToSet(acked[a])) = Len(acked[a])
  BY DEF SaidIsTaken
<1> DEFINE text == answer[a]
           kept == ToSet(acked[a]) \cup ToSet(acked[Quarantine])
<1>2. /\ text \in Texts /\ todo[a] = <<>>
      /\ ToSet(ExtractRecords(text)) \subseteq ToSet(todo[a]) \cup kept
  BY <1>1 DEF Taking
<1>3. ToSet(todo[a]) = {}
  BY <1>2 DEF ToSet
<1>4. IsText(text)
  BY <1>2, LedgerAssumption
<1> HIDE DEF text, kept
<1>5. /\ \A i \in DOMAIN text.fences :
           ToSet(OnLines(text.fences[i])) \subseteq ToSet(ExtractRecords(text))
      /\ \A i \in DOMAIN text.fences : Len(text.fences[i]) = 1 =>
           ToSet(Whole(text.fences[i])) \subseteq ToSet(ExtractRecords(text))
      /\ (\A i \in DOMAIN text.fences : ParseLines(text.fences[i]) = <<>>) =>
           ToSet(OnLines(text.loose)) \subseteq ToSet(ExtractRecords(text))
  BY <1>4, ExtractIs
<1>6. ASSUME faults = 0
      PROVE  Cardinality(ToSet(acked[a])) = Len(acked[a])
  <2>1. NoRepeats(acked[a])
    BY <1>1, <1>6 DEF Single
  <2>2. acked[a] \in Seq(Records)
    BY <1>1 DEF TypeOK, Files
  <2> QED
    BY <2>1, <2>2, AsManyAsPlaces
<1>7. /\ \A i \in DOMAIN text.fences : ToSet(OnLines(text.fences[i])) \subseteq kept
      /\ \A i \in DOMAIN text.fences : Len(text.fences[i]) = 1 =>
           ToSet(Whole(text.fences[i])) \subseteq kept
      /\ (\A i \in DOMAIN text.fences : ParseLines(text.fences[i]) = <<>>) =>
           ToSet(OnLines(text.loose)) \subseteq kept
  BY <1>2, <1>3, <1>5
<1> QED
  BY <1>6, <1>7 DEF text, kept

\* What the model said is on record once its agent is through: every record on a line
\* of a fence, every record of a fence that is one value and, where the fences hold
\* none, every record on a line of the rest;
\* each in the agent's file or in the quarantine and, unless something failed, in its
\* file once however often it was said.  (extract_records, then append_many)
THEOREM SaidTaken == Spec => []SaidIsTaken
<1>1. TakenInv => SaidIsTaken
  BY TakenIsSaid
<1>2. QED
  BY <1>1, TakenInvariant, PTL
=============================================================================
