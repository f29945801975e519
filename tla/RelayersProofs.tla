--------------------------- MODULE RelayersProofs ---------------------------
(***************************************************************************)
(* The wallet indexes of relayers, and the cache and the queues that follow  *)
(* their rows, for every set of requests, relayers, chains and keys.         *)
(***************************************************************************)
EXTENDS Relayers, WellFoundedInduction, TLAPS

-----------------------------------------------------------------------------
(***************************************************************************)
(* The maximum of a set of integers that has a bound.                       *)
(***************************************************************************)
LEMMA MaxOfBounded ==
  ASSUME NEW S \in SUBSET Int, S # {}, NEW m \in Int, \A x \in S : x <= m
  PROVE  Max(S) \in S /\ \A y \in S : y <= Max(S)
<1> DEFINE gap == {n \in Nat : m - n \in S}
<1>1. gap # {}
  <2>1. PICK x \in S : TRUE
    OBVIOUS
  <2>2. m - x \in Nat /\ m - (m - x) = x
    BY <2>1
  <2> QED  BY <2>1, <2>2
<1>2. PICK n \in gap : \A k \in gap : ~ (<<k, n>> \in OpToRel(<, Nat))
  <2>1. IsWellFoundedOn(OpToRel(<, Nat), Nat)
    BY NatLessThanWellFounded, Zenon
  <2>2. gap \in SUBSET Nat
    OBVIOUS
  <2> HIDE DEF gap
  <2> QED  BY <1>1, <2>1, <2>2, WFMin, Zenon
<1>3. \A k \in gap : ~ (k < n)
  BY <1>2 DEF OpToRel
<1>4. \A y \in S : m - y \in gap
  OBVIOUS
<1>5. m - n \in S /\ \A y \in S : m - n >= y
  BY <1>3, <1>4
<1> QED  BY <1>5 DEF Max

-----------------------------------------------------------------------------
(***************************************************************************)
(* The invariant: who is about to insert a derived or an imported relayer    *)
(* has the mutex to itself, and its index is free.                          *)
(***************************************************************************)
Place == {"out", "check", "lock", "allocate", "source", "insert", "read_back", "start",
          "exists", "fill", "update", "delete", "invalidate", "queue", "done"}

Numbered == {"create", "import"}

Ops(place) ==
  IF place = "check" THEN {"import"}
  ELSE IF place \in {"lock", "allocate"} THEN Numbered
  ELSE IF place = "source" THEN {"clone"}
  ELSE IF place \in {"insert", "read_back", "start"} THEN {"create", "import", "clone"}
  ELSE IF place \in {"exists", "fill", "update", "delete", "invalidate", "queue"}
       THEN {"delete", "set"}
  ELSE {"create", "import", "clone", "delete", "set"}

RowOrNone == Row \cup {NoRelayer}

RowsTyped == row \in [Id -> RowOrNone]

HandlersTyped ==
  /\ pc \in [Request -> Place]
  /\ ask \in [Request -> Ask \cup {Nobody}]
  /\ work \in [Request -> [index : Int, row : RowOrNone, settings : Settings \cup {NoRelayer}]]
  /\ DOMAIN answer = Request
  /\ \A a \in Request : pc[a] # "out" => ask[a] \in Ask /\ ask[a].op \in Ops(pc[a])
  /\ \A a \in Request :
       pc[a] = "insert" /\ ask[a].op = "clone" => work[a].row \in Row
  /\ \A a \in late : /\ a \in Request /\ pc[a] = "done"
                     /\ ask[a].op = "clone" => work[a].row \in Row

\* Whose INSERT or UPDATE may take effect in the next step.
Inserting(a) == pc[a] = "insert" \/ (a \in late /\ ask[a].op \in {"create", "import", "clone"})
Changing(a) == pc[a] \in {"update", "delete"} \/ (a \in late /\ ask[a].op \in {"delete", "set"})

\* get_next_wallet_index has something to be the maximum of.
BoundedBy(m) ==
  /\ \A i \in Id : Present(i) => row[i].index <= m
  /\ \A a \in Request : /\ work[a].index <= m
                        /\ work[a].row # NoRelayer => work[a].row.index <= m

Bounded == \E m \in Nat : BoundedBy(m)

Allocating(a) == pc[a] \in {"allocate", "insert", "read_back", "start"} /\ ask[a].op \in Numbered

Mutex == \A a \in Request : Allocating(a) => holder = a

IndexFree ==
  \A a \in Request :
    pc[a] = "insert" /\ ask[a].op \in Numbered /\ a \notin overtaken => ~IndexTaken(NewRow(a))

IndexInv ==
  /\ RowsTyped /\ HandlersTyped /\ Bounded /\ Mutex /\ IndexFree
  /\ IndexesNeverClash

LEMMA IndexInit == Init => IndexInv
<1> SUFFICES ASSUME Init PROVE IndexInv
  OBVIOUS
<1>1. RowsTyped
  BY RelayersAssumption DEF Init, RowsTyped, RowOrNone, Id
<1>2. HandlersTyped
  BY DEF Init, HandlersTyped, NoWork, RowOrNone, Place
<1>3. Bounded
  <2>1. \A a \in Request : work[a].index = 0 /\ work[a].row = NoRelayer
    BY DEF Init, NoWork
  <2>2. \A i \in Id : Present(i) => i \in Seed /\ row[i] = SeedRow[i]
    BY DEF Init, Present
  <2>3. \A i \in Seed : SeedRow[i].index \in Int
    BY RelayersAssumption DEF Row
  <2>4. CASE Seed = {}
    <3>1. BoundedBy(0)
      BY <2>1, <2>2, <2>4 DEF BoundedBy
    <3> QED  BY <3>1 DEF Bounded
  <2>5. CASE Seed # {}
    <3>1. PICK top \in Seed : \A i \in Seed : SeedRow[i].index <= SeedRow[top].index
      BY <2>5, RelayersAssumption
    <3> DEFINE m == IF SeedRow[top].index >= 0 THEN SeedRow[top].index ELSE 0
    <3>2. m \in Nat /\ \A i \in Seed : SeedRow[i].index <= m
      BY <2>3, <3>1
    <3> HIDE DEF m
    <3>3. BoundedBy(m)
      BY <2>1, <2>2, <3>2 DEF BoundedBy
    <3> QED  BY <3>2, <3>3 DEF Bounded
  <2> QED  BY <2>4, <2>5
<1>4. Mutex /\ IndexFree /\ IndexesNeverClash
  BY DEF Init, Mutex, IndexFree, IndexesNeverClash, Allocating
<1> QED  BY <1>1, <1>2, <1>3, <1>4 DEF IndexInv

-----------------------------------------------------------------------------
(***************************************************************************)
(* What a new row and a changed one are.                                    *)
(***************************************************************************)
LEMMA NewRows ==
  ASSUME IndexInv, NEW a \in Request, Inserting(a)
  PROVE  /\ NewRow(a) \in Row
         /\ ask[a] \in Ask /\ ask[a].op \in {"create", "import", "clone"}
         /\ NewRow(a).chain = ask[a].chain
         /\ NewRow(a).cloned <=> ask[a].op = "clone"
         /\ ask[a].op \in Numbered => NewRow(a).index = work[a].index
         /\ ask[a].op = "clone" => NewRow(a).index = work[a].row.index /\ work[a].row \in Row
<1>1. /\ ask[a] \in Ask /\ ask[a].op \in {"create", "import", "clone"}
      /\ work[a].index \in Int
      /\ ask[a].op = "clone" => work[a].row \in Row
  BY DEF IndexInv, HandlersTyped, Ops, Inserting
<1>2. ask[a].chain \in Chain /\ (ask[a].op = "import" => ask[a].key \in ImportKey)
  BY <1>1 DEF Ask
<1>3. [f \in Setting |-> f = "eip_1559_enabled"] \in Settings
  BY DEF Settings
<1>4. CASE ask[a].op = "clone"
  BY <1>1, <1>2, <1>4 DEF NewRow, Row, Numbered
<1>5. CASE ask[a].op = "import"
  BY <1>1, <1>2, <1>3, <1>5 DEF NewRow, Row, Numbered
<1>6. CASE ask[a].op = "create"
  BY <1>1, <1>2, <1>3, <1>6 DEF NewRow, Row, Numbered
<1> QED  BY <1>1, <1>4, <1>5, <1>6

\* The rows that hold an index after an insert are those that held it before, and the new one.
LEMMA InsertedRows ==
  ASSUME IndexInv, NEW a \in Request, Inserting(a), row' = Inserted(a)
  PROVE  /\ RowsTyped'
         /\ row'[a] = NewRow(a)
         /\ \A i \in Id \ {a} :
              \/ row'[i] = row[i]
              \/ /\ row[i] \in Row /\ row'[i] \in Row
                 /\ row'[i].chain = row[i].chain /\ row'[i].index = row[i].index
                 /\ row'[i].is_private_key = row[i].is_private_key
                 /\ row'[i].cloned = row[i].cloned
                 /\ ~row'[i].deleted => ~row[i].deleted
<1>1. a \in Id /\ NewRow(a) \in Row
  BY NewRows DEF Id
<1>2. row'[a] = NewRow(a)
  BY <1>1 DEF Inserted
<1>3. \A i \in Id \ {a} :
        \/ row'[i] = row[i]
        \/ row[i] \in Row /\ row'[i] = [row[i] EXCEPT !.address = NewRow(a).address]
  BY DEF Inserted, Present, IndexInv, RowsTyped, RowOrNone
<1>4. ASSUME NEW n \in Row, NEW k, k = [n EXCEPT !.address = NewRow(a).address]
      PROVE  /\ k \in Row /\ k.chain = n.chain /\ k.index = n.index
             /\ k.is_private_key = n.is_private_key /\ k.cloned = n.cloned
             /\ k.deleted = n.deleted
  BY <1>1, <1>4 DEF Row
<1>5. RowsTyped'
  BY <1>1, <1>2, <1>3, <1>4 DEF Inserted, IndexInv, RowsTyped, RowOrNone
<1>6. ASSUME NEW i \in Id \ {a}, row'[i] # row[i]
      PROVE  /\ row[i] \in Row /\ row'[i] \in Row
             /\ row'[i].chain = row[i].chain /\ row'[i].index = row[i].index
             /\ row'[i].is_private_key = row[i].is_private_key
             /\ row'[i].cloned = row[i].cloned
             /\ ~row'[i].deleted => ~row[i].deleted
  <2>1. row[i] \in Row /\ row'[i] = [row[i] EXCEPT !.address = NewRow(a).address]
    BY <1>3, <1>6
  <2> QED  BY <1>4, <2>1
<1> QED  BY <1>2, <1>5, <1>6

LEMMA ChangedRows ==
  ASSUME IndexInv, NEW a \in Request, ask[a] \in Ask, ask[a].op \in {"delete", "set"},
         row' = Changed(a)
  PROVE  /\ RowsTyped'
         /\ \A i \in Id :
              \/ row'[i] = row[i]
              \/ /\ row[i] \in Row /\ row'[i] \in Row
                 /\ row'[i].chain = row[i].chain /\ row'[i].index = row[i].index
                 /\ row'[i].is_private_key = row[i].is_private_key
                 /\ row'[i].cloned = row[i].cloned
                 /\ ~row'[i].deleted => ~row[i].deleted
<1>1. /\ ask[a].id \in Id
      /\ ask[a].op = "set" => ask[a].setting \in Setting /\ ask[a].value \in BOOLEAN
  BY DEF Ask
<1> DEFINE id == ask[a].id
<1>2. CASE ~Present(id)
  BY <1>2 DEF Changed, IndexInv, RowsTyped
<1>3. CASE Present(id) /\ ask[a].op = "delete"
  <2>1. row[id] \in Row /\ row' = [row EXCEPT ![id].deleted = TRUE]
    BY <1>1, <1>3 DEF Changed, Present, IndexInv, RowsTyped, RowOrNone
  <2>2. [row[id] EXCEPT !.deleted = TRUE] \in Row
    BY <2>1 DEF Row
  <2>3. /\ row' \in [Id -> RowOrNone] /\ row'[id] = [row[id] EXCEPT !.deleted = TRUE]
        /\ \A i \in Id \ {id} : row'[i] = row[i]
    BY <1>1, <2>1, <2>2 DEF IndexInv, RowsTyped, RowOrNone
  <2> HIDE DEF id
  <2> QED  BY <2>1, <2>2, <2>3 DEF RowsTyped, Row
<1>4. CASE Present(id) /\ ask[a].op = "set"
  <2>1. row[id] \in Row /\ row' = [row EXCEPT ![id].settings[ask[a].setting] = ask[a].value]
    BY <1>1, <1>4 DEF Changed, Present, IndexInv, RowsTyped, RowOrNone
  <2>2. [row[id].settings EXCEPT ![ask[a].setting] = ask[a].value] \in Settings
    BY <1>1, <1>4, <2>1 DEF Row, Settings
  <2>3. row' = [row EXCEPT ![id].settings = [row[id].settings EXCEPT ![ask[a].setting] = ask[a].value]]
    BY <2>1
  <2>4. [row[id] EXCEPT !.settings = [row[id].settings EXCEPT ![ask[a].setting] = ask[a].value]] \in Row
    BY <2>1, <2>2 DEF Row
  <2> DEFINE settings == [row[id].settings EXCEPT ![ask[a].setting] = ask[a].value]
  <2>5. /\ row' \in [Id -> RowOrNone] /\ row'[id] = [row[id] EXCEPT !.settings = settings]
        /\ \A i \in Id \ {id} : row'[i] = row[i]
    BY <1>1, <2>1, <2>3, <2>4 DEF IndexInv, RowsTyped, RowOrNone
  <2> HIDE DEF id, settings
  <2> QED  BY <2>1, <2>4, <2>5 DEF RowsTyped, Row
<1> QED  BY <1>2, <1>3, <1>4

\* A row that is not written with an index does not take one.
LEMMA TakenBefore ==
  ASSUME NEW n \in Row,
         \A i \in Id :
           \/ row'[i] = row[i]
           \/ row'[i] # NoRelayer /\ row'[i].cloned
           \/ /\ row[i] # NoRelayer
              /\ row'[i].chain = row[i].chain /\ row'[i].index = row[i].index
              /\ row'[i].is_private_key = row[i].is_private_key
              /\ row'[i].cloned = row[i].cloned
              /\ ~row'[i].deleted => ~row[i].deleted
  PROVE  IndexTaken(n)' => IndexTaken(n)
BY DEF IndexTaken, Live, Present

\* What get_next_wallet_index finds is free.
LEMMA NextIndexFree ==
  ASSUME IndexInv, NEW a \in Request, ask[a] \in Ask, ask[a].op \in Numbered
  PROVE  /\ NextIndex(a) \in Int
         /\ \A i \in Id : Live(i) /\ row[i].chain = ask[a].chain /\ ~row[i].is_private_key
                            /\ row[i].index >= 0 => row[i].index < NextIndex(a)
<1> DEFINE S == {row[i].index : i \in Counted(a)}
<1>1. \A i \in Counted(a) : Present(i) /\ row[i].index \in Int
  BY DEF Counted, Live, Present, IndexInv, RowsTyped, RowOrNone, Row
<1>2. ASSUME NEW i \in Id, Live(i), row[i].chain = ask[a].chain, ~row[i].is_private_key,
             row[i].index >= 0
      PROVE  i \in Counted(a)
  BY <1>2 DEF Counted
<1>3. CASE Counted(a) = {}
  BY <1>2, <1>3 DEF NextIndex
<1>4. CASE Counted(a) # {}
  <2>1. S \in SUBSET Int /\ S # {}
    BY <1>1, <1>4
  <2>2. PICK m \in Nat : BoundedBy(m)
    BY DEF IndexInv, Bounded
  <2>3. \A x \in S : x <= m
    BY <1>1, <2>2 DEF BoundedBy, Counted
  <2>4. NextIndex(a) = Max(S) + 1
    BY <1>4 DEF NextIndex
  <2>5. \A i \in Counted(a) : row[i].index \in S
    OBVIOUS
  <2> HIDE DEF S
  <2>6. Max(S) \in S /\ \A y \in S : y <= Max(S)
    BY <2>1, <2>2, <2>3, MaxOfBounded
  <2>7. Max(S) \in Int
    BY <2>1, <2>6
  <2>8. \A i \in Counted(a) : row[i].index < NextIndex(a)
    BY <1>1, <2>4, <2>5, <2>6, <2>7
  <2> QED  BY <1>2, <2>4, <2>7, <2>8
<1> QED  BY <1>3, <1>4

-----------------------------------------------------------------------------
(***************************************************************************)
(* A step of a handler, in general.                                         *)
(***************************************************************************)
\* It leaves the rows well-formed, below every bound that there was, and takes no index that
\* another request is about to insert without that one being known as overtaken.
RowsGood(a) ==
  /\ RowsTyped' /\ overtaken \subseteq overtaken'
  /\ \A m \in Nat : BoundedBy(m) => \A i \in Id : Present(i)' => row'[i].index <= m
  /\ \A b \in Request \ {a}, n \in Row :
       pc[b] = "insert" /\ ask[b].op \in Numbered /\ n = NewRow(b) /\ b \notin overtaken'
         => ~IndexTaken(n)'

LEMMA SameGood ==
  ASSUME IndexInv, NEW a \in Request, row' = row, overtaken' = overtaken
  PROVE  RowsGood(a)
BY DEF RowsGood, IndexInv, RowsTyped, BoundedBy, Present, IndexFree, IndexTaken, Live

LEMMA InsertGood ==
  ASSUME IndexInv, NEW a \in Request, Inserting(a), row' = Inserted(a),
         overtaken \subseteq overtaken',
         a \in late /\ ask[a].op \in Numbered => Overtakes(a) \subseteq overtaken'
  PROVE  RowsGood(a)
<1>1. /\ RowsTyped' /\ row'[a] = NewRow(a)
      /\ \A i \in Id \ {a} :
           \/ row'[i] = row[i]
           \/ /\ row[i] \in Row /\ row'[i] \in Row
              /\ row'[i].chain = row[i].chain /\ row'[i].index = row[i].index
              /\ row'[i].is_private_key = row[i].is_private_key
              /\ row'[i].cloned = row[i].cloned
              /\ ~row'[i].deleted => ~row[i].deleted
  BY InsertedRows
<1>2. ask[a].op \in {"create", "import", "clone"} /\ a \in Id
  BY NewRows DEF Id
<1>3. ASSUME NEW m \in Nat, BoundedBy(m), NEW i \in Id, Present(i)'
      PROVE  row'[i].index <= m
  <2>1. CASE i = a
    <3>1. NoRelayer \notin Row
      BY RelayersAssumption
    <3>2. NewRow(a).index <= m
      BY <1>2, <1>3, <3>1, NewRows DEF BoundedBy, Numbered
    <3> QED  BY <1>1, <2>1, <3>2
  <2>2. CASE i # a
    <3>1. /\ Present(i) /\ row'[i].index = row[i].index
      BY <1>1, <1>3, <2>2, RelayersAssumption DEF Present
    <3> QED  BY <1>3, <3>1 DEF BoundedBy
  <2> QED  BY <2>1, <2>2
<1>4. ASSUME NEW b \in Request \ {a}, NEW n \in Row,
             pc[b] = "insert", ask[b].op \in Numbered, n = NewRow(b), b \notin overtaken'
      PROVE  ~IndexTaken(n)'
  <2>1. ~IndexTaken(n)
    BY <1>4 DEF IndexInv, IndexFree
  <2>2. CASE ask[a].op = "clone"
    <3>1. row'[a] # NoRelayer /\ row'[a].cloned
      BY <1>1, <2>2, NewRows, RelayersAssumption
    <3>2. \A i \in Id :
             \/ row'[i] = row[i]
             \/ row'[i] # NoRelayer /\ row'[i].cloned
             \/ /\ row[i] # NoRelayer
                /\ row'[i].chain = row[i].chain /\ row'[i].index = row[i].index
                /\ row'[i].is_private_key = row[i].is_private_key
                /\ row'[i].cloned = row[i].cloned
                /\ ~row'[i].deleted => ~row[i].deleted
      BY <1>1, <3>1, RelayersAssumption
    <3> QED  BY <2>1, <3>2, TakenBefore
  <2>3. CASE ask[a].op # "clone"
    <3>1. ask[a].op \in Numbered
      BY <1>2, <2>3 DEF Numbered
    <3>2. pc[a] # "insert"
      BY <1>4, <3>1 DEF IndexInv, Mutex, Allocating
    <3>3. a \in late /\ b \notin Overtakes(a)
      BY <1>4, <3>1, <3>2 DEF Inserting
    <3>4. /\ row'[a].chain = ask[a].chain /\ row'[a].index = work[a].index
          /\ n.chain = ask[b].chain /\ n.index = work[b].index
      BY <1>1, <1>4, <3>1, NewRows DEF Inserting
    <3>5. row'[a].chain # n.chain \/ row'[a].index # n.index
      BY <1>4, <3>3, <3>4 DEF Overtakes, Numbered
    <3>6. \A i \in Id \ {a} : row'[i] = row[i] \/ row[i] \in Row
      BY <1>1
    <3> QED  BY <1>1, <2>1, <3>5, <3>6, RelayersAssumption DEF IndexTaken, Live, Present
  <2> QED  BY <2>2, <2>3
<1> QED  BY <1>1, <1>3, <1>4 DEF RowsGood

LEMMA ChangedGood ==
  ASSUME IndexInv, NEW a \in Request, Changing(a), row' = Changed(a), overtaken' = overtaken
  PROVE  RowsGood(a)
<1>1. ask[a] \in Ask /\ ask[a].op \in {"delete", "set"}
  BY DEF IndexInv, HandlersTyped, Ops, Changing
<1>2. /\ RowsTyped'
      /\ \A i \in Id :
           \/ row'[i] = row[i]
           \/ /\ row[i] \in Row /\ row'[i] \in Row
              /\ row'[i].chain = row[i].chain /\ row'[i].index = row[i].index
              /\ row'[i].is_private_key = row[i].is_private_key
              /\ row'[i].cloned = row[i].cloned
              /\ ~row'[i].deleted => ~row[i].deleted
  BY <1>1, ChangedRows
<1>3. ASSUME NEW m \in Nat, BoundedBy(m), NEW i \in Id, Present(i)'
      PROVE  row'[i].index <= m
  <2>1. Present(i) /\ row'[i].index = row[i].index
    BY <1>2, <1>3, RelayersAssumption DEF Present
  <2> QED  BY <1>3, <2>1 DEF BoundedBy
<1>4. ASSUME NEW b \in Request \ {a}, NEW n \in Row,
             pc[b] = "insert", ask[b].op \in Numbered, n = NewRow(b), b \notin overtaken'
      PROVE  ~IndexTaken(n)'
  <2>1. ~IndexTaken(n)
    BY <1>4 DEF IndexInv, IndexFree
  <2>2. \A i \in Id : row[i] \in Row => row[i] # NoRelayer
    BY RelayersAssumption
  <2> QED  BY <1>2, <2>1, <2>2, TakenBefore
<1> QED  BY <1>2, <1>3, <1>4 DEF RowsGood

WorkType == [index : Int, row : RowOrNone, settings : Settings \cup {NoRelayer}]

LEMMA StepOf ==
  ASSUME IndexInv, NEW a \in Request, NEW p \in Place \ {"out"},
         pc[a] \notin {"out", "done"}, ask' = ask, pc' = [pc EXCEPT ![a] = p],
         ask[a].op \in Ops(p), RowsGood(a), Bounded', late' \in {late, late \cup {a}},
         late' # late => p = "done" /\ (ask[a].op = "clone" => work[a].row \in Row),
         work' \in [Request -> WorkType], \A b \in Request \ {a} : work'[b] = work[b],
         p = "insert" => /\ ask[a].op \in Numbered => (~IndexTaken(NewRow(a)))'
                         /\ ask[a].op = "clone" => work'[a].row \in Row,
         holder \notin {a, Nobody} => holder' = holder,
         p \in {"allocate", "insert", "read_back", "start"} /\ ask[a].op \in Numbered => holder' = a,
         DOMAIN answer' = Request,
         \A b \in Request :
           answer'[b] # answer[b] => answer'[b] # "index_taken" \/ b \in overtaken,
         p = "done" => work' = work
  PROVE  IndexInv'
<1>1. pc' \in [Request -> Place] /\ pc'[a] = p /\ \A b \in Request \ {a} : pc'[b] = pc[b]
  BY DEF IndexInv, HandlersTyped
<1>2. HandlersTyped'
  <2>1. \A b \in late' : /\ b \in Request /\ pc'[b] = "done"
                         /\ ask'[b].op = "clone" => work'[b].row \in Row
    BY <1>1 DEF IndexInv, HandlersTyped
  <2> QED  BY <1>1, <2>1 DEF IndexInv, HandlersTyped, WorkType
<1>3. Mutex'
  <2>1. \A b \in Request \ {a} : Allocating(b)' => Allocating(b) /\ holder = b /\ b # Nobody
    BY <1>1, RelayersAssumption DEF IndexInv, Mutex, Allocating
  <2>2. Allocating(a)' => holder' = a
    BY <1>1 DEF Allocating
  <2> QED  BY <2>1, <2>2 DEF Mutex
<1>4. IndexFree'
  <2>1. ASSUME NEW b \in Request \ {a}, pc[b] = "insert", ask[b].op \in Numbered,
               b \notin overtaken'
        PROVE  (~IndexTaken(NewRow(b)))'
    <3>1. NewRow(b) \in Row
      BY <2>1, NewRows DEF Inserting
    <3>2. NewRow(b)' = NewRow(b)
      BY DEF NewRow
    <3>3. \A n \in Row : n = NewRow(b) => ~IndexTaken(n)'
      BY <2>1 DEF RowsGood
    <3> QED  BY <3>1, <3>2, <3>3 DEF IndexTaken
  <2> QED  BY <1>1, <2>1 DEF IndexFree
<1>5. IndexesNeverClash'
  BY DEF IndexInv, IndexesNeverClash, RowsGood
<1> QED  BY <1>2, <1>3, <1>4, <1>5 DEF IndexInv, RowsGood

\* It stays below the bound.
LEMMA BoundKept ==
  ASSUME IndexInv, NEW a \in Request, RowsGood(a),
         \A b \in Request : work'[b].index = work[b].index /\ work'[b].row = work[b].row
  PROVE  Bounded'
<1>1. PICK m \in Nat : BoundedBy(m)
  BY DEF IndexInv, Bounded
<1>2. BoundedBy(m)'
  BY <1>1 DEF BoundedBy, RowsGood
<1> QED  BY <1>2 DEF Bounded

LEMMA Leaves ==
  ASSUME IndexInv, NEW a \in Request, pc[a] \notin {"out", "done"},
         NEW what, what # "index_taken" \/ a \in overtaken,
         Leave(a, what), RowsGood(a), late' \in {late, late \cup {a}},
         late' # late => (ask[a].op = "clone" => work[a].row \in Row)
  PROVE  IndexInv'
<1>1. Bounded'
  BY BoundKept DEF Leave
<1>2. ask[a].op \in Ops("done")
  BY DEF IndexInv, HandlersTyped, Ops, Ask
<1>3. /\ ask' = ask /\ work' = work /\ pc' = [pc EXCEPT ![a] = "done"]
      /\ answer' = [answer EXCEPT ![a] = what]
      /\ holder # a => holder' = holder
  BY DEF Leave
<1>4. work' \in [Request -> WorkType] /\ "done" \in Place \ {"out"}
  BY <1>3 DEF IndexInv, HandlersTyped, WorkType, Place
<1>5. /\ DOMAIN answer' = Request
      /\ \A b \in Request :
           answer'[b] # answer[b] => answer'[b] # "index_taken" \/ b \in overtaken
  BY <1>3 DEF IndexInv, HandlersTyped
<1> QED  BY <1>1, <1>2, <1>3, <1>4, <1>5, StepOf

LEMMA GoesOn ==
  ASSUME IndexInv, NEW a \in Request, NEW p \in Place \ {"out", "insert", "done"},
         pc[a] \notin {"out", "done"}, UNCHANGED <<ask, answer, late>>, pc' = [pc EXCEPT ![a] = p],
         ask[a].op \in Ops(p), RowsGood(a),
         \/ work' = work
         \/ \E s \in Settings \cup {NoRelayer} : work' = [work EXCEPT ![a].settings = s],
         holder \notin {a, Nobody} => holder' = holder,
         p \in {"allocate", "read_back", "start"} /\ ask[a].op \in Numbered => holder' = a
  PROVE  IndexInv'
<1>1. /\ work' \in [Request -> WorkType]
      /\ \A b \in Request : work'[b].index = work[b].index /\ work'[b].row = work[b].row
      /\ \A b \in Request \ {a} : work'[b] = work[b]
  <2>1. work \in [Request -> WorkType]
    BY DEF IndexInv, HandlersTyped, WorkType
  <2>2. ASSUME NEW s \in Settings \cup {NoRelayer}
        PROVE  [work[a] EXCEPT !.settings = s] \in WorkType
    BY <2>1 DEF WorkType
  <2>3. CASE work' = work
    BY <2>1, <2>3
  <2>4. ASSUME NEW s \in Settings \cup {NoRelayer}, work' = [work EXCEPT ![a].settings = s]
        PROVE  /\ work' \in [Request -> WorkType]
               /\ work'[a].index = work[a].index /\ work'[a].row = work[a].row
               /\ \A b \in Request \ {a} : work'[b] = work[b]
    BY <2>1, <2>2, <2>4 DEF WorkType
  <2> QED  BY <2>3, <2>4
<1>2. Bounded'
  BY <1>1, BoundKept
<1>3. /\ DOMAIN answer' = Request
      /\ \A b \in Request : answer'[b] # answer[b] => answer'[b] # "index_taken"
  BY DEF IndexInv, HandlersTyped
<1> QED  BY <1>1, <1>2, <1>3, StepOf

-----------------------------------------------------------------------------
(***************************************************************************)
(* The steps.                                                               *)
(***************************************************************************)
LEMMA ArriveStep ==
  ASSUME IndexInv, NEW a \in Request, NEW d \in Wanted, Arrive(a, d)
  PROVE  IndexInv'
<1>1. d \in Ask /\ pc[a] = "out"
  BY RelayersAssumption DEF Arrive, Goto
<1>2. d.op \in {"create", "import", "clone", "delete", "set"}
  BY <1>1 DEF Ask
<1>3. /\ FirstStep(d.op) \in {"lock", "source", "check", "delete", "exists"}
      /\ d.op \in Ops(FirstStep(d.op))
  BY <1>2 DEF FirstStep, Ops, Numbered
<1>4. /\ ask' \in [Request -> Ask \cup {Nobody}] /\ ask'[a] = d
      /\ \A b \in Request \ {a} : ask'[b] = ask[b]
      /\ pc' \in [Request -> Place] /\ pc'[a] = FirstStep(d.op)
      /\ \A b \in Request \ {a} : pc'[b] = pc[b]
  BY <1>1, <1>3 DEF Arrive, Goto, IndexInv, HandlersTyped, Place
<1>5. UNCHANGED <<row, work, answer, holder, late, overtaken>>
  BY DEF Arrive, tables
<1>6. HandlersTyped'
  BY <1>1, <1>3, <1>4, <1>5 DEF IndexInv, HandlersTyped
<1>7. RowsTyped' /\ Bounded' /\ IndexesNeverClash'
  BY <1>5 DEF IndexInv, RowsTyped, Bounded, BoundedBy, Present, IndexesNeverClash
<1>8. Mutex'
  BY <1>3, <1>4, <1>5 DEF IndexInv, Mutex, Allocating
<1>9. IndexFree'
  BY <1>3, <1>4, <1>5 DEF IndexInv, IndexFree, IndexTaken, NewRow, Live, Present
<1> QED  BY <1>6, <1>7, <1>8, <1>9 DEF IndexInv

\* What is known of a handler that is at work.
LEMMA AtWork ==
  ASSUME IndexInv, NEW a \in Request, pc[a] # "out"
  PROVE  /\ ask[a] \in Ask /\ ask[a].op \in Ops(pc[a])
         /\ Allocating(a) => holder = a
BY DEF IndexInv, HandlersTyped, Mutex

LEMMA CheckDuplicateStep == ASSUME IndexInv, NEW a \in Request, CheckDuplicate(a) PROVE IndexInv'
<1>1. pc[a] = "check" /\ row' = row /\ RowsGood(a) /\ late' = late
  BY SameGood DEF CheckDuplicate, tables, history
<1>2. CASE Leave(a, "conflict")
  BY <1>1, <1>2, Leaves
<1>3. CASE Goto(a, "check", "lock") /\ UNCHANGED <<ask, work, answer, holder>>
  <2>1. ask[a].op \in Ops("lock")
    BY <1>1, AtWork DEF Ops, Numbered
  <2> QED  BY <1>1, <1>3, <2>1, GoesOn DEF Goto, Place
<1> QED  BY <1>2, <1>3 DEF CheckDuplicate

LEMMA LockStep == ASSUME IndexInv, NEW a \in Request, Lock(a) PROVE IndexInv'
<1>1. /\ pc[a] = "lock" /\ pc' = [pc EXCEPT ![a] = "allocate"] /\ RowsGood(a)
      /\ holder = Nobody /\ holder' = a /\ UNCHANGED <<ask, answer, work, late>>
  BY SameGood DEF Lock, Goto, tables, history
<1>2. ask[a].op \in Ops("allocate")
  BY <1>1, AtWork DEF Ops
<1> QED  BY <1>1, <1>2, GoesOn DEF Place

\* The index that is found stays free until the insert, since the mutex is held.
LEMMA AllocateStep == ASSUME IndexInv, NEW a \in Request, Allocate(a) PROVE IndexInv'
<1>1. /\ pc[a] = "allocate" /\ pc' = [pc EXCEPT ![a] = "insert"] /\ RowsGood(a) /\ row' = row
      /\ work' = [work EXCEPT ![a].index = NextIndex(a)]
      /\ UNCHANGED <<ask, answer, holder, late>>
  BY SameGood DEF Allocate, Goto, tables, history
<1>2. ask[a] \in Ask /\ ask[a].op \in Numbered /\ holder = a
  BY <1>1, AtWork DEF Ops, Allocating
<1>3. /\ NextIndex(a) \in Int
      /\ \A i \in Id : Live(i) /\ row[i].chain = ask[a].chain /\ ~row[i].is_private_key
                         /\ row[i].index >= 0 => row[i].index < NextIndex(a)
  BY <1>2, NextIndexFree
<1>4. work \in [Request -> WorkType]
  BY DEF IndexInv, HandlersTyped, WorkType
<1>5. [work[a] EXCEPT !.index = NextIndex(a)] \in WorkType
  BY <1>3, <1>4 DEF WorkType
<1>6. /\ work' \in [Request -> WorkType]
      /\ work'[a].index = NextIndex(a) /\ work'[a].row = work[a].row
      /\ \A b \in Request \ {a} : work'[b] = work[b]
  BY <1>1, <1>4, <1>5 DEF WorkType
<1>7. Bounded'
  <2>1. PICK m \in Nat : BoundedBy(m)
    BY DEF IndexInv, Bounded
  <2>2. PICK top \in Nat : top >= m /\ top >= NextIndex(a)
    <3>1. CASE NextIndex(a) > m
      BY <1>3, <3>1
    <3>2. CASE ~(NextIndex(a) > m)
      BY <1>3, <3>2
    <3> QED  BY <3>1, <3>2
  <2>3. /\ \A i \in Id : Present(i) => row[i].index \in Int
        /\ \A b \in Request : /\ work[b].index \in Int
                              /\ work[b].row # NoRelayer => work[b].row.index \in Int
    BY <1>4 DEF IndexInv, RowsTyped, RowOrNone, Row, Present, WorkType
  <2>4. BoundedBy(top)'
    BY <1>1, <1>3, <1>6, <2>1, <2>2, <2>3 DEF BoundedBy, Present
  <2> QED  BY <2>2, <2>4 DEF Bounded
<1>8. (~IndexTaken(NewRow(a)))'
  <2>1. NewRow(a)'.index = NextIndex(a) /\ NewRow(a)'.chain = ask[a].chain
    BY <1>1, <1>2, <1>6 DEF NewRow, Numbered
  <2>2. \A i \in Id : Present(i) => row[i].index \in Int
    BY DEF IndexInv, RowsTyped, RowOrNone, Row, Present
  <2> QED  BY <1>1, <1>3, <2>1, <2>2 DEF IndexTaken, Live, Present
<1>9. ask[a].op \in Ops("insert") /\ ask[a].op # "clone"
  BY <1>2 DEF Ops, Numbered
<1>10. /\ DOMAIN answer' = Request
       /\ \A b \in Request : answer'[b] # answer[b] => answer'[b] # "index_taken"
  BY <1>1 DEF IndexInv, HandlersTyped
<1> QED
  BY <1>1, <1>2, <1>6, <1>7, <1>8, <1>9, <1>10, StepOf DEF Place

LEMMA ReadSourceStep == ASSUME IndexInv, NEW a \in Request, ReadSource(a) PROVE IndexInv'
<1>1. pc[a] = "source" /\ row' = row /\ RowsGood(a) /\ late' = late
  BY SameGood DEF ReadSource, tables, history
<1>2. ask[a] \in Ask /\ ask[a].op = "clone"
  BY <1>1, AtWork DEF Ops
<1>3. CASE Leave(a, "refused")
  BY <1>1, <1>3, Leaves
<1>4. CASE /\ Cloneable(ask[a].source) /\ Goto(a, "source", "insert")
           /\ work' = [work EXCEPT ![a].row = row[ask[a].source]]
           /\ UNCHANGED <<ask, answer, holder>>
  <2> DEFINE n == row[ask[a].source]
  <2>1. ask[a].source \in Id
    BY <1>2 DEF Ask
  <2>2. n \in Row /\ Present(ask[a].source)
    BY <1>4, <2>1 DEF Cloneable, Live, Present, IndexInv, RowsTyped, RowOrNone
  <2>3. work \in [Request -> WorkType]
    BY DEF IndexInv, HandlersTyped, WorkType
  <2>4. [work[a] EXCEPT !.row = n] \in WorkType
    BY <2>2, <2>3 DEF WorkType, RowOrNone
  <2>5. /\ work' \in [Request -> WorkType]
        /\ work'[a].index = work[a].index /\ work'[a].row = n
        /\ \A b \in Request \ {a} : work'[b] = work[b]
    BY <1>4, <2>3, <2>4 DEF WorkType
  <2>6. Bounded'
    <3>1. PICK m \in Nat : BoundedBy(m)
      BY DEF IndexInv, Bounded
    <3>2. n.index <= m
      BY <2>1, <2>2, <3>1 DEF BoundedBy
    <3> HIDE DEF n
    <3>3. BoundedBy(m)'
      BY <1>1, <2>5, <3>1, <3>2 DEF BoundedBy, Present
    <3> QED  BY <3>3 DEF Bounded
  <2>7. /\ DOMAIN answer' = Request
        /\ \A b \in Request : answer'[b] # answer[b] => answer'[b] # "index_taken"
    BY <1>4 DEF IndexInv, HandlersTyped
  <2>8. ask[a].op \in Ops("insert") /\ ask[a].op \notin Numbered
    BY <1>2 DEF Ops, Numbered
  <2> QED
    BY <1>1, <1>4, <2>2, <2>5, <2>6, <2>7, <2>8, StepOf DEF Goto, Place
<1> QED  BY <1>3, <1>4 DEF ReadSource

LEMMA InsertStep == ASSUME IndexInv, NEW a \in Request, Insert(a) PROVE IndexInv'
<1>1. pc[a] = "insert" /\ ask[a].op \in Ops("insert") /\ (ask[a].op \in Numbered => holder = a)
  BY AtWork DEF Insert, Allocating
<1>2. late' = late /\ overtaken' = overtaken
  BY DEF Insert
<1>3. CASE Leave(a, "index_taken") /\ row' = row /\ ~NewRow(a).cloned /\ IndexTaken(NewRow(a))
  <2>1. a \in overtaken
    BY <1>1, <1>3, NewRows DEF IndexInv, IndexFree, Ops, Numbered, Inserting
  <2> QED  BY <1>1, <1>2, <1>3, <2>1, SameGood, Leaves
<1>4. CASE Goto(a, "insert", "read_back") /\ row' = Inserted(a) /\ UNCHANGED <<ask, work, answer, holder>>
  <2>1. RowsGood(a)
    BY <1>1, <1>2, <1>4, InsertGood DEF Inserting, IndexInv, HandlersTyped
  <2>2. ask[a].op \in Ops("read_back")
    BY <1>1 DEF Ops
  <2> QED  BY <1>1, <1>2, <1>4, <2>1, <2>2, GoesOn DEF Goto, Place
<1> QED  BY <1>3, <1>4 DEF Insert

LEMMA ReadBackStep == ASSUME IndexInv, NEW a \in Request, ReadBack(a) PROVE IndexInv'
<1>1. /\ pc[a] = "read_back" /\ RowsGood(a) /\ late' = late
      /\ ask[a].op \in Ops("read_back") /\ (ask[a].op \in Numbered => holder = a)
  BY AtWork, SameGood DEF ReadBack, Allocating
<1>2. CASE Leave(a, "error")
  BY <1>1, <1>2, Leaves
<1>3. CASE /\ Live(a) /\ Goto(a, "read_back", "start")
           /\ work' = [work EXCEPT ![a].settings = row[a].settings]
           /\ UNCHANGED <<ask, answer, holder>>
  <2>1. row[a].settings \in Settings
    BY <1>3 DEF Id, Live, Present, IndexInv, RowsTyped, RowOrNone, Row
  <2>2. ask[a].op \in Ops("start")
    BY <1>1 DEF Ops
  <2> QED  BY <1>1, <1>3, <2>1, <2>2, GoesOn DEF Goto, Place
<1> QED  BY <1>2, <1>3 DEF ReadBack

LEMMA ChangeStep ==
  ASSUME IndexInv, NEW a \in Request,
         Exists(a) \/ Fill(a) \/ Update(a) \/ Forget(a) \/ ChangeQueue(a)
  PROVE  IndexInv'
<1>1. /\ pc[a] \in {"exists", "fill", "update", "delete", "invalidate", "queue"}
      /\ pc[a] \notin {"out", "done"} /\ UNCHANGED <<late, overtaken>>
  BY DEF Exists, Fill, Update, Forget, ChangeQueue, Goto, history
<1>2. ask[a] \in Ask /\ ask[a].op \in {"delete", "set"}
  BY <1>1, AtWork DEF Ops
<1>3. /\ ask[a].op \notin Numbered
      /\ \A p \in {"fill", "update", "invalidate", "queue"} : ask[a].op \in Ops(p)
      /\ ask[a].id \in Id
  BY <1>2 DEF Ops, Numbered, Ask
<1>4. CASE Exists(a)
  <2>1. RowsGood(a) /\ UNCHANGED <<ask, answer, holder>>
    BY <1>1, <1>4, SameGood DEF Exists, tables
  <2>2. CASE Goto(a, "exists", "update") /\ UNCHANGED work
    BY <1>1, <1>3, <2>1, <2>2, GoesOn DEF Goto, Place
  <2>3. CASE /\ Goto(a, "exists", "fill")
             /\ work' = [work EXCEPT ![a].settings =
                           IF Live(ask[a].id) THEN row[ask[a].id].settings ELSE NoRelayer]
    <3>1. (IF Live(ask[a].id) THEN row[ask[a].id].settings ELSE NoRelayer)
            \in Settings \cup {NoRelayer}
      BY <1>3 DEF Live, Present, IndexInv, RowsTyped, RowOrNone, Row
    <3> QED  BY <1>1, <1>3, <2>1, <2>3, <3>1, GoesOn DEF Goto, Place
  <2> QED  BY <1>4, <2>2, <2>3 DEF Exists
<1>5. CASE Fill(a)
  <2>1. RowsGood(a)
    BY <1>1, <1>5, SameGood DEF Fill
  <2>2. CASE Leave(a, "not_found")
    BY <1>1, <2>1, <2>2, Leaves
  <2>3. CASE Goto(a, "fill", "update") /\ UNCHANGED <<ask, work, answer, holder>>
    BY <1>1, <1>3, <2>1, <2>3, GoesOn DEF Goto, Place
  <2> QED  BY <1>5, <2>2, <2>3 DEF Fill
<1>6. CASE Update(a)
  <2>1. RowsGood(a)
    BY <1>1, <1>6, ChangedGood DEF Update, Changing
  <2> QED  BY <1>1, <1>3, <1>6, <2>1, GoesOn DEF Update, Goto, Place
<1>7. CASE Forget(a)
  <2>1. RowsGood(a)
    BY <1>1, <1>7, SameGood DEF Forget
  <2> QED  BY <1>1, <1>3, <1>7, <2>1, GoesOn DEF Forget, Goto, Place
<1>8. CASE ChangeQueue(a)
  <2>1. RowsGood(a)
    BY <1>1, <1>8, SameGood DEF ChangeQueue
  <2> QED  BY <1>1, <1>8, <2>1, Leaves DEF ChangeQueue
<1> QED  BY <1>4, <1>5, <1>6, <1>7, <1>8

\* A handler ends.  What it had sent stays under way.
LEMMA EndStep ==
  ASSUME IndexInv, NEW a \in Request,
         CannotSign(a) \/ StartQueue(a) \/ NoNonce(a) \/ HangUp(a)
  PROVE  IndexInv'
<1>1. CASE CannotSign(a) \/ StartQueue(a) \/ NoNonce(a)
  <2>1. pc[a] \notin {"out", "done"} /\ UNCHANGED <<row, late, overtaken>>
    BY <1>1 DEF CannotSign, StartQueue, NoNonce, tables, history
  <2> QED
    BY <1>1, <2>1, SameGood, Leaves DEF CannotSign, StartQueue, NoNonce
<1>2. CASE HangUp(a)
  <2>1. RowsGood(a) /\ pc[a] \notin {"out", "done"}
    BY <1>2, SameGood DEF HangUp, tables
  <2>2. late' = late \/ (Sent(a) /\ late' = late \cup {a})
    BY <1>2 DEF HangUp
  <2>3. Sent(a) => (ask[a].op = "clone" => work[a].row \in Row)
    BY DEF Sent, IndexInv, HandlersTyped, Ops
  <2> QED  BY <1>2, <2>1, <2>2, <2>3, Leaves DEF HangUp
<1> QED  BY <1>1, <1>2

\* What was under way takes effect.
LEMMA LandStep == ASSUME IndexInv, NEW a \in Request, Land(a) PROVE IndexInv'
<1>1. /\ a \in late /\ late' \subseteq late /\ UNCHANGED <<pc, ask, work, answer, holder>>
      /\ LandChange(a) \/ LandRow(a)
  BY DEF Land, requestVars
<1>2. RowsGood(a)
  <2>1. CASE LandChange(a)
    BY <1>1, <2>1, ChangedGood DEF LandChange, Changing
  <2>2. CASE LandRow(a) /\ row' = row /\ overtaken' = overtaken
    BY <2>2, SameGood
  <2>3. CASE LandRow(a) /\ ~(row' = row /\ overtaken' = overtaken)
    <3>1. /\ ask[a].op \in {"create", "clone", "import"} /\ row' = Inserted(a)
          /\ overtaken' = IF ask[a].op = "clone" THEN overtaken ELSE overtaken \cup Overtakes(a)
      BY <2>3 DEF LandRow
    <3> QED  BY <1>1, <3>1, InsertGood DEF Inserting, Numbered
  <2> QED  BY <1>1, <2>1, <2>2, <2>3
<1>3. HandlersTyped' /\ Mutex'
  BY <1>1 DEF IndexInv, HandlersTyped, Mutex, Allocating
<1>4. Bounded'
  BY <1>1, <1>2, BoundKept
<1>5. IndexFree'
  <2>1. ASSUME NEW b \in Request, pc[b] = "insert", ask[b].op \in Numbered, b \notin overtaken'
        PROVE  (~IndexTaken(NewRow(b)))'
    <3>1. NewRow(b) \in Row /\ NewRow(b)' = NewRow(b)
      BY <1>1, <2>1, NewRows DEF Inserting, NewRow
    <3>2. b # a
      BY <1>1, <2>1 DEF IndexInv, HandlersTyped
    <3>3. \A n \in Row : n = NewRow(b) => ~IndexTaken(n)'
      BY <1>2, <2>1, <3>2 DEF RowsGood
    <3> QED  BY <3>1, <3>3 DEF IndexTaken
  <2> QED  BY <1>1, <2>1 DEF IndexFree
<1>6. IndexesNeverClash'
  BY <1>1, <1>2 DEF IndexInv, IndexesNeverClash, RowsGood
<1> QED  BY <1>2, <1>3, <1>4, <1>5, <1>6 DEF IndexInv, RowsGood

LEMMA RestartStep == ASSUME IndexInv, Restart PROVE IndexInv'
<1>1. /\ pc' \in [Request -> {"out", "done"}]
      /\ \A a \in Request : pc'[a] # "out" <=> pc[a] # "out"
      /\ UNCHANGED <<row, ask, work, overtaken>>
      /\ \A a \in late' : a \in Request /\ (a \in late \/ Sent(a))
  BY DEF Restart, IndexInv, HandlersTyped
<1>2. DOMAIN answer' = Request /\ IndexesNeverClash'
  BY DEF Restart, IndexInv, IndexesNeverClash
<1>3. HandlersTyped'
  <2>1. \A a \in Request : pc[a] # "out" => ask[a].op \in Ops("done")
    BY DEF IndexInv, HandlersTyped, Ops, Ask
  <2>2. \A a \in late' : pc[a] # "out" /\ (ask[a].op = "clone" => work[a].row \in Row)
    BY <1>1 DEF IndexInv, HandlersTyped, Sent, Ops
  <2> QED  BY <1>1, <1>2, <2>1, <2>2 DEF IndexInv, HandlersTyped, Place
<1>4. RowsTyped' /\ Bounded' /\ Mutex' /\ IndexFree'
  BY <1>1 DEF IndexInv, RowsTyped, Bounded, BoundedBy, Present, Mutex, Allocating, IndexFree
<1> QED  BY <1>2, <1>3, <1>4 DEF IndexInv

LEMMA OtherStep ==
  ASSUME IndexInv, UNCHANGED <<row, requestVars, late, overtaken>>
  PROVE  IndexInv'
BY DEF IndexInv, requestVars, RowsTyped, HandlersTyped, Bounded, BoundedBy, Present, Mutex,
       Allocating, IndexFree, IndexTaken, NewRow, Live, IndexesNeverClash

LEMMA IndexStep == ASSUME IndexInv, [Next]_vars PROVE IndexInv'
<1>1. ASSUME NEW a \in Request, Step(a) PROVE IndexInv'
  BY <1>1, ArriveStep, CheckDuplicateStep, LockStep, AllocateStep, ReadSourceStep, InsertStep,
     ReadBackStep, ChangeStep, EndStep DEF Step
<1>2. CASE \/ \E r \in Reader : SetCached(r) \/ \E i \in Id : Read(r, i)
           \/ \E i \in Id : Expire(i)
           \/ UNCHANGED vars
  BY <1>2, OtherStep DEF SetCached, Read, Expire, vars, tables, history
<1> QED  BY <1>1, <1>2, LandStep, RestartStep DEF Next

\* relayer_creation_mutex, and the MAX + 1 read under it: however creations, imports, clones,
\* deletions, requests cut off and restarts interleave, the unique index refuses a relayer only
\* when a statement of a request that had ended inserted its index after it was read.
THEOREM IndexesStayFree == Spec => []IndexesNeverClash
<1>1. IndexInv /\ [Next]_vars => IndexInv'
  BY IndexStep
<1>2. IndexInv => IndexesNeverClash
  BY DEF IndexInv
<1> QED  BY IndexInit, <1>1, <1>2, PTL DEF Spec

-----------------------------------------------------------------------------
(***************************************************************************)
(* The cache and the queues behind the rows.  What a look-up carries or the  *)
(* cache holds is what the row shows, unless a change of the row is about to *)
(* invalidate it, was left half done or came in between; and while one       *)
(* request at most is at work on a relayer, its queue is one known change     *)
(* behind the row.                                                           *)
(***************************************************************************)
Shown(i) == IF Live(i) THEN row[i].settings ELSE NoRelayer

Excused(i) == i \in raced \cup abandoned \/ \E a \in Request : pc[a] = "invalidate" /\ ask[a].id = i

Current(i) ==
  /\ cache[i] \in {NoRelayer, Shown(i)}
  /\ \A r \in Reader : reading[r] # Nobody /\ reading[r].id = i => reading[r].settings = Shown(i)
  /\ \A a \in Request :
       pc[a] = "fill" /\ ask[a].id = i => work[a].settings \in {NoRelayer, Shown(i)}

\* The row of a request is not there before the request inserts it.
Unborn ==
  \A a \in Request :
    \/ pc[a] \in {"out", "check", "lock", "allocate", "source"}
    \/ Inserting(a)
    => row[a] = NoRelayer

\* Only a request that is over leaves its own relayer without a queue.
Unstarted == \A a \in Request : a \in unstarted => pc[a] = "done"

\* What the queue of a relayer will be once the request has changed it.
AfterChange(a, q) ==
  IF ask[a].op = "delete" \/ q = NoRelayer THEN NoRelayer
  ELSE QueueChanged(q, ask[a].setting, ask[a].value)

Expected(i) == IF i \in unstarted THEN NoRelayer ELSE QueueOfRow(i)

Due(a, i) ==
  /\ pc[a] \in {"exists", "fill", "update", "delete"} => queue[i] = Expected(i)
  /\ pc[a] \in {"invalidate", "queue"} => Expected(i) = AfterChange(a, queue[i])
  /\ pc[a] \in {"read_back", "start"} => queue[i] = NoRelayer
  /\ pc[a] = "start" => Live(i) /\ work[a].settings = row[i].settings

Followed(i) ==
  /\ \A a, b \in Request : On(a, i) /\ On(b, i) => a = b
  /\ \A a \in Request : On(a, i) => Due(a, i)
  /\ Quiet(i) => queue[i] = Expected(i)

CacheInv ==
  /\ reading \in [Reader -> {Nobody} \cup [id : Id, settings : Settings]]
  /\ cache \in [Id -> Settings \cup {NoRelayer}]
  /\ Unborn
  /\ \A i \in Id : Excused(i) \/ Current(i)

QueuesInv ==
  /\ DOMAIN queue = Id /\ Unstarted
  /\ \A i \in Id : i \in unsettled \/ Followed(i)

FrontsInv == IndexInv /\ CacheInv /\ QueuesInv

LEMMA FrontsInit == Init => CacheInv /\ QueuesInv
<1> SUFFICES ASSUME Init PROVE CacheInv /\ QueuesInv
  OBVIOUS
<1>1. CacheInv
  BY RelayersAssumption DEF Init, CacheInv, Unborn, Inserting, Current, Id
<1>2. QueuesInv
  BY DEF Init, QueuesInv, Unstarted, Followed, On, Due, Quiet, Expected, QueueOfRow, Live, Present
<1> QED  BY <1>1, <1>2

\* Which relayer a handler is at work on.
LEMMA OnRelayer ==
  ASSUME IndexInv, NEW a \in Request, NEW i \in Id
  PROVE  /\ pc[a] \in {"exists", "fill", "update", "delete", "invalidate", "queue"}
              => ask[a].id \in Id /\ ask[a].op \in {"delete", "set"} /\ (On(a, i) <=> i = ask[a].id)
         /\ pc[a] \in {"read_back", "start"} => (On(a, i) <=> i = a)
         /\ pc[a] \in {"out", "check", "lock", "allocate", "source", "insert", "done"} => ~On(a, i)
<1>1. pc[a] \in Place /\ (pc[a] # "out" => ask[a] \in Ask /\ ask[a].op \in Ops(pc[a]))
  BY DEF IndexInv, HandlersTyped
<1>2. ask[a] \in Ask /\ ask[a].op \in {"delete", "set"} => ask[a].id \in Id
  BY DEF Ask
<1> QED  BY <1>1, <1>2 DEF On, Ops, Numbered

\* What the change of a row does to the relayers.
LEMMA RowsInserted ==
  ASSUME IndexInv, NEW a \in Request, Inserting(a), row' = Inserted(a)
  PROVE  /\ row'[a] = NewRow(a) /\ Live(a)' /\ row'[a] # NoRelayer
         /\ \A i \in Id \ {a} : /\ (row'[i] = NoRelayer) <=> (row[i] = NoRelayer)
                                /\ Live(i)' <=> Live(i)
                                /\ Live(i) => row'[i].settings = row[i].settings
<1>1. NewRow(a) \in Row /\ NewRow(a).deleted = FALSE /\ a \in Id
  BY NewRows DEF NewRow, Id
<1>2. row'[a] = NewRow(a)
  BY <1>1 DEF Inserted
<1>3. ASSUME NEW i \in Id \ {a}
      PROVE  \/ row'[i] = row[i]
             \/ Present(i) /\ row'[i] = [row[i] EXCEPT !.address = NewRow(a).address]
  BY DEF Inserted
<1>4. ASSUME NEW i \in Id \ {a}, Present(i)
      PROVE  LET x == [row[i] EXCEPT !.address = NewRow(a).address]
             IN x # NoRelayer /\ x.deleted = row[i].deleted /\ x.settings = row[i].settings
  <2>1. row[i] \in Row
    BY <1>4 DEF IndexInv, RowsTyped, RowOrNone, Present
  <2>2. [row[i] EXCEPT !.address = NewRow(a).address] \in Row
    BY <1>1, <2>1 DEF Row
  <2> QED  BY <2>1, <2>2, RelayersAssumption DEF Row
<1> QED  BY <1>1, <1>2, <1>3, <1>4, RelayersAssumption DEF Live, Present

LEMMA RowsChanged ==
  ASSUME IndexInv, NEW a \in Request, Changing(a), row' = Changed(a),
         NEW i \in Id, i = ask[a].id
  PROVE  /\ \A j \in Id : (row'[j] = NoRelayer) <=> (row[j] = NoRelayer)
         /\ \A j \in Id \ {i} : row'[j] = row[j]
         /\ ask[a].op = "delete" => ~Live(i)'
         /\ ask[a].op = "set" =>
              /\ Live(i)' <=> Live(i)
              /\ Live(i) => /\ row[i].settings \in Settings
                            /\ row'[i].settings = [row[i].settings EXCEPT ![ask[a].setting] = ask[a].value]
              /\ ask[a].setting \in Setting /\ ask[a].value \in BOOLEAN
<1>1. ask[a] \in Ask /\ ask[a].op \in {"delete", "set"}
  BY DEF Changing, IndexInv, HandlersTyped, Ops
<1>2. ask[a].op = "set" => ask[a].setting \in Setting /\ ask[a].value \in BOOLEAN
  BY <1>1 DEF Ask
<1>3. CASE ~Present(i)
  <2>1. row' = row /\ ~Live(i) /\ ~Live(i)'
    BY <1>3 DEF Changed, Live, Present
  <2> QED  BY <1>1, <1>2, <2>1
<1>4. CASE Present(i)
  <2>1. row[i] \in Row /\ row \in [Id -> RowOrNone]
    BY <1>1, <1>4 DEF IndexInv, RowsTyped, RowOrNone, Present
  <2>2. CASE ask[a].op = "delete"
    <3>1. row' = [row EXCEPT ![i].deleted = TRUE]
      BY <1>4, <2>2 DEF Changed
    <3>2. [row[i] EXCEPT !.deleted = TRUE] \in Row
      BY <2>1 DEF Row
    <3>3. row'[i] = [row[i] EXCEPT !.deleted = TRUE] /\ \A j \in Id \ {i} : row'[j] = row[j]
      BY <1>1, <2>1, <3>1
    <3>4. row'[i].deleted = TRUE /\ row'[i] # NoRelayer
      BY <2>1, <3>2, <3>3, RelayersAssumption DEF Row
    <3>5. ~Live(i)'
      BY <3>4 DEF Live
    <3>6. \A j \in Id : (row'[j] = NoRelayer) <=> (row[j] = NoRelayer)
      BY <1>4, <3>3, <3>4 DEF Present
    <3> QED  BY <2>2, <3>3, <3>5, <3>6
  <2>3. CASE ask[a].op = "set"
    <3> DEFINE s == [row[i].settings EXCEPT ![ask[a].setting] = ask[a].value]
    <3>1. row' = [row EXCEPT ![i].settings[ask[a].setting] = ask[a].value]
      BY <1>4, <2>3 DEF Changed
    <3>2. s \in Settings /\ row[i].settings \in Settings
      BY <1>2, <2>1, <2>3 DEF Row, Settings
    <3>3. row'[i] = [row[i] EXCEPT !.settings = s] /\ \A j \in Id \ {i} : row'[j] = row[j]
      BY <1>1, <2>1, <3>1
    <3> HIDE DEF s
    <3>4. [row[i] EXCEPT !.settings = s] \in Row
      BY <2>1, <3>2 DEF Row
    <3>5. row'[i].settings = s /\ row'[i].deleted = row[i].deleted /\ row'[i] # NoRelayer
      BY <2>1, <3>3, <3>4, RelayersAssumption DEF Row
    <3>6. Live(i)' <=> Live(i)
      BY <1>4, <3>5 DEF Live, Present
    <3>7. \A j \in Id : (row'[j] = NoRelayer) <=> (row[j] = NoRelayer)
      BY <1>4, <3>3, <3>5 DEF Present
    <3> QED  BY <1>2, <2>3, <3>2, <3>3, <3>5, <3>6, <3>7 DEF s
  <2> QED  BY <1>1, <2>2, <2>3
<1> QED  BY <1>3, <1>4

-----------------------------------------------------------------------------
(***************************************************************************)
(* What the cache shows.                                                    *)
(***************************************************************************)
\* A step that neither changes what a relayer shows nor brings a carrier of its settings.
LEMMA StaysCurrent ==
  ASSUME NEW i \in Id, Excused(i) \/ Current(i), Excused(i) => Excused(i)',
         Shown(i)' = Shown(i), cache'[i] \in {cache[i], NoRelayer}, reading' = reading,
         \A b \in Request : pc'[b] = "fill" => UNCHANGED <<pc[b], ask[b], work[b]>>
  PROVE  Excused(i)' \/ Current(i)'
BY DEF Current

\* A cached relayer is dropped: it is excused if somebody carries its old settings.
LEMMA DroppedCurrent ==
  ASSUME NEW i \in Id, NEW j \in Id, Invalidate(j), CacheInv, Excused(i) \/ Current(i),
         i # j /\ Excused(i) => Excused(i)',
         UNCHANGED <<row, reading>>,
         \A b \in Request : pc'[b] = "fill" => UNCHANGED <<pc[b], ask[b], work[b]>>
  PROVE  Excused(i)' \/ Current(i)'
<1>1. Shown(i)' = Shown(i)
  BY DEF Shown, Live, Present
<1>2. cache'[i] \in {cache[i], NoRelayer}
  BY DEF Invalidate, CacheInv
<1>3. CASE i # j
  BY <1>1, <1>2, <1>3, StaysCurrent
<1>4. CASE i = j /\ Carried(i)
  BY <1>4 DEF Invalidate, Excused
<1>5. CASE i = j /\ ~Carried(i)
  BY <1>5 DEF Invalidate, Carried, Current, CacheInv
<1> QED  BY <1>3, <1>4, <1>5

LEMMA FirstSteps ==
  ASSUME NEW d \in Wanted
  PROVE  /\ d \in Ask /\ d.op \in {"create", "import", "clone", "delete", "set"}
         /\ FirstStep(d.op) \in {"lock", "source", "check", "delete", "exists"}
         /\ d.op \in {"delete", "set"} <=> FirstStep(d.op) \in {"delete", "exists"}
<1>1. d \in Ask /\ d.op \in {"create", "import", "clone", "delete", "set"}
  BY RelayersAssumption DEF Ask
<1> QED  BY <1>1 DEF FirstStep

\* The actor's own program counter is the only one that moves.
LEMMA OthersWait ==
  ASSUME IndexInv, NEW a \in Request, Step(a)
  PROVE  /\ \A b \in Request \ {a} : UNCHANGED <<pc[b], ask[b], work[b]>>
         /\ pc[a] # "done" /\ reading' = reading
<1>1. DOMAIN pc = Request /\ DOMAIN ask = Request /\ DOMAIN work = Request
  BY DEF IndexInv, HandlersTyped
<1>2. CASE \E d \in Wanted : Arrive(a, d)
  BY <1>1, <1>2 DEF Arrive, Goto
<1>3. CASE CheckDuplicate(a) \/ Lock(a) \/ Allocate(a) \/ CannotSign(a) \/ ReadSource(a)
  BY <1>1, <1>3 DEF CheckDuplicate, Lock, Allocate, CannotSign, ReadSource, Goto, Leave
<1>4. CASE Insert(a) \/ ReadBack(a) \/ StartQueue(a) \/ NoNonce(a)
  BY <1>1, <1>4 DEF Insert, ReadBack, StartQueue, NoNonce, Goto, Leave
<1>5. CASE Exists(a) \/ Fill(a) \/ Update(a) \/ Forget(a) \/ ChangeQueue(a) \/ HangUp(a)
  BY <1>1, <1>5 DEF Exists, Fill, Update, Forget, ChangeQueue, HangUp, Goto, Leave
<1> QED  BY <1>2, <1>3, <1>4, <1>5 DEF Step

\* What a step of a handler does to the rows.
LEMMA RowSteps ==
  ASSUME IndexInv, NEW a \in Request, Step(a)
  PROVE  \/ row' = row
         \/ pc[a] = "insert" /\ row' = Inserted(a) /\ pc'[a] = "read_back"
         \/ pc[a] \in {"update", "delete"} /\ row' = Changed(a) /\ pc'[a] = "invalidate"
<1>1. DOMAIN pc = Request
  BY DEF IndexInv, HandlersTyped
<1>2. CASE \/ \E d \in Wanted : Arrive(a, d)
           \/ CheckDuplicate(a) \/ Lock(a) \/ Allocate(a) \/ CannotSign(a) \/ ReadSource(a)
           \/ ReadBack(a) \/ StartQueue(a) \/ NoNonce(a) \/ Exists(a) \/ Fill(a) \/ Forget(a)
           \/ ChangeQueue(a)
  BY <1>2 DEF Arrive, CheckDuplicate, Lock, Allocate, CannotSign, ReadSource, ReadBack, StartQueue,
              NoNonce, Exists, Fill, Forget, ChangeQueue, tables
<1>3. CASE Insert(a) \/ Update(a) \/ HangUp(a)
  BY <1>1, <1>3 DEF Insert, Update, HangUp, Goto, Leave, tables
<1> QED  BY <1>2, <1>3 DEF Step

\* A row is there once its request has inserted it, and not before.
LEMMA UnbornKept ==
  ASSUME IndexInv, NEW a \in Request,
         \/ row' = row
         \/ Inserting(a) /\ row' = Inserted(a)
         \/ Changing(a) /\ row' = Changed(a)
  PROVE  \A b \in Request \ {a} : row[b] = NoRelayer => row'[b] = NoRelayer
<1>1. CASE Inserting(a) /\ row' = Inserted(a)
  BY <1>1, RowsInserted DEF Id
<1>2. CASE Changing(a) /\ row' = Changed(a)
  <2>1. ask[a].id \in Id
    BY <1>2 DEF Changing, IndexInv, HandlersTyped, Ops, Ask
  <2> QED  BY <1>2, <2>1, RowsChanged DEF Id
<1> QED  BY <1>1, <1>2

LEMMA UnbornStep ==
  ASSUME IndexInv, Unborn, NEW a \in Request, Step(a)
  PROVE  Unborn'
<1> DEFINE Early == {"out", "check", "lock", "allocate", "source", "insert"}
<1>1. \A b \in Request \ {a} : UNCHANGED <<pc[b], ask[b]>>
  BY OthersWait
<1>2. late' \in {late, late \cup {a}} /\ (late' # late => pc[a] = "insert" \/ pc[a] \in {"update", "delete"})
  BY DEF Step, Arrive, CheckDuplicate, Lock, Allocate, CannotSign, ReadSource, Insert, ReadBack,
         StartQueue, NoNonce, Exists, Fill, Update, Forget, ChangeQueue, HangUp, Sent
<1>3. /\ pc[a] \in Place /\ pc[a] # "done" /\ DOMAIN pc = Request
      /\ pc[a] # "out" => ask[a].op \in Ops(pc[a])
      /\ a \notin late
  BY OthersWait DEF IndexInv, HandlersTyped
<1>4. (pc'[a] \in Early => pc[a] \in Early /\ row' = row)
  <2>2. CASE \/ \E d \in Wanted : Arrive(a, d)
             \/ CheckDuplicate(a) \/ Lock(a) \/ Allocate(a) \/ CannotSign(a) \/ ReadSource(a)
    BY <1>3, <2>2 DEF Arrive, CheckDuplicate, Lock, Allocate, CannotSign, ReadSource, tables, Goto,
                      Leave
  <2>3. CASE Insert(a) \/ ReadBack(a) \/ StartQueue(a) \/ NoNonce(a)
    BY <1>3, <2>3 DEF Insert, ReadBack, StartQueue, NoNonce, Goto, Leave
  <2>4. CASE Exists(a) \/ Fill(a) \/ Update(a) \/ Forget(a) \/ ChangeQueue(a) \/ HangUp(a)
    BY <1>3, <2>4 DEF Exists, Fill, Update, Forget, ChangeQueue, HangUp, Goto, Leave
  <2> QED  BY <2>2, <2>3, <2>4 DEF Step
<1>5. a \in late' => HangUp(a) /\ ask' = ask /\ row' = row
  <2>1. CASE \/ \E d \in Wanted : Arrive(a, d)
             \/ CheckDuplicate(a) \/ Lock(a) \/ Allocate(a) \/ CannotSign(a) \/ ReadSource(a)
             \/ Insert(a) \/ ReadBack(a) \/ StartQueue(a) \/ NoNonce(a)
             \/ Exists(a) \/ Fill(a) \/ Update(a) \/ Forget(a) \/ ChangeQueue(a)
    BY <1>3, <2>1 DEF Arrive, CheckDuplicate, Lock, Allocate, CannotSign, ReadSource, Insert,
                      ReadBack, StartQueue, NoNonce, Exists, Fill, Update, Forget, ChangeQueue
  <2>2. CASE HangUp(a)
    BY <2>2 DEF HangUp, Leave, tables
  <2> QED  BY <2>1, <2>2 DEF Step
<1>6. (a \in late' /\ ask'[a].op \in {"create", "import", "clone"}) => pc[a] = "insert" /\ row' = row
  <2>1. ASSUME a \in late', ask'[a].op \in {"create", "import", "clone"}
        PROVE  pc[a] = "insert" /\ row' = row
    <3>1. pc[a] \in {"insert", "update", "delete"} /\ ask' = ask /\ row' = row
      BY <1>2, <1>3, <1>5, <2>1
    <3> QED  BY <1>3, <2>1, <3>1 DEF Ops
  <2> QED  BY <2>1
<1>7. \A b \in Request \ {a} : row[b] = NoRelayer => row'[b] = NoRelayer
  BY RowSteps, UnbornKept DEF Inserting, Changing
<1>8. \A b \in Request \ {a} : b \in late' => b \in late
  BY <1>2
<1>9. ASSUME NEW b \in Request \ {a},
             pc'[b] \in {"out", "check", "lock", "allocate", "source"} \/ Inserting(b)'
      PROVE  row'[b] = NoRelayer
  BY <1>1, <1>7, <1>8, <1>9 DEF Unborn, Inserting
<1>10. ASSUME pc'[a] \in {"out", "check", "lock", "allocate", "source"} \/ Inserting(a)'
       PROVE  row'[a] = NoRelayer
  <2>1. row' = row /\ pc[a] \in Early
    BY <1>4, <1>6, <1>10 DEF Inserting
  <2> QED  BY <2>1 DEF Unborn, Inserting
<1> QED  BY <1>9, <1>10 DEF Unborn

LEMMA CacheStep ==
  ASSUME IndexInv, CacheInv, NEW a \in Request, Step(a)
  PROVE  CacheInv'
<1>1. /\ \A b \in Request \ {a} : UNCHANGED <<pc[b], ask[b], work[b]>>
      /\ reading' = reading /\ pc \in [Request -> Place]
      /\ work \in [Request -> WorkType]
      /\ cache \in [Id -> Settings \cup {NoRelayer}] /\ Unborn /\ a \in Id
  BY OthersWait DEF CacheInv, IndexInv, HandlersTyped, WorkType, Id
<1>2. Unborn'
  BY <1>1, UnbornStep
<1>3. CASE \/ \E d \in Wanted : Arrive(a, d)
           \/ CheckDuplicate(a) \/ Lock(a) \/ Allocate(a) \/ CannotSign(a) \/ ReadSource(a)
           \/ NoNonce(a) \/ Exists(a) \/ ChangeQueue(a)
  <2>1. UNCHANGED <<row, cache, raced, abandoned>> /\ pc[a] \notin {"invalidate", "fill"}
    BY <1>3 DEF Arrive, CheckDuplicate, Lock, Allocate, CannotSign, ReadSource, NoNonce, Exists,
                ChangeQueue, tables, history, Goto
  <2>2. ASSUME NEW i \in Id
        PROVE  Excused(i)' \/ Current(i)'
    <3>1. Shown(i)' = Shown(i) /\ (Excused(i) => Excused(i)')
      BY <1>1, <2>1 DEF Shown, Live, Present, Excused
    <3>2. CASE pc'[a] # "fill"
      BY <1>1, <2>1, <3>1, <3>2, StaysCurrent DEF CacheInv
    <3>3. CASE pc'[a] = "fill"
      <4>1. /\ Exists(a) /\ ask' = ask
            /\ work'[a].settings = Shown(ask[a].id)
        <5>1. Exists(a)
          BY <1>1, <1>3, <3>3, FirstSteps
             DEF Arrive, CheckDuplicate, Lock, Allocate, CannotSign, ReadSource, NoNonce,
                 ChangeQueue, Goto, Leave
        <5>2. work' = [work EXCEPT ![a].settings = Shown(ask[a].id)] /\ ask' = ask
          BY <1>1, <3>3, <5>1 DEF Exists, Goto, Shown
        <5> QED  BY <1>1, <5>1, <5>2 DEF WorkType
      <4> QED  BY <1>1, <2>1, <3>1, <4>1 DEF CacheInv, Current
    <3> QED  BY <3>2, <3>3
  <2> QED  BY <1>1, <1>2, <2>1, <2>2 DEF CacheInv
<1>4. CASE Insert(a)
  <2>1. UNCHANGED <<cache, raced, abandoned>> /\ pc[a] = "insert" /\ pc'[a] \in {"read_back", "done"}
        /\ (row' = row \/ row' = Inserted(a))
    BY <1>1, <1>4 DEF Insert, Goto, Leave
  <2>2. ASSUME NEW i \in Id
        PROVE  Excused(i)' \/ Current(i)'
    <3>1. Excused(i) => Excused(i)'
      BY <1>1, <2>1 DEF Excused
    <3>2. CASE row' = row \/ i # a
      <4>1. Shown(i)' = Shown(i)
        BY <2>1, <3>2, RowsInserted DEF Inserting, Shown, Live, Present
      <4> QED  BY <1>1, <2>1, <3>1, <4>1, StaysCurrent DEF CacheInv
    <3>3. CASE i = a
      <4>1. Shown(a) = NoRelayer
        BY <1>1, <2>1 DEF Unborn, Inserting, Shown, Live, Present
      <4>2. Current(a) => /\ cache[a] = NoRelayer
                          /\ \A r \in Reader : reading[r] # Nobody => reading[r].id # a
                          /\ \A b \in Request : pc[b] = "fill" /\ ask[b].id = a
                               => work[b].settings = NoRelayer
        BY <4>1, RelayersAssumption DEF Current, CacheInv
      <4>3. Current(a) => Current(a)'
        BY <1>1, <2>1, <4>2 DEF Current
      <4> QED  BY <3>1, <3>3, <4>3 DEF CacheInv
    <3> QED  BY <3>2, <3>3
  <2> QED  BY <1>1, <1>2, <2>1, <2>2 DEF CacheInv
<1>5. CASE ReadBack(a) \/ StartQueue(a)
  <2>1. /\ row' = row /\ pc[a] \in {"read_back", "start"} /\ pc'[a] \in {"start", "done"}
        /\ Invalidate(a) \/ UNCHANGED <<cache, raced, abandoned>>
    BY <1>1, <1>5 DEF ReadBack, StartQueue, Goto, Leave
  <2>2. ASSUME NEW i \in Id
        PROVE  Excused(i)' \/ Current(i)'
    <3>1. CASE UNCHANGED <<cache, raced, abandoned>>
      <4>1. Excused(i) => Excused(i)' 
        BY <1>1, <2>1, <3>1 DEF Excused
      <4>2. Shown(i)' = Shown(i)
        BY <2>1 DEF Shown, Live, Present
      <4> QED  BY <1>1, <2>1, <3>1, <4>1, <4>2, StaysCurrent DEF CacheInv
    <3>2. CASE Invalidate(a)
      <4>1. i # a /\ Excused(i) => Excused(i)'
        BY <1>1, <2>1, <3>2 DEF Excused, Invalidate
      <4> QED  BY <1>1, <2>1, <3>2, <4>1, DroppedCurrent DEF CacheInv
    <3> QED  BY <2>1, <3>1, <3>2
  <2>3. cache' \in [Id -> Settings \cup {NoRelayer}]
    BY <1>1, <2>1 DEF Invalidate
  <2> QED  BY <1>1, <1>2, <2>2, <2>3 DEF CacheInv
<1>6. CASE Fill(a)
  <2>1. /\ UNCHANGED <<row, raced, abandoned, work, ask>> /\ pc[a] = "fill" /\ pc'[a] \in {"update", "done"}
        /\ cache' = [cache EXCEPT ![ask[a].id] = work[a].settings]
        /\ ask[a].id \in Id
    BY <1>1, <1>6, OnRelayer DEF Fill, Goto, Leave, history
  <2>2. cache' \in [Id -> Settings \cup {NoRelayer}]
    BY <1>1, <2>1 DEF WorkType
  <2>3. ASSUME NEW i \in Id
        PROVE  Excused(i)' \/ Current(i)'
    <3>1. Shown(i)' = Shown(i) /\ (Excused(i) => Excused(i)')
      BY <1>1, <2>1 DEF Shown, Live, Present, Excused
    <3>2. Current(i) => cache'[i] \in {NoRelayer, Shown(i)}
      BY <1>1, <2>1 DEF Current
    <3>3. Current(i) => Current(i)'
      BY <1>1, <2>1, <3>1, <3>2 DEF Current
    <3> QED  BY <3>1, <3>3 DEF CacheInv
  <2> QED  BY <1>1, <1>2, <2>2, <2>3 DEF CacheInv
<1>7. CASE Update(a)
  <2>1. /\ UNCHANGED <<cache, raced, abandoned, ask>> /\ pc[a] \in {"update", "delete"}
        /\ pc'[a] = "invalidate" /\ row' = Changed(a) /\ ask[a].id \in Id
    <3>1. /\ UNCHANGED <<cache, raced, abandoned, ask>> /\ pc[a] \in {"update", "delete"}
          /\ pc'[a] = "invalidate" /\ row' = Changed(a)
      BY <1>1, <1>7 DEF Update, Goto, history
    <3> QED  BY <1>1, <3>1, OnRelayer
  <2>2. ASSUME NEW i \in Id
        PROVE  Excused(i)' \/ Current(i)'
    <3>1. CASE i = ask[a].id
      BY <2>1, <3>1 DEF Excused
    <3>2. CASE i # ask[a].id
      <4>1. Excused(i) => Excused(i)'
        BY <1>1, <2>1 DEF Excused
      <4>2. Shown(i)' = Shown(i)
        BY <2>1, <3>2, RowsChanged DEF Shown, Live, Present, Changing
      <4> QED  BY <1>1, <2>1, <4>1, <4>2, StaysCurrent DEF CacheInv
    <3> QED  BY <3>1, <3>2
  <2> QED  BY <1>1, <1>2, <2>1, <2>2 DEF CacheInv
<1>8. CASE Forget(a)
  <2>1. /\ UNCHANGED <<row, ask>> /\ pc[a] = "invalidate" /\ pc'[a] = "queue"
        /\ Invalidate(ask[a].id) /\ ask[a].id \in Id
    BY <1>1, <1>8, OnRelayer DEF Forget, DropCached, Goto
  <2>2. ASSUME NEW i \in Id
        PROVE  Excused(i)' \/ Current(i)'
    <3>1. i # ask[a].id /\ Excused(i) => Excused(i)'
      BY <1>1, <2>1 DEF Excused, Invalidate
    <3> QED  BY <1>1, <2>1, <3>1, DroppedCurrent DEF CacheInv
  <2>3. cache' \in [Id -> Settings \cup {NoRelayer}]
    BY <1>1, <2>1 DEF Invalidate
  <2> QED  BY <1>1, <1>2, <2>2, <2>3 DEF CacheInv
<1>9. CASE HangUp(a)
  <2>1. /\ UNCHANGED <<row, cache, ask, work>> /\ pc'[a] = "done"
        /\ raced \cup abandoned \subseteq raced' \cup abandoned'
        /\ pc[a] = "invalidate" => ask[a].id \in abandoned'
    BY <1>1, <1>9 DEF HangUp, Leave, tables
  <2>2. ASSUME NEW i \in Id
        PROVE  Excused(i)' \/ Current(i)'
    <3>1. Excused(i) => Excused(i)'
      BY <1>1, <2>1 DEF Excused
    <3>2. Shown(i)' = Shown(i)
      BY <2>1 DEF Shown, Live, Present
    <3> QED  BY <1>1, <2>1, <3>1, <3>2, StaysCurrent DEF CacheInv
  <2> QED  BY <1>1, <1>2, <2>1, <2>2 DEF CacheInv
<1> QED
  BY <1>3, <1>4, <1>5, <1>6, <1>7, <1>8, <1>9 DEF Step

\* A late UPDATE leaves the cache behind; a late INSERT brings a relayer nobody has looked up.
LEMMA CacheLand ==
  ASSUME IndexInv, CacheInv, NEW a \in Request, Land(a)
  PROVE  CacheInv'
<1>1. /\ a \in late /\ late' = late \ {a} /\ a \in Id
      /\ UNCHANGED <<cache, queue, pc, ask, work, reading, raced>>
      /\ LandChange(a) \/ LandRow(a)
  BY DEF Land, requestVars, Id
<1>2. /\ cache \in [Id -> Settings \cup {NoRelayer}] /\ Unborn
      /\ pc[a] = "done" /\ ask[a] \in Ask
  BY <1>1 DEF CacheInv, IndexInv, HandlersTyped
<1>3. /\ abandoned \subseteq abandoned'
      /\ \/ row' = row
         \/ Inserting(a) /\ row' = Inserted(a)
         \/ Changing(a) /\ row' = Changed(a) /\ ask[a].id \in Id /\ ask[a].id \in abandoned'
  BY <1>1, <1>2 DEF LandChange, LandRow, Inserting, Changing, Ask
<1>4. Unborn'
  <2>1. \A b \in Request : Inserting(b)' => b # a /\ Inserting(b)
    BY <1>1, <1>2 DEF Inserting
  <2>2. \A b \in Request \ {a} : row[b] = NoRelayer => row'[b] = NoRelayer
    BY <1>3, UnbornKept
  <2> QED  BY <1>1, <1>2, <2>1, <2>2 DEF Unborn
<1>5. ASSUME NEW i \in Id
      PROVE  Excused(i)' \/ Current(i)'
  <2>1. Excused(i) => Excused(i)'
    BY <1>1, <1>3 DEF Excused
  <2>2. CASE Shown(i)' = Shown(i)
    BY <1>1, <2>1, <2>2, StaysCurrent DEF CacheInv
  <2>3. CASE Inserting(a) /\ row' = Inserted(a)
    <3>1. CASE i # a
      BY <2>2, <2>3, <3>1, RowsInserted DEF Shown, Live, Present
    <3>2. CASE i = a
      <4>1. Shown(a) = NoRelayer
        BY <1>2, <2>3 DEF Unborn, Shown, Live, Present
      <4>2. Current(a) => /\ cache[a] = NoRelayer
                          /\ \A r \in Reader : reading[r] # Nobody => reading[r].id # a
                          /\ \A b \in Request : pc[b] = "fill" /\ ask[b].id = a
                               => work[b].settings = NoRelayer
        BY <4>1, RelayersAssumption DEF Current, CacheInv
      <4>3. Current(a) => Current(a)'
        BY <1>1, <4>2 DEF Current
      <4> QED  BY <2>1, <3>2, <4>3 DEF CacheInv
    <3> QED  BY <3>1, <3>2
  <2>4. CASE Changing(a) /\ row' = Changed(a) /\ ask[a].id \in Id /\ ask[a].id \in abandoned'
    <3>1. CASE i = ask[a].id
      BY <2>4, <3>1 DEF Excused
    <3>2. CASE i # ask[a].id
      BY <2>2, <2>4, <3>2, RowsChanged DEF Shown, Live, Present
    <3> QED  BY <3>1, <3>2
  <2>5. CASE row' = row
    BY <2>2, <2>5 DEF Shown, Live, Present
  <2> QED  BY <1>3, <2>3, <2>4, <2>5
<1> QED  BY <1>1, <1>2, <1>4, <1>5 DEF CacheInv

LEMMA CacheOther ==
  ASSUME IndexInv, CacheInv,
         \/ \E r \in Reader : SetCached(r) \/ \E i \in Id : Read(r, i)
         \/ \E i \in Id : Expire(i)
         \/ Restart \/ UNCHANGED vars
  PROVE  CacheInv'
<1>1. CASE Restart
  <2>1. /\ cache' = [i \in Id |-> NoRelayer] /\ reading' = [r \in Reader |-> Nobody]
        /\ \A a \in Request : pc'[a] \in {"out", "done"} /\ (pc'[a] = "out" => pc[a] = "out")
        /\ \A a \in Request : a \in late' => a \in late \/ Sent(a)
        /\ UNCHANGED <<row, ask>>
    BY <1>1 DEF Restart
  <2>2. \A a \in Request : Inserting(a)' => Inserting(a)
    BY <2>1 DEF Inserting, Sent, IndexInv, HandlersTyped, Ops
  <2>3. Unborn'
    BY <2>1, <2>2 DEF CacheInv, Unborn
  <2> QED  BY <2>1, <2>3 DEF CacheInv, Current
<1>2. CASE UNCHANGED vars
  BY <1>2 DEF vars, tables, requestVars, history, CacheInv, Unborn, Inserting, Excused, Current,
              Shown, Live, Present
<1>3. ASSUME NEW r \in Reader, NEW i \in Id, Read(r, i)
      PROVE  CacheInv'
  <2>1. /\ UNCHANGED <<row, cache, pc, ask, work, late, raced, abandoned>>
        /\ reading' = [reading EXCEPT ![r] = [id |-> i, settings |-> row[i].settings]] /\ Live(i)
    BY <1>3 DEF Read, tables, requestVars, history
  <2>2. row[i].settings \in Settings
    BY <2>1 DEF Live, Present, IndexInv, RowsTyped, RowOrNone, Row
  <2>3. reading' \in [Reader -> {Nobody} \cup [id : Id, settings : Settings]]
    BY <2>1, <2>2 DEF CacheInv
  <2>4. ASSUME NEW j \in Id
        PROVE  Excused(j)' \/ Current(j)'
    <3>1. (Excused(j)' <=> Excused(j)) /\ Shown(j)' = Shown(j)
      BY <2>1 DEF Excused, Shown, Live, Present
    <3>2. reading'[r] = [id |-> i, settings |-> Shown(i)] /\ \A q \in Reader \ {r} : reading'[q] = reading[q]
      BY <2>1 DEF CacheInv, Shown
    <3>3. Current(j) => Current(j)'
      BY <2>1, <3>1, <3>2 DEF Current
    <3> QED  BY <3>1, <3>3 DEF CacheInv
  <2> QED  BY <2>1, <2>3, <2>4 DEF CacheInv, Unborn, Inserting
<1>4. ASSUME NEW r \in Reader, SetCached(r)
      PROVE  CacheInv'
  <2>1. /\ UNCHANGED <<row, pc, ask, work, late, raced, abandoned>>
        /\ reading[r] # Nobody
        /\ cache' = [cache EXCEPT ![reading[r].id] = reading[r].settings]
        /\ reading' = [reading EXCEPT ![r] = Nobody]
    BY <1>4 DEF SetCached, requestVars, history
  <2>2. reading[r] \in [id : Id, settings : Settings]
    BY <2>1 DEF CacheInv
  <2>3. /\ reading' \in [Reader -> {Nobody} \cup [id : Id, settings : Settings]]
        /\ cache' \in [Id -> Settings \cup {NoRelayer}]
    BY <2>1, <2>2 DEF CacheInv
  <2>4. ASSUME NEW j \in Id
        PROVE  Excused(j)' \/ Current(j)'
    <3>1. (Excused(j)' <=> Excused(j)) /\ Shown(j)' = Shown(j)
      BY <2>1 DEF Excused, Shown, Live, Present
    <3>2. cache'[j] = IF j = reading[r].id THEN reading[r].settings ELSE cache[j]
      BY <2>1, <2>2 DEF CacheInv
    <3>3. Current(j) => Current(j)'
      BY <2>1, <3>1, <3>2 DEF Current, CacheInv
    <3> QED  BY <3>1, <3>3 DEF CacheInv
  <2> QED  BY <2>1, <2>3, <2>4 DEF CacheInv, Unborn, Inserting
<1>5. ASSUME NEW i \in Id, Expire(i)
      PROVE  CacheInv'
  <2>1. /\ UNCHANGED <<row, reading, pc, ask, work, late>>
        /\ cache' = [cache EXCEPT ![i] = NoRelayer]
        /\ IF Carried(i) THEN UNCHANGED <<raced, abandoned>>
           ELSE raced' = raced \ {i} /\ abandoned' = abandoned \ {i}
    BY <1>5 DEF Expire, requestVars
  <2>2. ASSUME NEW j \in Id
        PROVE  Excused(j)' \/ Current(j)'
    <3>1. Shown(j)' = Shown(j) /\ (j # i \/ Carried(i) => (Excused(j) => Excused(j)'))
      BY <2>1 DEF Excused, Shown, Live, Present
    <3>2. Current(j) => Current(j)'
      BY <2>1, <3>1 DEF Current, CacheInv
    <3>3. j = i /\ ~Carried(i) => Current(j)'
      BY <2>1, <3>1 DEF Carried, Current, CacheInv
    <3> QED  BY <3>1, <3>2, <3>3 DEF CacheInv
  <2> QED  BY <2>1, <2>2 DEF CacheInv, Unborn, Inserting
<1> QED  BY <1>1, <1>2, <1>3, <1>4, <1>5

-----------------------------------------------------------------------------
(***************************************************************************)
(* What the queues are told.                                                *)
(***************************************************************************)
\* Setting one field of the row and telling the queue is building the queue anew.
LEMMA QueueOfChanged ==
  ASSUME NEW s \in Settings, NEW f \in Setting, NEW v \in BOOLEAN
  PROVE  QueueOf([s EXCEPT ![f] = v]) = QueueChanged(QueueOf(s), f, v)
<1> DEFINE u == [s EXCEPT ![f] = v]
<1>1. /\ f \in {"paused", "eip_1559_enabled", "max_gas_price_cap"}
      /\ \A g \in Setting : u[g] = IF g = f THEN v ELSE s[g]
      /\ {"paused", "eip_1559_enabled", "max_gas_price_cap"} = Setting
  BY DEF Setting, Settings
<1> HIDE DEF u
<1>2. CASE f = "paused"
  <2>1. u["paused"] = v /\ u["eip_1559_enabled"] = s["eip_1559_enabled"]
        /\ u["max_gas_price_cap"] = s["max_gas_price_cap"]
    BY <1>1, <1>2
  <2>2. QueueOf(u) = [QueueOf(s) EXCEPT !.is_paused = v]
    BY <2>1 DEF QueueOf
  <2> QED  BY <1>2, <2>2 DEF QueueChanged, u
<1>3. CASE f = "eip_1559_enabled"
  <2>1. u["paused"] = s["paused"] /\ u["eip_1559_enabled"] = v
        /\ u["max_gas_price_cap"] = s["max_gas_price_cap"]
    BY <1>1, <1>3
  <2>2. QueueOf(u) = [QueueOf(s) EXCEPT !.is_legacy = ~v]
    BY <2>1 DEF QueueOf
  <2> QED  BY <1>3, <2>2 DEF QueueChanged, u
<1>4. CASE f = "max_gas_price_cap"
  <2>1. u["paused"] = s["paused"] /\ u["eip_1559_enabled"] = s["eip_1559_enabled"]
        /\ u["max_gas_price_cap"] = v
    BY <1>1, <1>4
  <2>2. QueueOf(u) = [QueueOf(s) EXCEPT !.capped = v]
    BY <2>1 DEF QueueOf
  <2> QED  BY <1>4, <2>2 DEF QueueChanged, u
<1> QED  BY <1>1, <1>2, <1>3, <1>4

LEMMA QueueIsOne == ASSUME NEW s \in Settings PROVE QueueOf(s) \in QueueSettings /\ QueueOf(s) # NoRelayer
<1>1. s["paused"] \in BOOLEAN /\ s["eip_1559_enabled"] \in BOOLEAN /\ s["max_gas_price_cap"] \in BOOLEAN
  BY DEF Settings, Setting
<1>2. QueueOf(s) \in QueueSettings
  BY <1>1 DEF QueueOf, QueueSettings
<1> QED  BY <1>2, RelayersAssumption

LEMMA RowChangeDue ==
  ASSUME IndexInv, NEW a \in Request, pc[a] \in {"update", "delete"}, row' = Changed(a), ask' = ask,
         unstarted' = unstarted,
         NEW i \in Id, i = ask[a].id, queue'[i] = queue[i], queue[i] = Expected(i)
  PROVE  Expected(i)' = AfterChange(a, queue[i])'
<1>1. ask[a].op \in {"delete", "set"} /\ Changing(a)
  BY OnRelayer DEF Changing
<1>2. CASE i \in unstarted
  BY <1>2 DEF Expected, AfterChange
<1>3. CASE ask[a].op = "delete" /\ i \notin unstarted
  BY <1>1, <1>3, RowsChanged DEF AfterChange, Expected, QueueOfRow
<1>4. CASE ask[a].op = "set" /\ ~Live(i) /\ i \notin unstarted
  BY <1>1, <1>4, RowsChanged DEF AfterChange, Expected, QueueOfRow
<1>5. CASE ask[a].op = "set" /\ Live(i) /\ i \notin unstarted
  <2>1. /\ Live(i)' /\ ask[a].setting \in Setting /\ ask[a].value \in BOOLEAN
        /\ row[i].settings \in Settings
        /\ row'[i].settings = [row[i].settings EXCEPT ![ask[a].setting] = ask[a].value]
    BY <1>1, <1>5, RowsChanged
  <2>2. QueueOf(row'[i].settings) = QueueChanged(QueueOf(row[i].settings), ask[a].setting, ask[a].value)
    BY <2>1, QueueOfChanged
  <2>3. QueueOf(row[i].settings) # NoRelayer
    BY <2>1, QueueIsOne
  <2> QED  BY <1>5, <2>1, <2>2, <2>3 DEF AfterChange, Expected, QueueOfRow
<1> QED  BY <1>1, <1>2, <1>3, <1>4, <1>5

\* The one handler that is at work on a relayer takes its step, or a first one begins.
LEMMA FollowedBy ==
  ASSUME NEW i \in Id, NEW a \in Request,
         \A b \in Request \ {a} : UNCHANGED <<pc[b], ask[b], work[b]>> /\ ~On(b, i),
         On(a, i)' => Due(a, i)',
         ~On(a, i)' => queue'[i] = Expected(i)'
  PROVE  Followed(i)'
<1>1. \A b \in Request \ {a} : ~On(b, i)'
  BY DEF On
<1> QED  BY <1>1 DEF Followed, Quiet

\* What is not at work on a relayer does not reach its queue.
LEMMA SameFollowed ==
  ASSUME NEW i \in Id, queue'[i] = queue[i], Expected(i)' = Expected(i),
         \A b \in Request : On(b, i)' <=> On(b, i),
         \A b \in Request : On(b, i) => UNCHANGED <<pc[b], ask[b], work[b]>>,
         \A b \in Request : On(b, i) /\ pc[b] = "start" =>
           (Live(i) => Live(i)' /\ row'[i].settings = row[i].settings),
         Followed(i)
  PROVE  Followed(i)'
<1>1. ASSUME NEW b \in Request, On(b, i), Due(b, i)
      PROVE  Due(b, i)'
  <2>1. UNCHANGED <<pc[b], ask[b], work[b]>>
    BY <1>1
  <2>2. AfterChange(b, queue[i])' = AfterChange(b, queue[i])
    BY <2>1 DEF AfterChange, QueueChanged
  <2> QED  BY <1>1, <2>1, <2>2 DEF Due
<1> QED  BY <1>1 DEF Followed, Quiet

LEMMA Bystander ==
  ASSUME NEW i \in Id, NEW a \in Request, ~On(a, i), ~On(a, i)',
         \A b \in Request \ {a} : UNCHANGED <<pc[b], ask[b], work[b]>>,
         queue'[i] = queue[i], Live(i)' <=> Live(i), Live(i) => row'[i].settings = row[i].settings,
         i \in unstarted' <=> i \in unstarted,
         i \in unsettled => i \in unsettled',
         i \in unsettled \/ Followed(i)
  PROVE  i \in unsettled' \/ Followed(i)'
<1>1. \A b \in Request : On(b, i)' <=> On(b, i)
  BY DEF On
<1>2. Expected(i)' = Expected(i)
  BY DEF Expected, QueueOfRow
<1>3. \A b \in Request : On(b, i) => UNCHANGED <<pc[b], ask[b], work[b]>>
  OBVIOUS
<1>4. Followed(i) => Followed(i)'
  BY <1>1, <1>2, <1>3, SameFollowed
<1> QED  BY <1>4

LEMMA UnstartedStep ==
  ASSUME IndexInv, Unstarted, NEW a \in Request, Step(a)
  PROVE  Unstarted'
<1>1. /\ \A b \in Request \ {a} : UNCHANGED pc[b]
      /\ pc[a] # "done" /\ DOMAIN pc = Request
  BY OthersWait DEF IndexInv, HandlersTyped
<1>2. CASE NoNonce(a) \/ HangUp(a)
  BY <1>1, <1>2 DEF NoNonce, HangUp, Leave, Unstarted
<1>3. CASE ~(NoNonce(a) \/ HangUp(a))
  <2>1. unstarted' = unstarted
    BY <1>3 DEF Step, Arrive, CheckDuplicate, Lock, Allocate, CannotSign, ReadSource, Insert, ReadBack,
                StartQueue, Exists, Fill, Update, Forget, ChangeQueue, history
  <2> QED  BY <1>1, <2>1 DEF Unstarted
<1> QED  BY <1>2, <1>3

LEMMA QueuesStep ==
  ASSUME FrontsInv, NEW a \in Request, Step(a)
  PROVE  QueuesInv'
<1>0. /\ IndexInv /\ Unborn /\ QueuesInv /\ DOMAIN queue = Id /\ a \in Id /\ Unstarted'
      /\ \A b \in Request \ {a} : UNCHANGED <<pc[b], ask[b], work[b]>>
      /\ pc \in [Request -> Place] /\ ask \in [Request -> Ask \cup {Nobody}]
      /\ work \in [Request -> WorkType]
      /\ pc[a] # "done"
  BY OthersWait, UnstartedStep DEF FrontsInv, CacheInv, QueuesInv, IndexInv, HandlersTyped, WorkType, Id
<1>1. CASE \E d \in Wanted : Arrive(a, d)
  <2>1. PICK d \in Wanted : Arrive(a, d)
    BY <1>1
  <2>2. /\ UNCHANGED <<row, queue, unstarted>> /\ pc[a] = "out"
        /\ pc'[a] = FirstStep(d.op) /\ ask'[a] = d
        /\ unsettled \subseteq unsettled'
        /\ d.op \in {"delete", "set"} /\ Overlap(a, d.id) => d.id \in unsettled'
    BY <1>0, <2>1 DEF Arrive, Goto, tables, Mark
  <2>3. ASSUME NEW i \in Id
        PROVE  i \in unsettled' \/ Followed(i)'
    <3>1. ~On(a, i) /\ (Live(i)' <=> Live(i)) /\ Expected(i)' = Expected(i)
      BY <1>0, <2>2, OnRelayer DEF Live, Present, Expected, QueueOfRow
    <3>2. On(a, i)' => d.op \in {"delete", "set"} /\ d.id = i /\ pc'[a] \in {"delete", "exists"}
      BY <2>2, FirstSteps DEF On
    <3>3. CASE ~On(a, i)'
      BY <1>0, <2>2, <3>1, <3>3, Bystander DEF QueuesInv
    <3>4. CASE On(a, i)' /\ ~Overlap(a, i) /\ i \notin unsettled
      <4>1. queue[i] = Expected(i)
        BY <1>0, <3>1, <3>4 DEF QueuesInv, Followed, Quiet, Overlap
      <4>2. Due(a, i)'
        BY <2>2, <3>1, <3>2, <3>4, <4>1 DEF Due
      <4> QED  BY <1>0, <3>4, <4>2, FollowedBy DEF Overlap
    <3>5. CASE On(a, i)' /\ (Overlap(a, i) \/ i \in unsettled)
      BY <2>2, <3>2, <3>5
    <3> QED  BY <3>3, <3>4, <3>5
  <2> QED  BY <1>0, <2>2, <2>3 DEF QueuesInv
<1>2. CASE CheckDuplicate(a) \/ Lock(a) \/ Allocate(a) \/ CannotSign(a) \/ ReadSource(a)
  <2>1. /\ UNCHANGED <<row, queue, unsettled, unstarted>>
        /\ pc[a] \in {"check", "lock", "allocate", "source", "insert"}
        /\ pc'[a] \in {"lock", "allocate", "insert", "done"} /\ ask' = ask
    BY <1>0, <1>2 DEF CheckDuplicate, Lock, Allocate, CannotSign, ReadSource, tables, history,
                      Goto, Leave
  <2>2. ASSUME NEW i \in Id
        PROVE  ~On(a, i) /\ ~On(a, i)' /\ (Live(i)' <=> Live(i))
    <3>1. ~On(a, i) /\ ask[a].op \notin {"delete", "set"}
      BY <1>0, <2>1, OnRelayer DEF IndexInv, HandlersTyped, Ops, Numbered
    <3> QED  BY <2>1, <3>1 DEF On, Live, Present
  <2> QED  BY <1>0, <2>1, <2>2, Bystander DEF QueuesInv
<1>3. CASE Insert(a)
  <2>0. pc[a] = "insert" /\ ask[a].op \notin {"delete", "set"}
    BY <1>0, <1>3 DEF Insert, IndexInv, HandlersTyped, Ops, Numbered
  <2>1. CASE Leave(a, "index_taken") /\ UNCHANGED <<row, unsettled>>
    <3>1. pc'[a] = "done" /\ UNCHANGED <<row, queue, unsettled, unstarted>>
      BY <1>0, <1>3, <2>1 DEF Insert, Leave
    <3>2. ASSUME NEW i \in Id
          PROVE  ~On(a, i) /\ ~On(a, i)' /\ (Live(i)' <=> Live(i))
      BY <1>0, <2>0, <3>1, OnRelayer DEF On, Live, Present
    <3> QED  BY <1>0, <3>1, <3>2, Bystander DEF QueuesInv
  <2>2. CASE /\ Goto(a, "insert", "read_back") /\ row' = Inserted(a) /\ Mark(a, a) /\ ask' = ask
    <3>1. /\ pc'[a] = "read_back" /\ UNCHANGED <<queue, unstarted>>
          /\ unsettled \subseteq unsettled' /\ (Overlap(a, a) => a \in unsettled')
      BY <1>0, <1>3, <2>2 DEF Insert, Goto, Mark
    <3>2. ASSUME NEW i \in Id \ {a}
          PROVE  i \in unsettled' \/ Followed(i)'
      <4>1. ~On(a, i) /\ ~On(a, i)'
        BY <1>0, <2>0, <2>2, <3>1, OnRelayer DEF On
      <4>2. (Live(i)' <=> Live(i)) /\ (Live(i) => row'[i].settings = row[i].settings)
        BY <1>0, <2>0, <2>2, RowsInserted DEF Inserting
      <4> QED  BY <1>0, <3>1, <4>1, <4>2, Bystander DEF QueuesInv
    <3>3. a \in unsettled' \/ Followed(a)'
      <4>1. CASE a \in unsettled \/ Overlap(a, a)
        BY <3>1, <4>1
      <4>2. CASE a \notin unsettled /\ ~Overlap(a, a)
        <5>1. ~On(a, a)
          BY <1>0, <2>0, OnRelayer
        <5>2. queue[a] = Expected(a) /\ Expected(a) = NoRelayer
          BY <1>0, <2>0, <4>2, <5>1 DEF QueuesInv, Followed, Quiet, Overlap, Unborn, Inserting,
                                        Expected, QueueOfRow, Live, Present
        <5>3. Due(a, a)' /\ On(a, a)'
          BY <3>1, <5>2 DEF Due, On
        <5> QED  BY <1>0, <4>2, <5>3, FollowedBy DEF Overlap
      <4> QED  BY <4>1, <4>2
    <3> QED  BY <1>0, <3>1, <3>2, <3>3 DEF QueuesInv
  <2> QED  BY <1>3, <2>1, <2>2 DEF Insert
<1>4. CASE ReadBack(a) \/ StartQueue(a)
  <2>1. /\ UNCHANGED <<row, unsettled, unstarted, ask>> /\ pc[a] \in {"read_back", "start"}
        /\ pc'[a] \in {"start", "done"} /\ \A i \in Id \ {a} : queue'[i] = queue[i]
        /\ DOMAIN queue' = Id
    BY <1>0, <1>4 DEF ReadBack, StartQueue, Goto, Leave
  <2>2. ASSUME NEW i \in Id \ {a}
        PROVE  i \in unsettled' \/ Followed(i)'
    <3>1. ~On(a, i) /\ ~On(a, i)' /\ (Live(i)' <=> Live(i))
      <4>1. ~On(a, i) /\ ask[a].op \notin {"delete", "set"}
        BY <1>0, <2>1, OnRelayer DEF IndexInv, HandlersTyped, Ops, Numbered
      <4> QED  BY <2>1, <4>1 DEF On, Live, Present
    <3> QED  BY <1>0, <2>1, <3>1, Bystander DEF QueuesInv
  <2>3. ASSUME a \notin unsettled
        PROVE  Followed(a)'
    <3>1. /\ On(a, a) /\ Followed(a) /\ Due(a, a) /\ \A b \in Request \ {a} : ~On(b, a)
          /\ a \notin unstarted
      BY <1>0, <2>1, <2>3, OnRelayer DEF QueuesInv, Followed, Unstarted
    <3>2. CASE ReadBack(a) /\ Live(a)
      <4>1. /\ pc'[a] = "start" /\ work'[a].settings = row[a].settings
            /\ pc[a] = "read_back" /\ queue' = queue
        BY <1>0, <3>2 DEF ReadBack, Goto, WorkType
      <4>2. Due(a, a)' /\ On(a, a)'
        BY <2>1, <3>1, <3>2, <4>1 DEF Due, On, Live, Present
      <4> QED  BY <1>0, <3>1, <4>2, FollowedBy
    <3>3. CASE ReadBack(a) /\ ~Live(a)
      <4>1. pc[a] = "read_back" /\ pc'[a] = "done" /\ queue' = queue
        BY <1>0, <3>3 DEF ReadBack, Leave
      <4>2. queue'[a] = Expected(a)' /\ ~On(a, a)'
        BY <2>1, <3>1, <3>3, <4>1 DEF Due, Expected, QueueOfRow, Live, Present, On
      <4> QED  BY <1>0, <3>1, <4>2, FollowedBy
    <3>4. CASE StartQueue(a)
      <4>1. pc[a] = "start" /\ pc'[a] = "done" /\ queue'[a] = QueueOf(work[a].settings)
        BY <1>0, <3>4 DEF StartQueue, Leave
      <4>2. queue'[a] = Expected(a)' /\ ~On(a, a)'
        BY <2>1, <3>1, <4>1 DEF Due, Expected, QueueOfRow, Live, Present, On
      <4> QED  BY <1>0, <3>1, <4>2, FollowedBy
    <3> QED  BY <1>4, <3>2, <3>3, <3>4
  <2> QED  BY <1>0, <2>1, <2>2, <2>3 DEF QueuesInv
<1>5. CASE NoNonce(a)
  <2>1. /\ UNCHANGED <<row, queue, unsettled, ask>> /\ pc[a] = "start" /\ pc'[a] = "done"
        /\ unstarted' = unstarted \cup {a} /\ ask[a].op \notin {"delete", "set"}
    BY <1>0, <1>5 DEF NoNonce, Leave, tables, IndexInv, HandlersTyped, Ops
  <2>2. ASSUME NEW i \in Id \ {a}
        PROVE  i \in unsettled' \/ Followed(i)'
    <3>1. ~On(a, i) /\ ~On(a, i)' /\ (Live(i)' <=> Live(i))
      BY <1>0, <2>1, OnRelayer DEF On, Live, Present
    <3> QED  BY <1>0, <2>1, <3>1, Bystander DEF QueuesInv
  <2>3. ASSUME a \notin unsettled
        PROVE  Followed(a)'
    <3>1. On(a, a) /\ Due(a, a) /\ \A b \in Request \ {a} : ~On(b, a)
      BY <1>0, <2>1, <2>3, OnRelayer DEF QueuesInv, Followed
    <3>2. queue'[a] = Expected(a)' /\ ~On(a, a)'
      BY <2>1, <3>1 DEF Due, Expected, On
    <3> QED  BY <1>0, <3>1, <3>2, FollowedBy
  <2> QED  BY <1>0, <2>1, <2>2, <2>3 DEF QueuesInv
<1>6. CASE Exists(a) \/ Fill(a) \/ Update(a) \/ Forget(a) \/ ChangeQueue(a)
  <2>1. /\ pc[a] \in {"exists", "fill", "update", "delete", "invalidate", "queue"}
        /\ UNCHANGED <<ask, unsettled, unstarted>>
        /\ pc'[a] \in {"fill", "update", "invalidate", "queue", "done"}
    BY <1>0, <1>6 DEF Exists, Fill, Update, Forget, ChangeQueue, history, Goto, Leave
  <2>2. ask[a].id \in Id /\ ask[a].op \in {"delete", "set"}
    BY <1>0, <2>1, OnRelayer
  <2>3. row' = row \/ (pc[a] \in {"update", "delete"} /\ row' = Changed(a))
    BY <1>6 DEF Exists, Fill, Update, Forget, ChangeQueue, tables
  <2>4. \/ queue' = queue
        \/ /\ pc[a] = "queue"
           /\ queue' = [queue EXCEPT ![ask[a].id] = AfterChange(a, @)]
    BY <1>6 DEF Exists, Fill, Update, Forget, ChangeQueue, tables, AfterChange
  <2>5. ASSUME NEW i \in Id, i # ask[a].id
        PROVE  i \in unsettled' \/ Followed(i)'
    <3>1. ~On(a, i) /\ ~On(a, i)'
      BY <1>0, <2>1, <2>2, <2>5, OnRelayer DEF On
    <3>2. row'[i] = row[i] /\ queue'[i] = queue[i]
      <4>1. row'[i] = row[i]
        <5>1. CASE Changing(a) /\ row' = Changed(a)
          BY <1>0, <2>2, <2>5, <5>1, RowsChanged
        <5> QED  BY <2>3, <5>1 DEF Changing
      <4>2. queue'[i] = queue[i]
        BY <1>0, <2>2, <2>4, <2>5
      <4> QED  BY <4>1, <4>2
    <3>3. Live(i)' <=> Live(i)
      BY <3>2 DEF Live, Present
    <3> QED  BY <1>0, <2>1, <3>1, <3>2, <3>3, Bystander DEF QueuesInv
  <2>6. ASSUME NEW i \in Id, i = ask[a].id, i \notin unsettled
        PROVE  Followed(i)'
    <3>1. On(a, i) /\ Due(a, i) /\ \A b \in Request \ {a} : ~On(b, i)
      BY <1>0, <2>1, <2>6, OnRelayer DEF QueuesInv, Followed
    <3>2. CASE Exists(a) \/ Fill(a)
      <4>1. /\ UNCHANGED <<row, queue>> /\ pc[a] \in {"exists", "fill"}
            /\ pc'[a] \in {"fill", "update", "done"}
        BY <1>0, <3>2 DEF Exists, Fill, tables, Goto, Leave
      <4>2. queue'[i] = Expected(i)'
        BY <2>1, <3>1, <4>1 DEF Due, Expected, QueueOfRow, Live, Present
      <4>3. Due(a, i)'
        BY <4>1, <4>2 DEF Due
      <4> QED  BY <1>0, <3>1, <4>2, <4>3, FollowedBy
    <3>3. CASE Update(a)
      <4>1. /\ queue' = queue /\ row' = Changed(a) /\ pc[a] \in {"update", "delete"}
            /\ pc'[a] = "invalidate"
        BY <1>0, <3>3 DEF Update, Goto
      <4>2. Expected(i)' = AfterChange(a, queue[i])'
        BY <1>0, <2>1, <2>6, <3>1, <4>1, RowChangeDue DEF Due
      <4>3. Due(a, i)' /\ On(a, i)'
        BY <2>1, <2>2, <2>6, <4>1, <4>2 DEF Due, On, AfterChange
      <4> QED  BY <1>0, <3>1, <4>3, FollowedBy
    <3>4. CASE Forget(a)
      <4>1. UNCHANGED <<queue, row>> /\ pc[a] = "invalidate" /\ pc'[a] = "queue"
        BY <1>0, <3>4 DEF Forget, Goto
      <4>2. Expected(i)' = Expected(i) /\ AfterChange(a, queue[i])' = AfterChange(a, queue[i])
        BY <2>1, <4>1 DEF Expected, QueueOfRow, Live, Present, AfterChange, QueueChanged
      <4>3. Due(a, i)' /\ On(a, i)'
        BY <2>1, <2>2, <2>6, <3>1, <4>1, <4>2 DEF Due, On
      <4> QED  BY <1>0, <3>1, <4>3, FollowedBy
    <3>5. CASE ChangeQueue(a)
      <4>1. /\ row' = row /\ pc[a] = "queue" /\ pc'[a] = "done"
            /\ queue'[i] = AfterChange(a, queue[i])
        BY <1>0, <2>6, <3>5 DEF ChangeQueue, Leave, AfterChange
      <4>2. queue'[i] = Expected(i)' /\ ~On(a, i)'
        BY <2>1, <3>1, <4>1 DEF Due, Expected, QueueOfRow, Live, Present, On
      <4> QED  BY <1>0, <3>1, <4>2, FollowedBy
    <3> QED  BY <1>6, <3>2, <3>3, <3>4, <3>5
  <2>7. DOMAIN queue' = Id
    BY <1>0, <2>4
  <2> QED  BY <1>0, <2>1, <2>5, <2>6, <2>7 DEF QueuesInv
<1>7. CASE HangUp(a)
  <2>1. /\ UNCHANGED <<row, queue, ask>> /\ pc'[a] = "done"
        /\ pc[a] \notin {"out", "done", "lock", "check", "source"}
        /\ unsettled \subseteq unsettled'
        /\ unstarted' = IF pc[a] \in {"read_back", "start"} THEN unstarted \cup {a} ELSE unstarted
        /\ pc[a] \in {"invalidate", "queue"} => ask[a].id \in unsettled'
    BY <1>0, <1>7 DEF HangUp, Leave, tables
  <2>2. ASSUME NEW i \in Id
        PROVE  i \in unsettled' \/ Followed(i)'
    <3>0. ~On(a, i)'
      BY <2>1 DEF On
    <3>1. CASE ~On(a, i)
      <4>1. pc[a] \in {"read_back", "start"} => i # a
        BY <3>1, <1>0, OnRelayer
      <4>2. Live(i)' <=> Live(i)
        BY <2>1 DEF Live, Present
      <4> QED  BY <1>0, <2>1, <3>0, <3>1, <4>1, <4>2, Bystander DEF QueuesInv
    <3>2. CASE On(a, i) /\ i \notin unsettled'
      <4>1. Due(a, i) /\ \A b \in Request \ {a} : ~On(b, i)
        BY <1>0, <2>1, <3>2 DEF QueuesInv, Followed
      <4>2. CASE pc[a] \in {"read_back", "start"}
        <5>1. i = a
          BY <1>0, <3>2, <4>2, OnRelayer
        <5>2. queue'[i] = Expected(i)'
          BY <2>1, <4>1, <4>2, <5>1 DEF Due, Expected
        <5> QED  BY <1>0, <3>0, <4>1, <5>2, FollowedBy
      <4>3. CASE pc[a] \notin {"read_back", "start"}
        <5>1. pc[a] \in {"exists", "fill", "update", "delete"}
          BY <1>0, <2>1, <3>2, <4>3, OnRelayer DEF Place
        <5>2. queue'[i] = Expected(i)'
          BY <2>1, <4>1, <4>3, <5>1 DEF Due, Expected, QueueOfRow, Live, Present
        <5> QED  BY <1>0, <3>0, <4>1, <5>2, FollowedBy
      <4> QED  BY <4>2, <4>3
    <3> QED  BY <3>1, <3>2
  <2> QED  BY <1>0, <2>1, <2>2 DEF QueuesInv
<1> QED
  BY <1>1, <1>2, <1>3, <1>4, <1>5, <1>6, <1>7 DEF Step

\* A late UPDATE leaves its relayer unsettled; a late INSERT brings one without a queue.
LEMMA QueuesLand ==
  ASSUME FrontsInv, NEW a \in Request, Land(a)
  PROVE  QueuesInv'
<1>1. /\ IndexInv /\ Unborn /\ QueuesInv /\ DOMAIN queue = Id /\ a \in Id
      /\ a \in late /\ pc[a] = "done" /\ ask[a] \in Ask
      /\ UNCHANGED <<queue, pc, ask, work>>
      /\ LandChange(a) \/ LandRow(a)
  BY DEF Land, requestVars, Id, FrontsInv, CacheInv, QueuesInv, IndexInv, HandlersTyped
<1>2. \A b \in Request, i \in Id : On(b, i)' <=> On(b, i)
  BY <1>1 DEF On
<1>3. CASE LandChange(a)
  <2>1. /\ Changing(a) /\ row' = Changed(a) /\ unstarted' = unstarted
        /\ unsettled' = unsettled \cup {ask[a].id} /\ ask[a].id \in Id
    BY <1>1, <1>3 DEF LandChange, Changing, Ask
  <2>2. ASSUME NEW i \in Id, i # ask[a].id, Followed(i)
        PROVE  Followed(i)'
    <3>1. row'[i] = row[i]
      BY <1>1, <2>1, <2>2, RowsChanged
    <3>2. Expected(i)' = Expected(i) /\ (Live(i)' <=> Live(i))
      BY <2>1, <3>1 DEF Expected, QueueOfRow, Live, Present
    <3> QED  BY <1>1, <1>2, <2>2, <3>1, <3>2, SameFollowed
  <2> QED  BY <1>1, <2>1, <2>2 DEF QueuesInv, Unstarted
<1>4. CASE LandRow(a) /\ UNCHANGED <<row, unstarted>>
  <2>1. unsettled' = unsettled
    BY <1>4 DEF LandRow
  <2>2. ASSUME NEW i \in Id, Followed(i)
        PROVE  Followed(i)'
    <3>1. Expected(i)' = Expected(i) /\ (Live(i)' <=> Live(i)) /\ row'[i] = row[i]
      BY <1>4 DEF Expected, QueueOfRow, Live, Present
    <3> QED  BY <1>1, <1>2, <2>2, <3>1, SameFollowed
  <2> QED  BY <1>1, <1>4, <2>1, <2>2 DEF QueuesInv, Unstarted
<1>5. CASE LandRow(a) /\ ~UNCHANGED <<row, unstarted>>
  <2>1. /\ Inserting(a) /\ row' = Inserted(a) /\ unstarted' = unstarted \cup {a}
        /\ unsettled' = unsettled
    BY <1>1, <1>5 DEF LandRow, Inserting
  <2>2. row[a] = NoRelayer
    BY <1>1, <2>1 DEF Unborn
  <2>3. ASSUME NEW i \in Id, Followed(i)
        PROVE  Followed(i)'
    <3>1. CASE i # a
      <4>1. (Live(i)' <=> Live(i)) /\ (Live(i) => row'[i].settings = row[i].settings)
        BY <1>1, <2>1, <3>1, RowsInserted
      <4>2. Expected(i)' = Expected(i)
        BY <2>1, <3>1, <4>1 DEF Expected, QueueOfRow
      <4> QED  BY <1>1, <1>2, <2>3, <4>1, <4>2, SameFollowed
    <3>2. CASE i = a
      <4>1. ~Live(a) /\ Expected(a) = NoRelayer /\ Expected(a)' = NoRelayer
        BY <2>1, <2>2 DEF Expected, QueueOfRow, Live, Present
      <4> QED  BY <1>1, <1>2, <2>3, <3>2, <4>1, SameFollowed
    <3> QED  BY <3>1, <3>2
  <2> QED  BY <1>1, <2>1, <2>3 DEF QueuesInv, Unstarted
<1> QED  BY <1>1, <1>3, <1>4, <1>5

LEMMA QueuesOther ==
  ASSUME FrontsInv,
         \/ \E r \in Reader : SetCached(r) \/ \E i \in Id : Read(r, i)
         \/ \E i \in Id : Expire(i)
         \/ Restart \/ UNCHANGED vars
  PROVE  QueuesInv'
<1>1. CASE Restart
  <2>1. PICK skipped \in SUBSET {i \in Id : Live(i)} :
          queue' = LoadedQueue(skipped) /\ unstarted' = skipped
    BY <1>1 DEF Restart
  <2>2. /\ row' = row /\ \A a \in Request : pc'[a] \in {"out", "done"} /\ (pc'[a] = "out" => pc[a] = "out")
    BY <1>1 DEF Restart
  <2>3. \A i \in Id : queue'[i] = Expected(i)' /\ \A a \in Request : ~On(a, i)'
    BY <2>1, <2>2 DEF LoadedQueue, Expected, QueueOfRow, Live, Present, On
  <2>4. Unstarted'
    BY <2>1, <2>2 DEF Unstarted, FrontsInv, CacheInv, Unborn, Live, Present
  <2>5. DOMAIN queue' = Id
    BY <2>1 DEF LoadedQueue
  <2> QED  BY <2>3, <2>4, <2>5 DEF QueuesInv, Followed, Quiet
<1>2. CASE \/ \E r \in Reader : SetCached(r) \/ \E i \in Id : Read(r, i)
           \/ \E i \in Id : Expire(i)
           \/ UNCHANGED vars
  <2>1. UNCHANGED <<row, queue, pc, ask, work, unsettled, unstarted>>
    BY <1>2 DEF SetCached, Read, Expire, vars, tables, requestVars, history
  <2>2. ASSUME NEW i \in Id
        PROVE  Followed(i) => Followed(i)'
    <3>1. Expected(i)' = Expected(i) /\ (Live(i)' <=> Live(i))
      BY <2>1 DEF Expected, QueueOfRow, Live, Present
    <3>2. ASSUME NEW a \in Request
          PROVE  (On(a, i)' <=> On(a, i)) /\ AfterChange(a, queue[i])' = AfterChange(a, queue[i])
      BY <2>1 DEF On, AfterChange, QueueChanged
    <3>3. \A a \in Request : Due(a, i) => Due(a, i)'
      BY <2>1, <3>1, <3>2 DEF Due
    <3> QED  BY <2>1, <3>1, <3>2, <3>3 DEF Followed, Quiet
  <2> QED  BY <2>1, <2>2 DEF FrontsInv, QueuesInv, Unstarted
<1> QED  BY <1>1, <1>2

LEMMA FrontsKept == Spec => []FrontsInv
<1>1. Init => FrontsInv
  BY IndexInit, FrontsInit DEF FrontsInv
<1>2. FrontsInv /\ [Next]_vars => FrontsInv'
  <2>1. ASSUME FrontsInv, NEW a \in Request, Step(a)
        PROVE  FrontsInv'
    BY <2>1, IndexStep, CacheStep, QueuesStep DEF FrontsInv, Next
  <2>3. ASSUME FrontsInv, NEW a \in Request, Land(a)
        PROVE  FrontsInv'
    BY <2>3, IndexStep, CacheLand, QueuesLand DEF FrontsInv, Next
  <2>2. ASSUME FrontsInv,
               \/ \E r \in Reader : SetCached(r) \/ \E i \in Id : Read(r, i)
               \/ \E i \in Id : Expire(i)
               \/ Restart \/ UNCHANGED vars
        PROVE  FrontsInv'
    BY <2>2, IndexStep, CacheOther, QueuesOther DEF FrontsInv, Next
  <2> QED  BY <2>1, <2>2, <2>3 DEF Next
<1> QED  BY <1>1, <1>2, PTL DEF Spec

\* The cache in front of the rows: wherever look-ups, invalidations, expiry, late statements and
\* restarts interleave, old settings are cached only while a change is about to drop them, after
\* one whose request ended before it could, or when a look-up carried them past an invalidation.
THEOREM CacheStaleOnlyByRace == Spec => []StaleOnlyWhenRaced
<1>1. FrontsInv => StaleOnlyWhenRaced
  <2> SUFFICES ASSUME FrontsInv, NEW i \in Id, cache[i] # NoRelayer,
                      ~(Live(i) /\ cache[i] = row[i].settings),
                      i \notin raced \cup abandoned
               PROVE  \E a \in Request : pc[a] = "invalidate" /\ ask[a].id = i
    BY DEF StaleOnlyWhenRaced
  <2>1. Excused(i) \/ Current(i)
    BY DEF FrontsInv, CacheInv
  <2> QED  BY <2>1 DEF Excused, Current, Shown
<1> QED  BY <1>1, FrontsKept, PTL

\* The row, the cache and the queue are changed one after another: whoever reads, whatever the
\* cache shows and whenever the server restarts, the queue of a relayer nobody is at work on runs
\* under the settings of its row, or was not started and is not there, unless requests overlapped,
\* one was cut off after its change or a late one took effect.
THEOREM QueueKeepsUp == Spec => []QueueFollowsRow
<1>1. FrontsInv => QueueFollowsRow
  BY DEF FrontsInv, QueuesInv, Followed, Expected, QueueFollowsRow
<1> QED  BY <1>1, FrontsKept, PTL
=============================================================================
