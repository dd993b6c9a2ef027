---------------------- MODULE CoprocessorIngestionProofs ----------------------
(***************************************************************************)
(* Proofs about the coprocessor's way from the blocks of a host chain to   *)
(* ciphertexts: the host listener, which stores the computations of a      *)
(* block, and the workers, which execute them.  They hold for any tree of  *)
(* blocks, any reorganisations and failures, and for any transactions, any *)
(* failing operations and any number of workers.                           *)
(*                                                                         *)
(* Both follow links, the listener from a block to its parent, the workers *)
(* from an operation to the ones it uses, and do so recursively.  Such a   *)
(* recursion has a solution because the links are well-founded (Recursion  *)
(* below), and what it computes is shown with a least counterexample.      *)
(*                                                                         *)
(* For the workers: transactions are executed one after the other, and a   *)
(* component takes inputs from its own transaction through its first row   *)
(* only, so that components never wait for one another in a circle; then   *)
(* one that is not uncomputable has run all its rows somebody may use, and *)
(* one that runs has every input.                                          *)
(*                                                                         *)
(* For the listener: what it collects for a new block is a stretch of the  *)
(* block's ancestors from the parent on, which ends at a block it knows or *)
(* is given up with a log entry.                                           *)
(***************************************************************************)
EXTENDS TfheWorker, HostListener, SequenceTheorems, WellFoundedInduction, TLAPS

----------------------------------------------------------------------------
(* Recursive functions.  A relation is given as the set below[x] of what   *)
(* stands immediately below x; it is well-founded if every nonempty set    *)
(* has a member with nothing of the set below it.                          *)
WellFounded(S, below) ==
    /\ below \in [S -> SUBSET S]
    /\ \A T \in SUBSET S : T # {} => \E x \in T : below[x] \cap T = {}

(* A step function that computes the value at x from the values below x.   *)
Steps(S, V, below, G) ==
    /\ G \in [S \X [S -> V] -> V]
    /\ \A x \in S : \A f, g \in [S -> V] :
           (\A y \in below[x] : f[y] = g[y]) => G[<<x, f>>] = G[<<x, g>>]

(* A recursion along a well-founded relation has a solution.               *)
LEMMA Recursion ==
    ASSUME NEW S, NEW V, NEW below, NEW G, V # {},
           WellFounded(S, below), Steps(S, V, below, G)
    PROVE  \E f \in [S -> V] : \A x \in S : f[x] = G[<<x, f>>]
<1> DEFINE Closed(D) == \A x \in D : below[x] \subseteq D
           Partial(D, f) == \A x \in D : f[x] = G[<<x, f>>]
           Part == {p \in (SUBSET S) \X [S -> V] : Closed(p[1]) /\ Partial(p[1], p[2])}
           A == UNION {p[1] : p \in Part}
<1>1. below \in [S -> SUBSET S]
  BY DEF WellFounded
<1>2. \A x \in S : \A f, g \in [S -> V] :
          (\A y \in below[x] : f[y] = g[y]) => G[<<x, f>>] = G[<<x, g>>]
  BY DEF Steps
<1>3. \A x \in S : \A f \in [S -> V] : G[<<x, f>>] \in V
  BY DEF Steps
<1>4. ASSUME NEW p \in Part, NEW q \in Part
      PROVE  \A x \in p[1] \cap q[1] : p[2][x] = q[2][x]
  <2> DEFINE T == {x \in p[1] \cap q[1] : p[2][x] # q[2][x]}
  <2> SUFFICES ASSUME T # {} PROVE FALSE
    OBVIOUS
  <2>1. T \in SUBSET S
    OBVIOUS
  <2>2. PICK x \in T : below[x] \cap T = {}
    BY <2>1 DEF WellFounded
  <2>3. \A y \in below[x] : p[2][y] = q[2][y]
    BY <2>2
  <2>4. G[<<x, p[2]>>] = G[<<x, q[2]>>]
    BY <1>2, <2>1, <2>3
  <2> QED
    BY <2>2, <2>4
<1> DEFINE F == [x \in S |-> IF x \in A
                             THEN (CHOOSE p \in Part : x \in p[1])[2][x]
                             ELSE CHOOSE v \in V : TRUE]
<1>5. \A p \in Part : p[1] \in SUBSET S /\ p[2] \in [S -> V] /\ Closed(p[1]) /\ Partial(p[1], p[2])
  OBVIOUS
<1>6. \A x \in A : \E p \in Part : x \in p[1]
  OBVIOUS
<1>7. A \in SUBSET S /\ Closed(A)
  BY <1>5, <1>6
<1> HIDE DEF Part, A
<1>8. ASSUME NEW p \in Part, NEW x \in p[1]
      PROVE  x \in S /\ x \in A /\ F[x] = p[2][x]
  <2>1. x \in S /\ x \in A
    BY <1>5 DEF A
  <2> DEFINE q == CHOOSE q \in Part : x \in q[1]
  <2>2. q \in Part /\ x \in q[1]
    OBVIOUS
  <2>3. F[x] = q[2][x]
    BY <2>1
  <2> HIDE DEF q, F
  <2> QED
    BY <1>4, <2>1, <2>2, <2>3
<1>9. F \in [S -> V]
  <2> SUFFICES ASSUME NEW x \in S PROVE F[x] \in V
    OBVIOUS
  <2>1. CASE x \in A
    <3>1. PICK p \in Part : x \in p[1]
      BY <1>6, <2>1
    <3>2. F[x] = p[2][x]
      BY <1>8, <3>1
    <3> HIDE DEF F
    <3> QED
      BY <1>5, <3>1, <3>2
  <2>2. CASE x \notin A
    BY <2>2
  <2> QED
    BY <2>1, <2>2
<1> HIDE DEF F
<1>10. Partial(A, F)
  <2> SUFFICES ASSUME NEW x \in A PROVE F[x] = G[<<x, F>>]
    OBVIOUS
  <2>1. PICK p \in Part : x \in p[1]
    BY <1>6
  <2>2. p[2] \in [S -> V] /\ Closed(p[1]) /\ p[2][x] = G[<<x, p[2]>>]
    BY <1>5, <2>1
  <2>3. \A y \in below[x] : F[y] = p[2][y]
    BY <1>8, <2>1, <2>2
  <2>4. x \in S
    BY <1>7
  <2>5. G[<<x, F>>] = G[<<x, p[2]>>]
    BY <1>2, <1>9, <2>2, <2>3, <2>4
  <2> QED
    BY <1>8, <2>1, <2>2, <2>5
<1>11. A = S
  <2> SUFFICES ASSUME S \ A # {} PROVE FALSE
    BY <1>7
  <2>1. PICK x \in S \ A : below[x] \cap (S \ A) = {}
    <3> DEFINE T == S \ A
    <3>1. T \in SUBSET S /\ T # {}
      OBVIOUS
    <3> HIDE DEF T
    <3>2. \E x \in T : below[x] \cap T = {}
      BY <3>1 DEF WellFounded
    <3> QED
      BY <3>2 DEF T
  <2> DEFINE D == A \cup {x}
             f == [F EXCEPT ![x] = G[<<x, F>>]]
  <2>2. D \in SUBSET S /\ Closed(D)
    BY <1>1, <1>7, <2>1
  <2>3. f \in [S -> V] /\ f[x] = G[<<x, F>>] /\ \A y \in S : y # x => f[y] = F[y]
    BY <1>3, <1>9
  <2> HIDE DEF f
  <2>4. Partial(D, f)
    <3> SUFFICES ASSUME NEW y \in D PROVE f[y] = G[<<y, f>>]
      OBVIOUS
    <3>1. \A z \in below[y] : f[z] = F[z]
      BY <1>1, <1>7, <2>1, <2>3
    <3>2. G[<<y, f>>] = G[<<y, F>>]
      BY <1>2, <1>9, <2>2, <2>3, <3>1
    <3> QED
      BY <1>10, <2>2, <2>3, <3>2
  <2>5. <<D, f>> \in Part
    BY <2>2, <2>3, <2>4 DEF Part
  <2>6. x \in A
    BY <2>5 DEF A
  <2> QED
    BY <2>6
<1> QED
  BY <1>9, <1>10, <1>11

----------------------------------------------------------------------------
(* Pruning never drops a row that somebody may use.                        *)
LEMMA NeededRows ==
    ASSUME NEW rows \in SUBSET Rows
    PROVE  Needed(rows) \subseteq rows /\ rows \cap AllowedRows \subseteq Needed(rows)
<1> DEFINE IsNeeded(f, r) ==
               \/ r \in AllowedRows
               \/ \E c \in rows : TxOf[c] = TxOf[r] /\ r \in DepSet(c) /\ f[c]
           below == [r \in rows |-> {c \in rows : r \in DepSet(c)}]
           G == [p \in rows \X [rows -> BOOLEAN] |-> IsNeeded(p[2], p[1])]
           needed == CHOOSE f : f = [r \in rows |-> IsNeeded(f, r)]
<1>1. Needed(rows) = {r \in rows : needed[r]}
  BY DEF Needed
<1>2. WellFounded(rows, below)
  <2> SUFFICES ASSUME NEW T \in SUBSET rows, T # {}
               PROVE  \E r \in T : below[r] \cap T = {}
    BY DEF WellFounded
  <2>1. PICK r \in T : \A s \in T : r \notin DepSet(s)
    BY ExecutionOrderAssumption
  <2> QED
    BY <2>1
<1>3. Steps(rows, BOOLEAN, below, G)
  <2>1. \A r \in rows : \A f \in [rows -> BOOLEAN] : G[<<r, f>>] = IsNeeded(f, r)
    OBVIOUS
  <2>2. G \in [rows \X [rows -> BOOLEAN] -> BOOLEAN]
    OBVIOUS
  <2>3. \A r \in rows : \A f, g \in [rows -> BOOLEAN] :
            (\A y \in below[r] : f[y] = g[y]) => (IsNeeded(f, r) <=> IsNeeded(g, r))
    OBVIOUS
  <2> HIDE DEF G, below, IsNeeded
  <2> QED
    BY <2>1, <2>2, <2>3 DEF Steps
<1>4. PICK f \in [rows -> BOOLEAN] : \A r \in rows : f[r] = G[<<r, f>>]
  <2> DEFINE B == BOOLEAN
  <2> HIDE DEF G, below, IsNeeded
  <2>1. B # {} /\ Steps(rows, B, below, G)
    BY <1>3
  <2> HIDE DEF B
  <2>2. \E f \in [rows -> B] : \A r \in rows : f[r] = G[<<r, f>>]
    BY <1>2, <2>1, Recursion
  <2> QED
    BY <2>2 DEF B
<1>5. f = [r \in rows |-> IsNeeded(f, r)]
  <2>1. \A r \in rows : f[r] = IsNeeded(f, r)
    BY <1>4
  <2> QED
    BY <2>1
<1>6. needed = [r \in rows |-> IsNeeded(needed, r)]
  <2> HIDE DEF IsNeeded
  <2> QED
    BY <1>5
<1> HIDE DEF needed
<1>7. \A r \in rows \cap AllowedRows : needed[r]
  BY <1>6
<1> QED
  BY <1>1, <1>7

----------------------------------------------------------------------------
(* The components.  All rows of one belong to one transaction, and only    *)
(* its first row may use what the transaction computes outside of it: the  *)
(* rows behind the first one were merged along the only edge that leads to *)
(* them.                                                                   *)
IsComponent(C, rows) ==
    /\ C \subseteq rows
    /\ \E n \in C :
           /\ \A x \in C : TxOf[x] = TxOf[n]
           /\ \A x \in C \ {n} :
                  /\ \E m \in C : m \in DepSet(x)
                  /\ \A h \in DepSet(x) \cap rows : TxOf[h] = TxOf[x] => h \in C

(* An edge leads from a row to one of the same transaction that uses it.   *)
LEMMA RowEdge ==
    ASSUME NEW rows \in SUBSET Rows
    PROVE  /\ \A e \in RowEdges(rows) :
                  /\ e[1] \in rows /\ e[2] \in rows
                  /\ e[1] \in DepSet(e[2])
                  /\ TxOf[e[1]] = TxOf[e[2]]
           /\ \A x \in rows : \A h \in DepSet(x) \cap rows :
                  TxOf[h] = TxOf[x] => \E e \in RowEdges(rows) : e[1] = h /\ e[2] = x
<1> DEFINE Uses(c) == {j \in DOMAIN Deps[c] : Deps[c][j] \in {r \in rows : TxOf[r] = TxOf[c]}}
<1>1. \A e : e \in RowEdges(rows) <=>
          \E c \in rows : \E i \in Uses(c) : e = <<Deps[c][i], c, i>>
  BY DEF RowEdges
<1>2. ASSUME NEW e \in RowEdges(rows)
      PROVE  /\ e[1] \in rows /\ e[2] \in rows
             /\ e[1] \in DepSet(e[2])
             /\ TxOf[e[1]] = TxOf[e[2]]
  <2>1. PICK c \in rows : \E i \in Uses(c) : e = <<Deps[c][i], c, i>>
    BY <1>1
  <2>2. PICK i \in DOMAIN Deps[c] :
            Deps[c][i] \in {r \in rows : TxOf[r] = TxOf[c]} /\ e = <<Deps[c][i], c, i>>
    BY <2>1
  <2> QED
    BY <2>2 DEF DepSet
<1>3. ASSUME NEW x \in rows, NEW h \in DepSet(x) \cap rows, TxOf[h] = TxOf[x]
      PROVE  \E e \in RowEdges(rows) : e[1] = h /\ e[2] = x
  <2>1. PICK i \in DOMAIN Deps[x] : Deps[x][i] = h
    BY DEF DepSet
  <2>2. <<h, x, i>> \in RowEdges(rows)
    BY <1>1, <1>3, <2>1
  <2> QED
    BY <2>2
<1> QED
  BY <1>2, <1>3

(* A part of the partition is a chain of merged edges from its first row.  *)
LEMMA Chains ==
    ASSUME NEW rows \in SUBSET Rows, NEW C \in Partition(rows, RowEdges(rows))
    PROVE  IsComponent(C, rows)
<1> DEFINE edges == RowEdges(rows)
           merged == MergedAlong(edges)
           Next1(n) == {m \in merged : m[1] = n}
           Chain(f, n) == {n} \cup UNION {f[e[2]] : e \in Next1(n)}
           V == SUBSET rows
           below == [n \in rows |-> {e[2] : e \in Next1(n)}]
           G == [p \in rows \X [rows -> V] |-> Chain(p[2], p[1])]
           chainFrom == CHOOSE f : f = [n \in rows |-> Chain(f, n)]
           heads == {m \in rows : \A e \in merged : e[2] # m}
<1>1. Partition(rows, edges) = {chainFrom[n] : n \in heads}
  BY DEF Partition
<1>2. /\ \A e \in merged : /\ e \in edges
                           /\ e[1] \in rows /\ e[2] \in rows
                           /\ e[1] \in DepSet(e[2]) /\ TxOf[e[1]] = TxOf[e[2]]
                           /\ \A f \in edges : f[2] = e[2] => f = e
  BY RowEdge DEF MergedAlong
<1> HIDE DEF merged
<1>3. WellFounded(rows, below)
  <2>1. below \in [rows -> SUBSET rows]
    BY <1>2
  <2>2. ASSUME NEW T \in SUBSET rows, T # {}
        PROVE  \E r \in T : below[r] \cap T = {}
    <3>1. PICK r \in T : \A s \in T : r \notin DepSet(s)
      BY <2>2, ExecutionOrderAssumption
    <3>2. \A e \in Next1(r) : e[2] \notin T
      BY <1>2, <3>1
    <3> QED
      BY <3>2
  <2> QED
    BY <2>1, <2>2 DEF WellFounded
<1>4. Steps(rows, V, below, G)
  <2>1. ASSUME NEW n \in rows, NEW f \in [rows -> V]
        PROVE  Chain(f, n) \in V
    BY <1>2
  <2>2. \A n \in rows : \A f \in [rows -> V] : G[<<n, f>>] = Chain(f, n)
    OBVIOUS
  <2>3. G \in [rows \X [rows -> V] -> V]
    <3> HIDE DEF Chain, V
    <3> QED
      BY <2>1
  <2>4. ASSUME NEW n \in rows, NEW f \in [rows -> V], NEW g \in [rows -> V],
               \A y \in below[n] : f[y] = g[y]
        PROVE  Chain(f, n) = Chain(g, n)
    <3>1. \A e \in Next1(n) : f[e[2]] = g[e[2]]
      BY <2>4
    <3>2. {f[e[2]] : e \in Next1(n)} = {g[e[2]] : e \in Next1(n)}
      <4> HIDE DEF Next1
      <4> QED
        BY <3>1
    <3> QED
      BY <3>2
  <2> HIDE DEF G, below, Chain, V
  <2> QED
    BY <2>2, <2>3, <2>4 DEF Steps
<1>5. chainFrom = [n \in rows |-> Chain(chainFrom, n)]
  <2>1. V # {}
    OBVIOUS
  <2>2. PICK f \in [rows -> V] : \A n \in rows : f[n] = G[<<n, f>>]
    <3> HIDE DEF G, below, V
    <3> QED
      BY <1>3, <1>4, <2>1, Recursion
  <2>3. f = [n \in rows |-> Chain(f, n)]
    <3>1. \A n \in rows : G[<<n, f>>] = Chain(f, n)
      <4> HIDE DEF Chain, V
      <4> QED
        OBVIOUS
    <3> HIDE DEF Chain, V, G
    <3> QED
      BY <2>2, <3>1
  <2> HIDE DEF Chain
  <2> QED
    BY <2>3
<1> HIDE DEF chainFrom
<1>6. \A n \in rows : \A x : x \in chainFrom[n] <=> x = n \/ \E e \in Next1(n) : x \in chainFrom[e[2]]
  <2> SUFFICES ASSUME NEW n \in rows, NEW x
               PROVE  x \in chainFrom[n] <=> x = n \/ \E e \in Next1(n) : x \in chainFrom[e[2]]
    OBVIOUS
  <2>1. chainFrom[n] = Chain(chainFrom, n)
    <3> HIDE DEF Chain
    <3> QED
      BY <1>5
  <2> HIDE DEF Next1
  <2> QED
    BY <2>1
<1> DEFINE P(n) == \A x \in chainFrom[n] :
                       /\ x \in rows /\ TxOf[x] = TxOf[n]
                       /\ x = n \/ \E e \in merged : e[2] = x /\ e[1] \in chainFrom[n]
           T == {n \in rows : ~P(n)}
<1>7. \A n \in rows : P(n)
  <2> SUFFICES ASSUME T # {} PROVE FALSE
    OBVIOUS
  <2>1. T \in SUBSET rows
    OBVIOUS
  <2>2. PICK n \in T : below[n] \cap T = {}
    <3> HIDE DEF T, below
    <3> QED
      BY <1>3, <2>1 DEF WellFounded
  <2>3. n \in rows /\ ~P(n)
    OBVIOUS
  <2>4. \A e \in Next1(n) : P(e[2])
    <3>1. \A e \in Next1(n) : e[2] \in rows /\ e[2] \in below[n]
      BY <1>2, <2>3
    <3> HIDE DEF P, below, Next1
    <3> QED
      BY <2>2, <3>1
  <2>5. P(n)
    <3> SUFFICES ASSUME NEW x \in chainFrom[n], x # n
                 PROVE  /\ x \in rows /\ TxOf[x] = TxOf[n]
                        /\ \E e \in merged : e[2] = x /\ e[1] \in chainFrom[n]
      BY <2>3
    <3>1. PICK e \in Next1(n) : x \in chainFrom[e[2]]
      BY <1>6, <2>3
    <3>2. n \in chainFrom[n]
      BY <1>6, <2>3
    <3>3. \A y \in chainFrom[e[2]] : y \in chainFrom[n]
      BY <1>6, <2>3, <3>1
    <3>4. x \in rows /\ TxOf[x] = TxOf[e[2]]
      BY <2>4, <3>1
    <3>5. x = e[2] \/ \E d \in merged : d[2] = x /\ d[1] \in chainFrom[e[2]]
      BY <2>4, <3>1
    <3> QED
      BY <1>2, <3>1, <3>2, <3>3, <3>4, <3>5
  <2> QED
    BY <2>3, <2>5
<1>8. PICK n \in heads : C = chainFrom[n]
  BY <1>1
<1>9. n \in C /\ C \subseteq rows /\ \A x \in C : TxOf[x] = TxOf[n]
  BY <1>6, <1>7, <1>8
<1>10. ASSUME NEW x \in C \ {n}
       PROVE  /\ \E m \in C : m \in DepSet(x)
              /\ \A h \in DepSet(x) \cap rows : TxOf[h] = TxOf[x] => h \in C
  <2>1. PICK e \in merged : e[2] = x /\ e[1] \in C
    BY <1>7, <1>8
  <2>2. e[1] \in DepSet(x) /\ \A f \in edges : f[2] = x => f = e
    BY <1>2, <2>1
  <2>3. ASSUME NEW h \in DepSet(x) \cap rows, TxOf[h] = TxOf[x]
        PROVE  h \in C
    <3>1. x \in rows
      BY <1>9
    <3>2. PICK f \in edges : f[1] = h /\ f[2] = x
      BY <2>3, <3>1, RowEdge
    <3> QED
      BY <2>1, <2>2, <3>2
  <2> QED
    BY <2>1, <2>2, <2>3
<1> QED
  BY <1>9, <1>10 DEF IsComponent

----------------------------------------------------------------------------
(* Components of several transactions never wait for one another: the      *)
(* first row of the first transaction is in one that waits for none.       *)
Preds(CS, C) == {A \in CS : A \cap ExternalInputs(C) # {}}

(* An external input is used by a row of the component and not one itself. *)
LEMMA ExternalInput ==
    \A C : \A h : h \in ExternalInputs(C) <=> (h \notin C /\ \E r \in C : h \in DepSet(r))
<1> SUFFICES ASSUME NEW C, NEW h
             PROVE  h \in ExternalInputs(C) <=> (h \notin C /\ \E r \in C : h \in DepSet(r))
  OBVIOUS
<1>1. h \in UNION {DepSet(r) : r \in C} <=> \E r \in C : h \in DepSet(r)
  OBVIOUS
<1> QED
  BY <1>1 DEF ExternalInputs

(* All components are as above, and waiting for one another is founded.    *)
LEMMA ComponentsFounded ==
    ASSUME NEW rows \in SUBSET Rows
    PROVE  /\ \A C \in Components[rows] : IsComponent(C, Needed(rows))
           /\ WellFounded(Components[rows],
                          [C \in Components[rows] |-> Preds(Components[rows], C)])
<1> DEFINE CS == Components[rows]
           nodes == Needed(rows)
<1>1. nodes \in SUBSET Rows
  BY NeededRows
<1>2. \A C \in CS : IsComponent(C, nodes)
  <2>1. CS = Partition(nodes, RowEdges(nodes))
    BY DEF Components
  <2> HIDE DEF CS, nodes
  <2> QED
    BY <1>1, <2>1, Chains
<1> HIDE DEF CS, nodes
<1>3. ASSUME NEW Z \in SUBSET CS, Z # {}
      PROVE  \E C \in Z : Preds(CS, C) \cap Z = {}
  <2> DEFINE S0 == UNION Z
  <2>1. S0 \in (SUBSET Rows) \ {{}}
    BY <1>1, <1>2, <1>3 DEF IsComponent
  <2>2. PICK t \in S0 : \A s \in S0 :
            TxOf[s] = TxOf[t] => \A h \in DepSet(s) \cap S0 : TxOf[h] = TxOf[t]
    <3> HIDE DEF S0
    <3> QED
      BY <2>1, ExecutionOrderAssumption
  <2> DEFINE S1 == {s \in S0 : TxOf[s] = TxOf[t]}
  <2>3. S1 \in (SUBSET Rows) \ {{}}
    BY <2>1, <2>2
  <2>4. PICK r \in S1 : DepSet(r) \cap S1 = {}
    <3> HIDE DEF S1
    <3> QED
      BY <2>3, ExecutionOrderAssumption
  <2>5. PICK C \in Z : r \in C
    BY <2>4
  <2>6. ASSUME NEW A \in Z, NEW h \in A \cap ExternalInputs(C)
        PROVE  FALSE
    <3>1. PICK x \in C : h \in DepSet(x) /\ h \notin C
      <4> HIDE DEF S0, S1
      <4> QED
        BY <2>6, ExternalInput
    <3>2. PICK n \in C : /\ \A y \in C : TxOf[y] = TxOf[n]
                         /\ \A y \in C \ {n} :
                               /\ \E m \in C : m \in DepSet(y)
                               /\ \A k \in DepSet(y) \cap nodes : TxOf[k] = TxOf[y] => k \in C
      BY <1>2, <2>5 DEF IsComponent
    <3>3. C \subseteq S1
      <4>1. TxOf[r] = TxOf[t]
        BY <2>4
      <4> QED
        BY <2>5, <3>2, <4>1
    <3>4. h \in S0 /\ h \in nodes
      BY <1>2, <2>6 DEF IsComponent
    <3>5. h \in S1
      BY <2>2, <3>1, <3>3, <3>4
    <3>6. x = n
      BY <3>1, <3>2, <3>3, <3>4, <3>5
    <3>7. r = n
      BY <2>4, <2>5, <3>2, <3>3
    <3> QED
      BY <2>4, <3>1, <3>5, <3>6, <3>7
  <2> QED
    BY <2>6 DEF Preds
<1>4. WellFounded(CS, [C \in CS |-> Preds(CS, C)])
  <2>1. [C \in CS |-> Preds(CS, C)] \in [CS -> SUBSET CS]
    BY DEF Preds
  <2> QED
    BY <1>3, <2>1 DEF WellFounded
<1> QED
  BY <1>2, <1>4 DEF CS, nodes

----------------------------------------------------------------------------
(* Inside a component, the rows that run are those that do not fail and    *)
(* have all they use from the component.                                   *)
LEMMA RunsRows ==
    ASSUME NEW C \in SUBSET Rows
    PROVE  /\ Runs(C) \subseteq C
           /\ \A r \in C : r \in Runs(C) <=> r \notin BadRows /\ DepSet(r) \cap C \subseteq Runs(C)
<1> DEFINE Ran(f, r) == r \notin BadRows /\ \A h \in DepSet(r) \cap C : f[h]
           below == [r \in C |-> DepSet(r) \cap C]
           G == [p \in C \X [C -> BOOLEAN] |-> Ran(p[2], p[1])]
           ran == CHOOSE f : f = [r \in C |-> Ran(f, r)]
<1>1. Runs(C) = {r \in C : ran[r]}
  BY DEF Runs
<1>2. WellFounded(C, below)
  <2> SUFFICES ASSUME NEW T \in SUBSET C, T # {}
               PROVE  \E r \in T : below[r] \cap T = {}
    BY DEF WellFounded
  <2>1. PICK r \in T : DepSet(r) \cap T = {}
    BY ExecutionOrderAssumption
  <2> QED
    BY <2>1
<1>3. Steps(C, BOOLEAN, below, G)
  <2>1. \A r \in C : \A f \in [C -> BOOLEAN] : G[<<r, f>>] = Ran(f, r)
    OBVIOUS
  <2>2. G \in [C \X [C -> BOOLEAN] -> BOOLEAN]
    OBVIOUS
  <2>3. \A r \in C : \A f, g \in [C -> BOOLEAN] :
            (\A y \in below[r] : f[y] = g[y]) => (Ran(f, r) <=> Ran(g, r))
    OBVIOUS
  <2> HIDE DEF G, below, Ran
  <2> QED
    BY <2>1, <2>2, <2>3 DEF Steps
<1>4. PICK f \in [C -> BOOLEAN] : \A r \in C : f[r] = G[<<r, f>>]
  <2> DEFINE B == BOOLEAN
  <2> HIDE DEF G, below, Ran
  <2>1. B # {} /\ Steps(C, B, below, G)
    BY <1>3
  <2> HIDE DEF B
  <2>2. \E f \in [C -> B] : \A r \in C : f[r] = G[<<r, f>>]
    BY <1>2, <2>1, Recursion
  <2> QED
    BY <2>2 DEF B
<1>5. f = [r \in C |-> Ran(f, r)]
  <2>1. \A r \in C : f[r] = Ran(f, r)
    BY <1>4
  <2> QED
    BY <2>1
<1>6. ran = [r \in C |-> Ran(ran, r)]
  <2> HIDE DEF Ran
  <2> QED
    BY <1>5
<1> HIDE DEF ran
<1>7. \A r \in C : ran[r] <=> Ran(ran, r)
  BY <1>6
<1>8. \A r \in C : r \in Runs(C) <=> ran[r]
  BY <1>1
<1> QED
  BY <1>1, <1>7, <1>8

(* A component without an error runs completely.                            *)
LEMMA WithoutErrors ==
    ASSUME NEW C \in SUBSET Rows, {r \in C \cap BadRows : DepSet(r) \cap C \subseteq Runs(C)} = {}
    PROVE  Runs(C) = C
<1> DEFINE T == C \ Runs(C)
<1> SUFFICES ASSUME T # {} PROVE FALSE
  BY RunsRows
<1>1. PICK r \in T : DepSet(r) \cap T = {}
  <2>1. T \in (SUBSET Rows) \ {{}}
    OBVIOUS
  <2> HIDE DEF T
  <2> QED
    BY <2>1, ExecutionOrderAssumption
<1>2. DepSet(r) \cap C \subseteq Runs(C)
  BY <1>1
<1> QED
  BY <1>1, <1>2, RunsRows

----------------------------------------------------------------------------
(* The scheduler's results are one record per component, computed from the *)
(* records of its predecessors.                                            *)
Misses(CS, inputs, R, C) ==
    MissesInput(C, inputs \cup UNION {R[A].ok : A \in Preds(CS, C)})

FirstErrors(C) == {r \in C \cap BadRows : DepSet(r) \cap C \subseteq Runs(C)}

AreResults(CS, inputs, R) ==
    \A C \in CS :
        /\ R[C].skipped => \E A \in Preds(CS, C) : R[A].skipped \/ R[A].uncomputable
        /\ R[C].missing <=> Misses(CS, inputs, R, C) /\ ~R[C].skipped
        /\ R[C].ok = IF R[C].skipped \/ Misses(CS, inputs, R, C) THEN {} ELSE Runs(C)
        /\ R[C].err = IF R[C].skipped THEN {}
                      ELSE IF Misses(CS, inputs, R, C) THEN C \cap AllowedRows
                      ELSE FirstErrors(C)
        /\ R[C].uncomputable <=>
               R[C].err # {} \/ \E A \in Preds(CS, C) : R[A].uncomputable

(* The sources of the edges into a component are its predecessors.         *)
LEMMA PredsOf ==
    ASSUME NEW CS, NEW C \in CS
    PROVE  {e[1] : e \in {f \in ComponentEdges(CS) : f[2] = C}} = Preds(CS, C)
<1>1. \A e : e \in ComponentEdges(CS) <=>
          \E A, B \in CS : \E h \in A \cap ExternalInputs(B) : e = <<A, B, h>>
  <2> DEFINE Between(A, B) == {<<A, B, h>> : h \in A \cap ExternalInputs(B)}
  <2>1. ComponentEdges(CS) = UNION {Between(A, B) : A, B \in CS}
    BY DEF ComponentEdges
  <2>2. \A A, B, e : e \in Between(A, B) <=> \E h \in A \cap ExternalInputs(B) : e = <<A, B, h>>
    OBVIOUS
  <2> HIDE DEF Between
  <2>3. \A e : e \in ComponentEdges(CS) <=> \E A, B \in CS : e \in Between(A, B)
    BY <2>1
  <2> QED
    BY <2>2, <2>3
<1>2. ASSUME NEW A \in Preds(CS, C)
      PROVE  \E e \in ComponentEdges(CS) : e[2] = C /\ e[1] = A
  <2>1. PICK h \in A \cap ExternalInputs(C) : TRUE
    BY DEF Preds
  <2>2. A \in CS
    BY DEF Preds
  <2>3. <<A, C, h>> \in ComponentEdges(CS)
    BY <1>1, <2>2
  <2> QED
    BY <2>3
<1>3. ASSUME NEW e \in ComponentEdges(CS), e[2] = C
      PROVE  e[1] \in Preds(CS, C)
  <2>1. PICK A \in CS, B \in CS : \E h \in A \cap ExternalInputs(B) : e = <<A, B, h>>
    BY <1>1
  <2>2. e[1] = A /\ B = C
    BY <1>3, <2>1
  <2> QED
    BY <2>1, <2>2 DEF Preds
<1>4. \A A : A \in {e[1] : e \in {f \in ComponentEdges(CS) : f[2] = C}} <=>
             \E e \in ComponentEdges(CS) : e[2] = C /\ e[1] = A
  OBVIOUS
<1>5. \A A : (\E e \in ComponentEdges(CS) : e[2] = C /\ e[1] = A) <=> A \in Preds(CS, C)
  BY <1>2, <1>3
<1> QED
  BY <1>4, <1>5

(* What the scheduler's recursion over the components solves.              *)
LEMMA ResultOf ==
    ASSUME NEW rows \in SUBSET Rows, NEW inputs
    PROVE  AreResults(Components[rows], inputs, Results(Components[rows], inputs))
<1> DEFINE CS == Components[rows]
           edges == ComponentEdges(CS)
           tasks == Partition(CS, edges)
           P(C) == {e[1] : e \in {f \in edges : f[2] = C}}
           Same(A, C) == \E T \in tasks : {A, C} \subseteq T
           Skipped(f, C) == \E A \in P(C) : IF Same(A, C) THEN f[A].skipped
                                            ELSE f[A].uncomputable
           Missing(f, C) == MissesInput(C, inputs \cup UNION {f[A].ok : A \in P(C)})
           Err(f, C) == IF Skipped(f, C) THEN {}
                        ELSE IF Missing(f, C) THEN C \cap AllowedRows
                        ELSE {r \in C \cap BadRows : DepSet(r) \cap C \subseteq Runs(C)}
           Ok(f, C) == IF Skipped(f, C) \/ Missing(f, C) THEN {} ELSE Runs(C)
           Fails(f, C) == Err(f, C) # {} \/ \E A \in P(C) : f[A].uncomputable
           Body(f, C) == [skipped |-> Skipped(f, C),
                          missing |-> Missing(f, C) /\ ~Skipped(f, C),
                          ok |-> Ok(f, C),
                          err |-> Err(f, C),
                          uncomputable |-> Fails(f, C)]
           V == [skipped : BOOLEAN, missing : BOOLEAN, ok : SUBSET Rows,
                 err : SUBSET Rows, uncomputable : BOOLEAN]
           below == [C \in CS |-> Preds(CS, C)]
           G == [p \in CS \X [CS -> V] |-> Body(p[2], p[1])]
           result == CHOOSE f : f = [C \in CS |-> Body(f, C)]
<1>1. Results(CS, inputs) = result
  BY DEF Results
<1>2. WellFounded(CS, below) /\ \A C \in CS : C \in SUBSET Rows
  <2>1. \A C \in CS : IsComponent(C, Needed(rows))
    BY ComponentsFounded
  <2>2. \A C \in CS : C \in SUBSET Rows
    BY <2>1, NeededRows DEF IsComponent
  <2> QED
    BY <2>2, ComponentsFounded
<1>3. \A C \in CS : P(C) = Preds(CS, C)
  <2> HIDE DEF CS
  <2> QED
    BY PredsOf
<1> HIDE DEF CS, P, Same
<1>4. \A C \in CS : P(C) \in SUBSET CS
  BY <1>3 DEF Preds
<1>5. ASSUME NEW C \in CS, NEW f \in [CS -> V]
      PROVE  Body(f, C) \in V
  <2>1. Skipped(f, C) \in BOOLEAN /\ Missing(f, C) \in BOOLEAN /\ Fails(f, C) \in BOOLEAN
    BY DEF MissesInput
  <2>2. Ok(f, C) \in SUBSET Rows /\ Err(f, C) \in SUBSET Rows
    <3> HIDE DEF Skipped, Missing
    <3> QED
      BY <1>2, RunsRows
  <2> HIDE DEF Skipped, Missing, Fails, Ok, Err
  <2> QED
    BY <2>1, <2>2
<1>6. ASSUME NEW C \in CS, NEW f \in [CS -> V], NEW g \in [CS -> V],
             \A A \in below[C] : f[A] = g[A]
      PROVE  Body(f, C) = Body(g, C)
  <2>1. \A A \in P(C) : f[A] = g[A]
    BY <1>3, <1>6
  <2>2. Skipped(f, C) = Skipped(g, C)
    BY <2>1
  <2>3. Missing(f, C) = Missing(g, C)
    <3>1. {f[A].ok : A \in P(C)} = {g[A].ok : A \in P(C)}
      BY <2>1
    <3> QED
      BY <3>1
  <2>4. Ok(f, C) = Ok(g, C) /\ Err(f, C) = Err(g, C)
    <3> HIDE DEF Skipped, Missing
    <3> QED
      BY <2>2, <2>3
  <2>5. Fails(f, C) = Fails(g, C)
    <3> HIDE DEF Err
    <3> QED
      BY <2>1, <2>4
  <2> HIDE DEF Skipped, Missing, Fails, Ok, Err
  <2> QED
    BY <2>2, <2>3, <2>4, <2>5
<1>7. result = [C \in CS |-> Body(result, C)]
  <2>1. V # {}
    <3>1. [skipped |-> TRUE, missing |-> TRUE, ok |-> {}, err |-> {}, uncomputable |-> TRUE] \in V
      OBVIOUS
    <3> QED
      BY <3>1
  <2>2. \A C \in CS : \A f \in [CS -> V] : G[<<C, f>>] = Body(f, C)
    <3> HIDE DEF Body, V
    <3> QED
      OBVIOUS
  <2>3. Steps(CS, V, below, G)
    <3>1. G \in [CS \X [CS -> V] -> V]
      <4> HIDE DEF Body, V
      <4> QED
        BY <1>5
    <3> HIDE DEF G, below, Body, V
    <3> QED
      BY <1>6, <2>2, <3>1 DEF Steps
  <2>4. PICK f \in [CS -> V] : \A C \in CS : f[C] = G[<<C, f>>]
    <3> HIDE DEF G, below, V
    <3> QED
      BY <1>2, <2>1, <2>3, Recursion
  <2>5. f = [C \in CS |-> Body(f, C)]
    <3>1. \A C \in CS : f[C] = Body(f, C)
      <4> HIDE DEF Body, V, G
      <4> QED
        BY <2>2, <2>4
    <3> HIDE DEF Body, V, G
    <3> QED
      BY <2>4, <3>1
  <2> HIDE DEF Body
  <2> QED
    BY <2>5
<1> HIDE DEF result
<1>8. ASSUME NEW C \in CS
      PROVE  /\ result[C].skipped <=> Skipped(result, C)
             /\ result[C].missing <=> Missing(result, C) /\ ~Skipped(result, C)
             /\ result[C].ok = Ok(result, C)
             /\ result[C].err = Err(result, C)
             /\ result[C].uncomputable <=> Fails(result, C)
  <2>1. result[C] = Body(result, C)
    <3> HIDE DEF Body
    <3> QED
      BY <1>7
  <2>2. Skipped(result, C) \in BOOLEAN /\ Missing(result, C) \in BOOLEAN /\ Fails(result, C) \in BOOLEAN
    BY DEF MissesInput
  <2> HIDE DEF Skipped, Missing, Fails, Ok, Err
  <2>3. result[C].ok = Ok(result, C) /\ result[C].err = Err(result, C)
    BY <2>1
  <2>4. result[C].skipped = Skipped(result, C)
    BY <2>1
  <2>5. result[C].missing = (Missing(result, C) /\ ~Skipped(result, C))
    BY <2>1
  <2>6. result[C].uncomputable = Fails(result, C)
    BY <2>1
  <2> HIDE DEF Body
  <2> QED
    BY <2>2, <2>3, <2>4, <2>5, <2>6
<1>9. AreResults(CS, inputs, result)
  <2> SUFFICES ASSUME NEW C \in CS
               PROVE  /\ result[C].skipped => \E A \in Preds(CS, C) : result[A].skipped \/ result[A].uncomputable
                      /\ result[C].missing <=> Misses(CS, inputs, result, C) /\ ~result[C].skipped
                      /\ result[C].ok = IF result[C].skipped \/ Misses(CS, inputs, result, C) THEN {} ELSE Runs(C)
                      /\ result[C].err = IF result[C].skipped THEN {}
                                         ELSE IF Misses(CS, inputs, result, C) THEN C \cap AllowedRows
                                         ELSE FirstErrors(C)
                      /\ result[C].uncomputable <=>
                             result[C].err # {} \/ \E A \in Preds(CS, C) : result[A].uncomputable
    BY DEF AreResults
  <2>1. P(C) = Preds(CS, C)
    BY <1>3
  <2>2. Missing(result, C) <=> Misses(CS, inputs, result, C)
    <3>1. {result[A].ok : A \in P(C)} = {result[A].ok : A \in Preds(CS, C)}
      BY <2>1
    <3> QED
      BY <3>1 DEF Misses
  <2>3. result[C].skipped => \E A \in Preds(CS, C) : result[A].skipped \/ result[A].uncomputable
    <3>1. result[C].skipped => Skipped(result, C)
      <4> HIDE DEF Skipped, Missing, Fails, Ok, Err
      <4> QED
        BY <1>8
    <3> QED
      BY <2>1, <3>1
  <2>4. result[C].uncomputable <=>
            result[C].err # {} \/ \E A \in Preds(CS, C) : result[A].uncomputable
    <3>1. result[C].uncomputable <=> Err(result, C) # {} \/ \E A \in P(C) : result[A].uncomputable
      <4> HIDE DEF Err
      <4> QED
        BY <1>8
    <3> HIDE DEF Err
    <3> QED
      BY <1>8, <2>1, <3>1
  <2> HIDE DEF Skipped, Missing
  <2> QED
    BY <1>8, <2>2, <2>3, <2>4 DEF FirstErrors
<1> QED
  BY <1>1, <1>9 DEF CS

(* A worker's components consist of rows it holds.                         *)
LEMMA ComponentRows ==
    ASSUME NEW rows \in SUBSET Rows
    PROVE  \A C \in Components[rows] : C \in SUBSET Rows /\ C \subseteq rows
<1>1. \A C \in Components[rows] : IsComponent(C, Needed(rows))
  BY ComponentsFounded
<1> QED
  BY <1>1, NeededRows DEF IsComponent

(* A skipped component counts as uncomputable, and one that does not has   *)
(* computed all its rows that somebody may use.                            *)
LEMMA ResultRows ==
    ASSUME NEW rows \in SUBSET Rows, NEW inputs,
           NEW R, R = Results(Components[rows], inputs),
           NEW C \in Components[rows]
    PROVE  /\ R[C].ok \subseteq C /\ R[C].err \subseteq C
           /\ ~R[C].uncomputable => C \cap AllowedRows \subseteq R[C].ok
<1> DEFINE CS == Components[rows]
           below == [D \in CS |-> Preds(CS, D)]
           T == {D \in CS : R[D].skipped /\ ~R[D].uncomputable}
<1>1. AreResults(CS, inputs, R)
  BY ResultOf
<1>2. CS = Components[rows]
  OBVIOUS
<1>3. WellFounded(CS, below)
  BY ComponentsFounded
<1> HIDE DEF CS
<1>4. \A D \in CS : ~R[D].uncomputable => ~R[D].skipped
  <2> SUFFICES ASSUME T # {} PROVE FALSE
    OBVIOUS
  <2>1. T \in SUBSET CS
    OBVIOUS
  <2>2. PICK D \in T : below[D] \cap T = {}
    <3> HIDE DEF T, below
    <3> QED
      BY <1>3, <2>1 DEF WellFounded
  <2>3. D \in CS /\ R[D].skipped /\ ~R[D].uncomputable
    OBVIOUS
  <2>4. PICK A \in Preds(CS, D) : R[A].skipped \/ R[A].uncomputable
    BY <1>1, <2>3 DEF AreResults
  <2>5. ~R[A].uncomputable
    BY <1>1, <2>3 DEF AreResults
  <2>6. A \in T
    BY <2>4, <2>5 DEF Preds
  <2> QED
    BY <2>2, <2>3, <2>4, <2>6
<1>5. C \in SUBSET Rows
  BY ComponentRows
<1>6. Runs(C) \subseteq C /\ FirstErrors(C) \subseteq C
  BY <1>5, RunsRows DEF FirstErrors
<1>7. /\ R[C].ok = IF R[C].skipped \/ Misses(CS, inputs, R, C) THEN {} ELSE Runs(C)
      /\ R[C].err = IF R[C].skipped THEN {}
                    ELSE IF Misses(CS, inputs, R, C) THEN C \cap AllowedRows
                    ELSE FirstErrors(C)
      /\ ~R[C].uncomputable => R[C].err = {}
  BY <1>1, <1>2 DEF AreResults
<1>8. ASSUME ~R[C].uncomputable
      PROVE  C \cap AllowedRows \subseteq R[C].ok
  <2>1. ~R[C].skipped /\ R[C].err = {}
    BY <1>2, <1>4, <1>7, <1>8
  <2>2. CASE Misses(CS, inputs, R, C)
    BY <1>7, <2>1, <2>2
  <2>3. CASE ~Misses(CS, inputs, R, C)
    <3>1. FirstErrors(C) = {} /\ R[C].ok = Runs(C)
      BY <1>7, <2>1, <2>3
    <3> QED
      BY <1>5, <3>1, WithoutErrors DEF FirstErrors
  <2> QED
    BY <2>2, <2>3
<1> QED
  BY <1>6, <1>7, <1>8

(* What a computation writes concerns the rows the worker holds; what it   *)
(* reports as completed and somebody may use, it stores.                   *)
LEMMA OutcomeRows ==
    ASSUME NEW rows \in SUBSET Rows, NEW inputs, NEW out, out = Outcome(rows, inputs)
    PROVE  /\ out.stored \subseteq AllowedRows \cap rows
           /\ out.failed \subseteq rows /\ out.missing \subseteq out.failed
           /\ out.complete \subseteq rows
           /\ out.complete \cap AllowedRows \subseteq out.stored
<1> DEFINE CS == Components[rows]
           R == Results(CS, inputs)
<1>1. /\ out.stored = AllowedRows \cap UNION {R[C].ok : C \in CS}
      /\ out.failed = UNION {R[C].err : C \in CS}
      /\ out.missing = UNION {R[C].err : C \in {D \in CS : R[D].missing}}
      /\ out.complete = HandlesToUpdate(CS, R) \cup (rows \ Needed(rows))
  BY DEF Outcome
<1>2. HandlesToUpdate(CS, R) = UNION {C \in CS : ~R[C].uncomputable}
  BY DEF HandlesToUpdate
<1>3. \A C \in CS : /\ C \subseteq rows
                    /\ R[C].ok \subseteq C /\ R[C].err \subseteq C
                    /\ ~R[C].uncomputable => C \cap AllowedRows \subseteq R[C].ok
  BY ComponentRows, ResultRows
<1> HIDE DEF CS, R
<1>4. \A r : r \in HandlesToUpdate(CS, R) =>
             /\ r \in rows
             /\ r \in AllowedRows => r \in out.stored
  BY <1>1, <1>2, <1>3
<1>5. out.stored \subseteq AllowedRows \cap rows
  BY <1>1, <1>3
<1>6. out.failed \subseteq rows /\ out.missing \subseteq out.failed
  BY <1>1, <1>3
<1>7. \A r \in rows \ Needed(rows) : r \notin AllowedRows
  BY NeededRows
<1> QED
  BY <1>1, <1>4, <1>5, <1>6, <1>7

----------------------------------------------------------------------------
(* Computable rows: the recursion goes back along what a row uses.         *)
LEMMA ComputableRows ==
    ASSUME NEW available
    PROVE  /\ Computable(available) \subseteq Rows
           /\ \A r \in Rows : r \in Computable(available) <=>
                  /\ r \notin BadRows
                  /\ \A h \in DepSet(r) : IF h \in Rows THEN h \in Computable(available)
                                          ELSE h \in available
<1> DEFINE IsComputable(f, r) ==
               /\ r \notin BadRows
               /\ \A h \in DepSet(r) : IF h \in Rows THEN f[h] ELSE h \in available
           below == [r \in Rows |-> DepSet(r) \cap Rows]
           G == [p \in Rows \X [Rows -> BOOLEAN] |-> IsComputable(p[2], p[1])]
           computable == CHOOSE f : f = [r \in Rows |-> IsComputable(f, r)]
<1>1. Computable(available) = {r \in Rows : computable[r]}
  BY DEF Computable
<1>2. WellFounded(Rows, below)
  <2> SUFFICES ASSUME NEW T \in SUBSET Rows, T # {}
               PROVE  \E r \in T : below[r] \cap T = {}
    BY DEF WellFounded
  <2>1. PICK r \in T : DepSet(r) \cap T = {}
    BY ExecutionOrderAssumption
  <2> QED
    BY <2>1
<1>3. Steps(Rows, BOOLEAN, below, G)
  <2>1. \A r \in Rows : \A f \in [Rows -> BOOLEAN] : IsComputable(f, r) \in BOOLEAN
    OBVIOUS
  <2>2. \A r \in Rows : \A f \in [Rows -> BOOLEAN] : G[<<r, f>>] = IsComputable(f, r)
    OBVIOUS
  <2>3. G \in [Rows \X [Rows -> BOOLEAN] -> BOOLEAN]
    <3> HIDE DEF IsComputable
    <3> QED
      BY <2>1
  <2>4. \A r \in Rows : \A f, g \in [Rows -> BOOLEAN] :
            (\A y \in below[r] : f[y] = g[y]) => (IsComputable(f, r) <=> IsComputable(g, r))
    OBVIOUS
  <2> HIDE DEF G, below, IsComputable
  <2> QED
    BY <2>1, <2>2, <2>3, <2>4 DEF Steps
<1>4. PICK f \in [Rows -> BOOLEAN] : \A r \in Rows : f[r] = G[<<r, f>>]
  <2> DEFINE B == BOOLEAN
  <2> HIDE DEF G, below, IsComputable
  <2>1. B # {} /\ Steps(Rows, B, below, G)
    BY <1>3
  <2> HIDE DEF B
  <2>2. \E f \in [Rows -> B] : \A r \in Rows : f[r] = G[<<r, f>>]
    BY <1>2, <2>1, Recursion
  <2> QED
    BY <2>2 DEF B
<1>5. f = [r \in Rows |-> IsComputable(f, r)]
  <2>1. \A r \in Rows : f[r] = IsComputable(f, r)
    BY <1>4
  <2> HIDE DEF IsComputable
  <2> QED
    BY <2>1
<1>6. computable = [r \in Rows |-> IsComputable(computable, r)]
  <2> HIDE DEF IsComputable
  <2> QED
    BY <1>5
<1> HIDE DEF computable
<1>7. \A r \in Rows : computable[r] <=> IsComputable(computable, r)
  BY <1>6
<1>8. \A r \in Rows : r \in Computable(available) <=> computable[r]
  BY <1>1
<1> QED
  BY <1>1, <1>7, <1>8

(* What can be computed stays so when more inputs are verified.            *)
LEMMA ComputableGrows ==
    ASSUME NEW before, NEW after, before \subseteq after
    PROVE  Computable(before) \subseteq Computable(after)
<1> DEFINE T == Computable(before) \ Computable(after)
<1> SUFFICES ASSUME T # {} PROVE FALSE
  OBVIOUS
<1>1. T \in (SUBSET Rows) \ {{}}
  BY ComputableRows
<1>2. PICK r \in T : DepSet(r) \cap T = {}
  <2> HIDE DEF T
  <2> QED
    BY <1>1, ExecutionOrderAssumption
<1>3. r \in Rows /\ r \in Computable(before) /\ r \notin Computable(after)
  BY <1>1
<1>4. r \notin BadRows
  BY <1>3, ComputableRows
<1>5. ASSUME NEW h \in DepSet(r)
      PROVE  IF h \in Rows THEN h \in Computable(after) ELSE h \in after
  <2>1. IF h \in Rows THEN h \in Computable(before) ELSE h \in before
    BY <1>3, ComputableRows
  <2> QED
    BY <1>2, <2>1
<1> QED
  BY <1>3, <1>4, <1>5, ComputableRows

(* A computation that reads only what could be computed stores only what   *)
(* can be computed.                                                        *)
LEMMA OutcomeComputable ==
    ASSUME NEW rows \in SUBSET Rows, NEW available, NEW inputs,
           inputs \subseteq available, inputs \cap Rows \subseteq Computable(available)
    PROVE  Outcome(rows, inputs).stored \subseteq Computable(available)
<1> DEFINE CS == Components[rows]
           R == Results(CS, inputs)
           below == [D \in CS |-> Preds(CS, D)]
           T == {D \in CS : ~(R[D].ok \subseteq Computable(available))}
<1>1. AreResults(CS, inputs, R)
  BY ResultOf
<1>2. WellFounded(CS, below)
  BY ComponentsFounded
<1>3. \A C \in CS : C \in SUBSET Rows
  BY ComponentRows
<1>4. Outcome(rows, inputs).stored = AllowedRows \cap UNION {R[C].ok : C \in CS}
  BY DEF Outcome
<1> HIDE DEF CS, R
<1>5. T = {}
  <2> SUFFICES ASSUME T # {} PROVE FALSE
    OBVIOUS
  <2>1. T \in SUBSET CS
    OBVIOUS
  <2>2. PICK C \in T : below[C] \cap T = {}
    <3> HIDE DEF T, below
    <3> QED
      BY <1>2, <2>1 DEF WellFounded
  <2>3. C \in CS /\ ~(R[C].ok \subseteq Computable(available))
    OBVIOUS
  <2>4. \A A \in Preds(CS, C) : R[A].ok \subseteq Computable(available)
    BY <2>2, <2>3 DEF Preds
  <2>5. ~Misses(CS, inputs, R, C) /\ R[C].ok = Runs(C)
    BY <1>1, <2>3 DEF AreResults
  <2>6. ASSUME NEW h \in ExternalInputs(C)
        PROVE  IF h \in Rows THEN h \in Computable(available) ELSE h \in available
    <3>1. h \in inputs \cup UNION {R[A].ok : A \in Preds(CS, C)}
      BY <2>5 DEF Misses, MissesInput
    <3>2. CASE h \in inputs
      BY <3>2
    <3>3. CASE h \notin inputs
      <4>1. h \in Computable(available)
        BY <2>4, <3>1, <3>3
      <4> QED
        BY <4>1, ComputableRows
    <3> QED
      BY <3>2, <3>3
  <2> DEFINE U == Runs(C) \ Computable(available)
  <2>7. U \in (SUBSET Rows) \ {{}}
    BY <1>3, <2>3, <2>5, RunsRows
  <2>8. PICK r \in U : DepSet(r) \cap U = {}
    <3> HIDE DEF U
    <3> QED
      BY <2>7, ExecutionOrderAssumption
  <2>9. r \in C /\ r \in Rows /\ r \notin BadRows /\ DepSet(r) \cap C \subseteq Runs(C)
    BY <1>3, <2>3, <2>8, RunsRows
  <2>10. ASSUME NEW h \in DepSet(r)
         PROVE  IF h \in Rows THEN h \in Computable(available) ELSE h \in available
    <3>1. CASE h \in C
      <4>1. h \in Runs(C) /\ h \notin U /\ h \in Rows
        BY <1>3, <2>3, <2>8, <2>9, <3>1
      <4> QED
        BY <4>1
    <3>2. CASE h \notin C
      BY <2>6, <2>9, <3>2, ExternalInput
    <3> QED
      BY <3>1, <3>2
  <2> QED
    BY <2>8, <2>9, <2>10, ComputableRows
<1> QED
  BY <1>4, <1>5

----------------------------------------------------------------------------
(* What a worker read is there: ciphertexts are never deleted, however     *)
(* long its computation takes.                                             *)
ReadIsStored == \A w \in Workers : read[w] \subseteq ciphertexts

WorkerInv == TypeOK /\ CompletedIsStored /\ StoredIsComputable /\ ReadIsStored

(* Nothing is inserted, stored or locked yet.                              *)
LEMMA InitWorkerInv == Init => WorkerInv
<1> SUFFICES ASSUME Init PROVE WorkerInv
  OBVIOUS
<1>1. TypeOK
  BY DEF Init, TypeOK, Inserted
<1>2. CompletedIsStored /\ StoredIsComputable /\ ReadIsStored
  BY DEF Init, CompletedIsStored, StoredIsComputable, ReadIsStored
<1> QED
  BY <1>1, <1>2 DEF WorkerInv

(* A commit adds what OutcomeRows and OutcomeComputable bound.             *)
LEMMA CommitWorkerInv ==
    ASSUME WorkerInv, NEW w \in Workers, Commit(w)
    PROVE  WorkerInv'
<1> DEFINE out == Outcome(locked[w], read[w])
<1>1. /\ ciphertexts' = ciphertexts \cup out.stored
      /\ errored' = errored \cup out.failed
      /\ rescheduled' = rescheduled \cup out.missing
      /\ completed' = completed \cup out.complete
      /\ UNCHANGED block
  BY DEF Commit
<1>2. /\ phase' = [phase EXCEPT ![w] = "idle"]
      /\ target' = [target EXCEPT ![w] = {}]
      /\ locked' = [locked EXCEPT ![w] = {}]
      /\ read' = [read EXCEPT ![w] = {}]
  BY DEF Commit, Release
<1>3. locked[w] \in SUBSET Rows /\ locked[w] \subseteq Inserted
  BY DEF WorkerInv, TypeOK, Inserted
<1>4. /\ out.stored \subseteq AllowedRows \cap locked[w]
      /\ out.failed \subseteq locked[w] /\ out.missing \subseteq out.failed
      /\ out.complete \subseteq locked[w]
      /\ out.complete \cap AllowedRows \subseteq out.stored
  BY <1>3, OutcomeRows
<1>5. out.stored \subseteq Computable(ciphertexts)
  <2>1. read[w] \subseteq ciphertexts /\ read[w] \cap Rows \subseteq Computable(ciphertexts)
    BY DEF WorkerInv, ReadIsStored, StoredIsComputable
  <2> QED
    BY <1>3, <2>1, OutcomeComputable
<1> HIDE DEF out
<1>6. Inserted' = Inserted
  BY <1>1 DEF Inserted
<1>7. TypeOK'
  BY <1>1, <1>2, <1>3, <1>4, <1>6 DEF WorkerInv, TypeOK
<1>8. CompletedIsStored'
  BY <1>1, <1>4 DEF WorkerInv, CompletedIsStored
<1>9. StoredIsComputable'
  <2>1. Computable(ciphertexts) \subseteq Computable(ciphertexts')
    BY <1>1, ComputableGrows
  <2>2. (ciphertexts \cup out.stored) \cap Rows \subseteq Computable(ciphertexts)
    BY <1>5 DEF WorkerInv, StoredIsComputable
  <2> QED
    BY <1>1, <2>1, <2>2 DEF StoredIsComputable
<1>10. ReadIsStored'
  BY <1>1, <1>2 DEF WorkerInv, TypeOK, ReadIsStored
<1> QED
  BY <1>7, <1>8, <1>9, <1>10 DEF WorkerInv

(* Every other action keeps the tables or lets them grow.                  *)
LEMMA NextWorkerInv == WorkerInv /\ [Next]_vars => WorkerInv'
<1> SUFFICES ASSUME WorkerInv, [Next]_vars PROVE WorkerInv'
  OBVIOUS
<1> USE DEF WorkerInv
<1>1. CASE InsertBlock
  <2>1. Inserted \subseteq Inserted'
    BY <1>1, WorkerAssumption DEF InsertBlock, TypeOK, Inserted
  <2>2. TypeOK'
    BY <1>1, <2>1 DEF InsertBlock, TypeOK, database, worker
  <2>3. CompletedIsStored' /\ StoredIsComputable' /\ ReadIsStored'
    BY <1>1 DEF InsertBlock, database, worker, CompletedIsStored, StoredIsComputable, ReadIsStored
  <2> QED
    BY <2>2, <2>3
<1>2. ASSUME NEW i \in Inputs, VerifyInput(i) PROVE WorkerInv'
  <2>1. TypeOK'
    BY <1>2 DEF VerifyInput, TypeOK, Inserted, worker
  <2>2. CompletedIsStored' /\ ReadIsStored'
    BY <1>2 DEF VerifyInput, worker, CompletedIsStored, ReadIsStored
  <2>3. StoredIsComputable'
    <3>1. ciphertexts \subseteq ciphertexts' /\ ciphertexts' \cap Rows = ciphertexts \cap Rows
      BY <1>2, WorkerAssumption DEF VerifyInput
    <3>2. Computable(ciphertexts) \subseteq Computable(ciphertexts')
      BY <3>1, ComputableGrows
    <3> QED
      BY <3>1, <3>2 DEF StoredIsComputable
  <2> QED
    BY <2>1, <2>2, <2>3
<1>3. ASSUME NEW w \in Workers, Select(w) PROVE WorkerInv'
  <2>1. TypeOK'
    BY <1>3 DEF Select, TypeOK, Inserted, database
  <2>2. CompletedIsStored' /\ StoredIsComputable' /\ ReadIsStored'
    BY <1>3 DEF Select, database, CompletedIsStored, StoredIsComputable, ReadIsStored
  <2> QED
    BY <2>1, <2>2
<1>4. ASSUME NEW w \in Workers, LockRow(w) PROVE WorkerInv'
  <2>1. PICK r \in target[w] :
            /\ target' = [target EXCEPT ![w] = @ \ {r}]
            /\ locked' = [locked EXCEPT ![w] = IF Free(r) THEN @ \cup {r} ELSE @]
    BY <1>4 DEF LockRow
  <2>2. UNCHANGED <<block, database, phase, read, failures>>
    BY <1>4 DEF LockRow
  <2>3. r \in Inserted
    BY <2>1 DEF TypeOK
  <2>4. TypeOK'
    BY <2>1, <2>2, <2>3 DEF TypeOK, Inserted, Free, database
  <2>5. CompletedIsStored' /\ StoredIsComputable' /\ ReadIsStored'
    BY <2>2 DEF database, CompletedIsStored, StoredIsComputable, ReadIsStored
  <2> QED
    BY <2>4, <2>5
<1>5. ASSUME NEW w \in Workers, ReadInputs(w) PROVE WorkerInv'
  <2>1. /\ UNCHANGED <<block, database, target, locked, failures>>
        /\ phase' \in [Workers -> {"idle", "locking", "computing"}]
        /\ \/ UNCHANGED read
           \/ read' = [read EXCEPT ![w] = NeededHandles(Components[locked[w]]) \cap ciphertexts]
    BY <1>5 DEF ReadInputs, TypeOK
  <2>2. ciphertexts \subseteq Rows \cup Inputs
    BY WorkerAssumption DEF TypeOK
  <2>3. /\ read' \in [Workers -> SUBSET (Rows \cup Inputs)]
        /\ \A v \in Workers : read'[v] \subseteq ciphertexts
    BY <2>1, <2>2 DEF TypeOK, ReadIsStored
  <2>4. TypeOK'
    BY <2>1, <2>3 DEF TypeOK, Inserted, database
  <2>5. CompletedIsStored' /\ StoredIsComputable' /\ ReadIsStored'
    BY <2>1, <2>3 DEF database, CompletedIsStored, StoredIsComputable, ReadIsStored
  <2> QED
    BY <2>4, <2>5
<1>6. ASSUME NEW w \in Workers, Commit(w) PROVE WorkerInv'
  BY <1>6, CommitWorkerInv
<1>7. ASSUME NEW w \in Workers, Rollback(w) PROVE WorkerInv'
  <2>1. TypeOK'
    BY <1>7 DEF Rollback, Release, TypeOK, Inserted, database
  <2>2. CompletedIsStored' /\ StoredIsComputable' /\ ReadIsStored'
    BY <1>7 DEF Rollback, Release, TypeOK, database, CompletedIsStored, StoredIsComputable, ReadIsStored
  <2> QED
    BY <2>1, <2>2
<1>8. CASE UNCHANGED vars
  BY <1>8 DEF vars, database, worker, TypeOK, Inserted, CompletedIsStored, StoredIsComputable, ReadIsStored
<1> QED
  BY <1>1, <1>2, <1>3, <1>4, <1>5, <1>6, <1>7, <1>8 DEF Next

(* The tables and the memory of all workers agree: what a worker read      *)
(* before it computed is still stored when it commits, so that the results *)
(* it writes then are those of stored inputs.                              *)
THEOREM WorkerInvariant == Spec => []WorkerInv
BY InitWorkerInv, NextWorkerInv, PTL DEF Spec

(* No row is locked by two workers, and the flags and the workers' memory  *)
(* have their values: rows are locked one after the other, and released    *)
(* with the commit or the rollback.                                        *)
THEOREM WorkerTypes == Spec => []TypeOK
<1>1. WorkerInv => TypeOK
  BY DEF WorkerInv
<1> QED
  BY <1>1, WorkerInvariant, PTL

(* A completed row that somebody may use has its ciphertext, for any graph *)
(* of transactions, any cut of it by the workers' locks and any failing    *)
(* operations: upload_transaction_graph_results marks as completed only    *)
(* what the scheduler computed.                                            *)
THEOREM CompletedAreStored == Spec => []CompletedIsStored
<1>1. WorkerInv => CompletedIsStored
  BY DEF WorkerInv
<1> QED
  BY <1>1, WorkerInvariant, PTL

(* Nothing is stored that could not be computed: a component runs only     *)
(* with every input that its rows take from outside of it, read from the   *)
(* database or handed on by a component before it.                         *)
THEOREM StoredAreComputable == Spec => []StoredIsComputable
<1>1. WorkerInv => StoredIsComputable
  BY DEF WorkerInv
<1> QED
  BY <1>1, WorkerInvariant, PTL

----------------------------------------------------------------------------
(* The host listener.  The ancestors of a block are read as the listener   *)
(* walks them: from a block to its parent, until the first block.          *)

(* A nonempty set of numbers has a least one.                              *)
LEMMA LeastNumber ==
    ASSUME NEW T \in SUBSET Nat, T # {}
    PROVE  \E m \in T : \A k \in T : m <= k
<1>1. PICK m \in T : \A k \in T : ~(<<k, m>> \in OpToRel(<, Nat))
  BY NatLessThanWellFounded, WFMin, Zenon
<1>2. \A k, l \in Nat : k < l => <<k, l>> \in OpToRel(<, Nat)
  BY DEF OpToRel
<1>3. \A k \in T : ~(k < m)
  BY <1>1, <1>2
<1> QED
  BY <1>3

(* Walking to the parent comes to an end: block numbers go down.           *)
ParentOf == [b \in Blocks |-> IF b = Genesis THEN {} ELSE {Parent[b]}]

LEMMA BlocksFounded == WellFounded(Blocks, ParentOf)
<1>1. ParentOf \in [Blocks -> SUBSET Blocks]
  BY HostListenerAssumption DEF ParentOf
<1>2. ASSUME NEW T \in SUBSET Blocks, T # {}
      PROVE  \E b \in T : ParentOf[b] \cap T = {}
  <2> DEFINE numbers == {Number[b] : b \in T}
  <2>1. numbers \in SUBSET Nat /\ numbers # {}
    BY <1>2, HostListenerAssumption
  <2>2. PICK m \in numbers : \A k \in numbers : m <= k
    <3> HIDE DEF numbers
    <3> QED
      BY <2>1, LeastNumber
  <2>3. PICK b \in T : m = Number[b]
    OBVIOUS
  <2>4. ASSUME NEW a \in ParentOf[b] \cap T
        PROVE  FALSE
    <3>1. b # Genesis /\ a = Parent[b]
      BY <2>4 DEF ParentOf
    <3>2. Number[b] = Number[a] + 1 /\ Number[a] \in Nat
      BY <3>1, HostListenerAssumption
    <3>3. m <= Number[a]
      BY <2>2, <2>4
    <3> QED
      BY <2>3, <3>2, <3>3
  <2> QED
    BY <2>4
<1> QED
  BY <1>1, <1>2 DEF WellFounded

(* The recursion over parents has the solution the listener walks through. *)
LEMMA AncestorsOf ==
    \A b \in Blocks :
        /\ Ancestors[b] \in Seq(Blocks)
        /\ Ancestors[b] = IF b = Genesis THEN <<>> ELSE <<Parent[b]>> \o Ancestors[Parent[b]]
<1> DEFINE Line(f, b) == IF b = Genesis THEN <<>> ELSE <<Parent[b]>> \o f[Parent[b]]
           V == Seq(Blocks)
           G == [p \in Blocks \X [Blocks -> V] |-> Line(p[2], p[1])]
           line == CHOOSE f : f = [b \in Blocks |-> Line(f, b)]
<1>1. Ancestors = line
  BY DEF Ancestors
<1>2. \A b \in Blocks : \A f \in [Blocks -> V] : Line(f, b) \in V
  BY HostListenerAssumption
<1>3. \A b \in Blocks : \A f \in [Blocks -> V] : G[<<b, f>>] = Line(f, b)
  <2> HIDE DEF Line, V
  <2> QED
    OBVIOUS
<1>4. Steps(Blocks, V, ParentOf, G)
  <2>1. G \in [Blocks \X [Blocks -> V] -> V]
    <3> HIDE DEF Line, V
    <3> QED
      BY <1>2
  <2>2. ASSUME NEW b \in Blocks, NEW f \in [Blocks -> V], NEW g \in [Blocks -> V],
               \A y \in ParentOf[b] : f[y] = g[y]
        PROVE  Line(f, b) = Line(g, b)
    BY <2>2 DEF ParentOf
  <2> HIDE DEF G, Line, V
  <2> QED
    BY <1>3, <2>1, <2>2 DEF Steps
<1>5. PICK f \in [Blocks -> V] : \A b \in Blocks : f[b] = G[<<b, f>>]
  <2>1. V # {}
    <3>1. <<>> \in V
      OBVIOUS
    <3> QED
      BY <3>1
  <2> HIDE DEF G, V
  <2> QED
    BY <1>4, <2>1, BlocksFounded, Recursion
<1>6. f = [b \in Blocks |-> Line(f, b)]
  <2> HIDE DEF G, Line, V
  <2> QED
    BY <1>3, <1>5
<1>7. line = [b \in Blocks |-> Line(line, b)]
  <2> HIDE DEF Line
  <2> QED
    BY <1>6
<1> HIDE DEF line
<1>8. \A b \in Blocks : line[b] = Line(line, b)
  <2> HIDE DEF Line
  <2> QED
    BY <1>7
<1> DEFINE T == {b \in Blocks : line[b] \notin V}
<1>9. T = {}
  <2> SUFFICES ASSUME T # {} PROVE FALSE
    OBVIOUS
  <2>1. T \in SUBSET Blocks
    OBVIOUS
  <2>2. PICK b \in T : ParentOf[b] \cap T = {}
    <3> HIDE DEF T
    <3> QED
      BY <2>1, BlocksFounded DEF WellFounded
  <2>3. b \in Blocks /\ line[b] \notin V
    OBVIOUS
  <2>4. b # Genesis => Parent[b] \in Blocks /\ line[Parent[b]] \in V
    BY <2>2, <2>3, HostListenerAssumption DEF ParentOf
  <2>5. Line(line, b) \in V
    BY <2>4
  <2> QED
    BY <1>8, <2>3, <2>5
<1> QED
  BY <1>1, <1>8, <1>9

(* Each ancestor is the parent of the one before it.                       *)
LEMMA Lineage ==
    \A b \in Blocks :
        /\ b # Genesis => Len(Ancestors[b]) > 0 /\ Ancestors[b][1] = Parent[b]
        /\ \A i \in 1 .. Len(Ancestors[b]) : Ancestors[b][i] # Genesis =>
               i < Len(Ancestors[b]) /\ Ancestors[b][i + 1] = Parent[Ancestors[b][i]]
<1> DEFINE First(b) == b # Genesis => Len(Ancestors[b]) > 0 /\ Ancestors[b][1] = Parent[b]
           Further(b) == \A i \in 1 .. Len(Ancestors[b]) : Ancestors[b][i] # Genesis =>
                             i < Len(Ancestors[b]) /\ Ancestors[b][i + 1] = Parent[Ancestors[b][i]]
           T == {b \in Blocks : ~Further(b)}
<1>1. ASSUME NEW b \in Blocks, b # Genesis
      PROVE  /\ Parent[b] \in Blocks /\ Ancestors[Parent[b]] \in Seq(Blocks)
             /\ Ancestors[b] \in Seq(Blocks)
             /\ Len(Ancestors[b]) = Len(Ancestors[Parent[b]]) + 1
             /\ Ancestors[b][1] = Parent[b]
             /\ \A i \in 1 .. Len(Ancestors[Parent[b]]) :
                    Ancestors[b][i + 1] = Ancestors[Parent[b]][i]
  <2>1. Parent[b] \in Blocks
    BY <1>1, HostListenerAssumption
  <2>2. Ancestors[Parent[b]] \in Seq(Blocks) /\ Ancestors[b] \in Seq(Blocks)
    BY <2>1, AncestorsOf
  <2>3. Ancestors[b] = <<Parent[b]>> \o Ancestors[Parent[b]]
    BY <1>1, AncestorsOf
  <2> QED
    BY <2>1, <2>2, <2>3
<1>2. \A b \in Blocks : First(b)
  <2> SUFFICES ASSUME NEW b \in Blocks, b # Genesis
               PROVE  Len(Ancestors[b]) > 0 /\ Ancestors[b][1] = Parent[b]
    OBVIOUS
  <2> QED
    BY <1>1
<1>3. T = {}
  <2> SUFFICES ASSUME T # {} PROVE FALSE
    OBVIOUS
  <2>1. T \in SUBSET Blocks
    OBVIOUS
  <2>2. PICK b \in T : ParentOf[b] \cap T = {}
    <3> HIDE DEF T
    <3> QED
      BY <2>1, BlocksFounded DEF WellFounded
  <2>3. b \in Blocks /\ ~Further(b)
    OBVIOUS
  <2>4. CASE b = Genesis
    <3>1. Ancestors[b] = <<>>
      BY <2>3, <2>4, AncestorsOf
    <3> QED
      BY <2>3, <3>1
  <2>5. CASE b # Genesis
    <3> DEFINE p == Parent[b]
    <3>1. p \in Blocks /\ p \notin T
      BY <1>1, <2>2, <2>3, <2>5 DEF ParentOf
    <3>2. Further(p) /\ First(p)
      BY <1>2, <3>1
    <3>3. ASSUME NEW i \in 1 .. Len(Ancestors[b]), Ancestors[b][i] # Genesis
          PROVE  i < Len(Ancestors[b]) /\ Ancestors[b][i + 1] = Parent[Ancestors[b][i]]
      <4>0. /\ Ancestors[p] \in Seq(Blocks)
            /\ Ancestors[b] \in Seq(Blocks)
            /\ Len(Ancestors[b]) = Len(Ancestors[p]) + 1
            /\ Ancestors[b][1] = p
            /\ \A j \in 1 .. Len(Ancestors[p]) : Ancestors[b][j + 1] = Ancestors[p][j]
        BY <1>1, <2>3, <2>5
      <4> HIDE DEF p
      <4>1. CASE i = 1
        BY <3>2, <3>3, <4>0, <4>1
      <4>2. CASE i > 1
        <5>1. i - 1 \in 1 .. Len(Ancestors[p]) /\ Ancestors[b][i] = Ancestors[p][i - 1]
          BY <4>0, <4>2
        <5>2. i - 1 < Len(Ancestors[p]) /\ Ancestors[p][i] = Parent[Ancestors[p][i - 1]]
          BY <3>2, <3>3, <5>1
        <5>3. i \in 1 .. Len(Ancestors[p]) /\ i < Len(Ancestors[b])
          BY <4>0, <4>2, <5>2
        <5> QED
          BY <4>0, <5>1, <5>2, <5>3
      <4> QED
        BY <4>0, <4>1, <4>2
    <3> QED
      BY <2>3, <3>3
  <2> QED
    BY <2>4, <2>5
<1> QED
  BY <1>2, <1>3

(* The search collects a stretch of the ancestors, from the parent on.     *)
LEMMA MissingStretch ==
    ASSUME NEW b \in Blocks
    PROVE  \E m \in 0 .. Len(Ancestors[b]) : MissingAncestors(b) = SubSeq(Ancestors[b], 1, m)
<1> DEFINE n == Min({MaxReorg, Len(Ancestors[b])})
           unknown == {k \in 0 .. n : \A i \in 1 .. k : ~IsKnown(Ancestors[b][i])}
           left == {n - k : k \in unknown}
<1>1. Len(Ancestors[b]) \in Nat
  BY AncestorsOf
<1>2. n \in 0 .. Len(Ancestors[b])
  <2>1. MaxReorg \in Nat
    BY HostListenerAssumption
  <2>2. \E x \in {MaxReorg, Len(Ancestors[b])} : \A y \in {MaxReorg, Len(Ancestors[b])} : x <= y
    BY <1>1, <2>1
  <2>3. /\ n \in {MaxReorg, Len(Ancestors[b])}
        /\ \A y \in {MaxReorg, Len(Ancestors[b])} : n <= y
    BY <2>2 DEF Min
  <2> HIDE DEF n
  <2> QED
    BY <1>1, <2>1, <2>3
<1> HIDE DEF n
<1>3. n \in Nat /\ n <= Len(Ancestors[b])
  BY <1>1, <1>2
<1>4. 0 \in unknown /\ unknown \subseteq 0 .. n
  BY <1>2
<1> HIDE DEF unknown
<1>5. left \in SUBSET Nat /\ left # {}
  BY <1>1, <1>2, <1>4
<1>6. PICK l \in left : \A k \in left : l <= k
  <2> HIDE DEF left
  <2> QED
    BY <1>5, LeastNumber
<1>7. PICK m \in unknown : l = n - m
  OBVIOUS
<1>8. \A k \in unknown : m >= k
  <2> SUFFICES ASSUME NEW k \in unknown PROVE m >= k
    OBVIOUS
  <2>1. n - k \in left
    OBVIOUS
  <2> QED
    <3> HIDE DEF left
    <3>1. l <= n - k
      BY <1>6, <2>1
    <3>2. m \in Nat /\ k \in Nat
      BY <1>2, <1>4
    <3> QED
      BY <1>7, <1>3, <3>1, <3>2
<1>9. Max(unknown) \in unknown
  BY <1>7, <1>8 DEF Max
<1>10. Max(unknown) \in 0 .. Len(Ancestors[b])
  <2>1. Max(unknown) \in 0 .. n
    BY <1>4, <1>9
  <2> QED
    BY <1>1, <1>3, <2>1
<1> QED
  BY <1>10 DEF MissingAncestors, unknown, n

(* A sequence with one more element.                                       *)
LEMMA AppendRange ==
    ASSUME NEW S, NEW s \in Seq(S), NEW x \in S
    PROVE  Append(s, x) \in Seq(S) /\ Range(Append(s, x)) = Range(s) \cup {x}
<1>1. /\ Append(s, x) \in Seq(S) /\ Len(Append(s, x)) = Len(s) + 1 /\ Len(s) \in Nat
      /\ \A i \in 1 .. Len(s) : Append(s, x)[i] = s[i]
      /\ Append(s, x)[Len(s) + 1] = x
  OBVIOUS
<1>2. DOMAIN s = 1 .. Len(s) /\ DOMAIN Append(s, x) = 1 .. Len(s) + 1
  BY <1>1
<1>3. \A y : y \in Range(Append(s, x)) <=> \E i \in 1 .. Len(s) + 1 : y = Append(s, x)[i]
  BY <1>2 DEF Range
<1>4. \A y : y \in Range(s) <=> \E i \in 1 .. Len(s) : y = s[i]
  BY <1>2 DEF Range
<1>5. \A i \in 1 .. Len(s) + 1 : i \in 1 .. Len(s) \/ i = Len(s) + 1
  BY <1>1
<1>6. \A i \in 1 .. Len(s) : i \in 1 .. Len(s) + 1
  BY <1>1
<1>7. Len(s) + 1 \in 1 .. Len(s) + 1
  BY <1>1
<1>8. ASSUME NEW y
      PROVE  y \in Range(Append(s, x)) <=> y \in Range(s) \cup {x}
  <2>1. CASE y \in Range(Append(s, x))
    BY <1>1, <1>3, <1>4, <1>5, <2>1
  <2>2. CASE y \in Range(s)
    BY <1>1, <1>3, <1>4, <1>6, <2>2
  <2>3. CASE y = x
    BY <1>1, <1>3, <1>7, <2>3
  <2> QED
    BY <2>1, <2>2, <2>3
<1> QED
  BY <1>1, <1>8

(* What is read of a list of blocks are those that were not skipped.       *)
LEMMA ReadLogsRange ==
    ASSUME NEW missing \in Seq(Blocks), NEW skipped
    PROVE  /\ ReadLogs(missing, skipped) \in Seq(Blocks)
           /\ Range(ReadLogs(missing, skipped)) = Range(missing) \ skipped
<1> DEFINE n == Len(missing)
           S == 0 .. n
           Logs(f, i) == IF i = 0 THEN <<>>
                         ELSE IF missing[i] \in skipped THEN f[i - 1]
                         ELSE Append(f[i - 1], missing[i])
           V == Seq(Blocks)
           below == [i \in S |-> {j \in S : j = i - 1}]
           G == [p \in S \X [S -> V] |-> Logs(p[2], p[1])]
           logs == CHOOSE f : f = [i \in S |-> Logs(f, i)]
           Upto(i) == {missing[j] : j \in 1 .. i}
<1>1. ReadLogs(missing, skipped) = logs[n]
  BY DEF ReadLogs
<1>2. n \in Nat /\ \A i \in 1 .. n : missing[i] \in Blocks
  OBVIOUS
<1> HIDE DEF n
<1>3. WellFounded(S, below)
  <2>1. below \in [S -> SUBSET S]
    OBVIOUS
  <2>2. ASSUME NEW T \in SUBSET S, T # {}
        PROVE  \E i \in T : below[i] \cap T = {}
    <3>1. T \in SUBSET Nat
      BY <1>2
    <3>2. PICK i \in T : \A k \in T : i <= k
      <4> HIDE DEF S
      <4> QED
        BY <2>2, <3>1, LeastNumber
    <3>3. i \in Nat /\ i - 1 \notin T
      BY <3>1, <3>2
    <3> QED
      BY <3>3
  <2> QED
    BY <2>1, <2>2 DEF WellFounded
<1>4. \A i \in S : \A f \in [S -> V] : Logs(f, i) \in V
  <2>1. ASSUME NEW i \in S, NEW f \in [S -> V], i # 0
        PROVE  Logs(f, i) \in V
    <3>1. i - 1 \in S /\ missing[i] \in Blocks
      BY <1>2, <2>1
    <3>2. f[i - 1] \in V
      BY <3>1
    <3>3. Append(f[i - 1], missing[i]) \in V
      BY <3>1, <3>2
    <3> QED
      BY <2>1, <3>2, <3>3
  <2>2. \A f : Logs(f, 0) \in V
    OBVIOUS
  <2> HIDE DEF Logs, V
  <2> QED
    BY <2>1, <2>2
<1>5. \A i \in S : \A f \in [S -> V] : G[<<i, f>>] = Logs(f, i)
  <2> HIDE DEF Logs, V, S
  <2> QED
    OBVIOUS
<1>6. Steps(S, V, below, G)
  <2>1. G \in [S \X [S -> V] -> V]
    <3> HIDE DEF Logs, V, S
    <3> QED
      BY <1>4
  <2>2. ASSUME NEW i \in S, NEW f \in [S -> V], NEW g \in [S -> V],
               \A y \in below[i] : f[y] = g[y]
        PROVE  Logs(f, i) = Logs(g, i)
    <3>1. i # 0 => f[i - 1] = g[i - 1]
      BY <1>2, <2>2
    <3> QED
      BY <3>1
  <2> HIDE DEF G, Logs, V, S, below
  <2> QED
    BY <1>5, <2>1, <2>2 DEF Steps
<1>7. PICK f \in [S -> V] : \A i \in S : f[i] = G[<<i, f>>]
  <2>1. V # {}
    <3>1. <<>> \in V
      OBVIOUS
    <3> QED
      BY <3>1
  <2> HIDE DEF G, V, S, below
  <2> QED
    BY <1>3, <1>6, <2>1, Recursion
<1>8. f = [i \in S |-> Logs(f, i)]
  <2> HIDE DEF G, Logs, V, S
  <2> QED
    BY <1>5, <1>7
<1>9. logs = [i \in S |-> Logs(logs, i)]
  <2> HIDE DEF Logs, S
  <2> QED
    BY <1>8
<1> HIDE DEF logs
<1>10. \A i \in S : logs[i] = Logs(logs, i)
  <2> HIDE DEF Logs, S
  <2> QED
    BY <1>9
<1> DEFINE Right(i) == logs[i] \in V /\ Range(logs[i]) = Upto(i) \ skipped
           T == {i \in S : ~Right(i)}
<1>11. T = {}
  <2> SUFFICES ASSUME T # {} PROVE FALSE
    OBVIOUS
  <2>1. T \in SUBSET S
    OBVIOUS
  <2>2. PICK i \in T : below[i] \cap T = {}
    <3> HIDE DEF T, S, below
    <3> QED
      BY <1>3, <2>1 DEF WellFounded
  <2>3. i \in S /\ ~Right(i)
    OBVIOUS
  <2>4. CASE i = 0
    <3>1. logs[i] = <<>>
      BY <1>10, <2>3, <2>4
    <3>2. Range(<<>>) = {} /\ Upto(i) = {}
      BY <2>4 DEF Range
    <3>3. <<>> \in V
      OBVIOUS
    <3> HIDE DEF Upto, V
    <3>4. Right(i)
      BY <3>1, <3>2, <3>3
    <3> QED
      BY <2>3, <3>4
  <2>5. CASE i # 0
    <3>1. i - 1 \in S /\ i \in Nat /\ missing[i] \in Blocks
      BY <1>2, <2>3, <2>5
    <3>2. Right(i - 1)
      <4>1. i - 1 \in below[i]
        BY <2>3, <3>1
      <4> HIDE DEF Right, S, below
      <4> QED
        BY <2>2, <3>1, <4>1
    <3>3. logs[i] = IF missing[i] \in skipped THEN logs[i - 1] ELSE Append(logs[i - 1], missing[i])
      BY <1>10, <2>3, <2>5
    <3>4. Upto(i) = Upto(i - 1) \cup {missing[i]}
      <4>1. 1 .. i = (1 .. i - 1) \cup {i}
        BY <2>5, <3>1
      <4> QED
        BY <4>1
    <3> HIDE DEF Upto
    <3>5. missing[i] \notin skipped =>
              Append(logs[i - 1], missing[i]) \in V
              /\ Range(Append(logs[i - 1], missing[i])) = Range(logs[i - 1]) \cup {missing[i]}
      BY <3>1, <3>2, AppendRange
    <3>6. Right(i)
      BY <3>2, <3>3, <3>4, <3>5
    <3> QED
      BY <2>3, <3>6
  <2> QED
    BY <2>4, <2>5
<1>12. n \in S
  BY <1>2
<1>13. Right(n)
  BY <1>11, <1>12
<1>14. Upto(n) = Range(missing)
  BY DEF n, Range
<1> QED
  BY <1>1, <1>13, <1>14

(* Turning the list round, oldest block first, loses nothing.              *)
LEMMA ReverseRange ==
    ASSUME NEW S, NEW s \in Seq(S)
    PROVE  Reverse(s) \in Seq(S) /\ Range(Reverse(s)) = Range(s)
<1>1. Len(s) \in Nat /\ DOMAIN s = 1 .. Len(s) /\ \A i \in 1 .. Len(s) : s[i] \in S
  OBVIOUS
<1>2. \A i \in 1 .. Len(s) : (Len(s) - i) + 1 \in 1 .. Len(s)
  BY <1>1
<1>3. Reverse(s) \in [1 .. Len(s) -> S]
  BY <1>1, <1>2 DEF Reverse
<1>4. Reverse(s) \in Seq(S)
  BY <1>1, <1>3, SeqDef
<1>5. ASSUME NEW y \in Range(s)
      PROVE  y \in Range(Reverse(s))
  <2>1. PICK i \in 1 .. Len(s) : y = s[i]
    BY <1>1 DEF Range
  <2> DEFINE j == (Len(s) - i) + 1
  <2>2. j \in 1 .. Len(s) /\ (Len(s) - j) + 1 = i
    BY <1>1
  <2>3. Reverse(s)[j] = y
    BY <2>1, <2>2 DEF Reverse
  <2> QED
    BY <1>3, <2>2, <2>3 DEF Range
<1>6. ASSUME NEW y \in Range(Reverse(s))
      PROVE  y \in Range(s)
  <2>1. PICK i \in 1 .. Len(s) : y = Reverse(s)[i]
    BY <1>3 DEF Range
  <2>2. y = s[(Len(s) - i) + 1]
    BY <2>1 DEF Reverse
  <2> QED
    BY <1>1, <1>2, <2>2 DEF Range
<1> QED
  BY <1>4, <1>5, <1>6

(* A new block of a history that can tell: each block that becomes known   *)
(* has its parent among the ones found next to it, or it is the oldest one *)
(* found, and then its parent is known or the search was cut short.        *)
LEMMA MissingAncestorsFollowed ==
    ASSUME NEW b \in Blocks, CheckMissingAncestors(b), seen = MinimumHistorySize
    PROVE  \A a \in known' \ known : a # Genesis =>
               a \in Range(queue') /\ Parent[a] \in known' \cup lost' \cup valid
<1> DEFINE A == Ancestors[b]
           M == MissingAncestors(b)
           Found(k) == SubSeq(M, 1, k)
           Oldest(k) == IF k = 0 THEN b ELSE Found(k)[k]
           Ended(k) == Oldest(k) = Genesis \/ IsKnown(Parent[Oldest(k)])
           Cut(k) == IF Ended(k) THEN {} ELSE Range(Ancestors[Oldest(k)])
<1>1. \E k \in 0 .. Len(M) : \E skipped \in SUBSET Range(Found(k)) :
          /\ queue' = AncestorsFirst(ReadLogs(Reverse(Found(k)), skipped), b)
          /\ known' = known \cup {b} \cup (Range(Found(k)) \ skipped)
          /\ lost' = lost \cup ((skipped \cup Cut(k)) \ valid)
  <2>1. ~(seen < MinimumHistorySize)
    BY DEF MinimumHistorySize
  <2> QED
    BY <2>1 DEF CheckMissingAncestors
<1>2. PICK k \in 0 .. Len(M) : \E skipped \in SUBSET Range(Found(k)) :
          /\ queue' = AncestorsFirst(ReadLogs(Reverse(Found(k)), skipped), b)
          /\ known' = known \cup {b} \cup (Range(Found(k)) \ skipped)
          /\ lost' = lost \cup ((skipped \cup Cut(k)) \ valid)
  BY <1>1
<1> DEFINE found == Found(k)
<1>3. PICK skipped \in SUBSET Range(found) :
          /\ queue' = AncestorsFirst(ReadLogs(Reverse(found), skipped), b)
          /\ known' = known \cup {b} \cup (Range(found) \ skipped)
          /\ lost' = lost \cup ((skipped \cup Cut(k)) \ valid)
  BY <1>2
<1>4. A \in Seq(Blocks) /\ Len(A) \in Nat
  <2>1. A \in Seq(Blocks)
    BY AncestorsOf
  <2> HIDE DEF A
  <2> QED
    BY <2>1
<1>5. /\ found \in Seq(Blocks) /\ Len(found) = k /\ k \in 0 .. Len(A)
      /\ \A i \in 1 .. k : found[i] = A[i]
  <2>1. PICK m \in 0 .. Len(A) : M = SubSeq(A, 1, m)
    BY MissingStretch
  <2> HIDE DEF A, M
  <2>2. M \in Seq(Blocks) /\ Len(M) = m /\ \A i \in 1 .. m : M[i] = A[i]
    BY <1>4, <2>1
  <2>3. k \in 0 .. m /\ k \in Nat
    BY <1>4, <2>2
  <2> QED
    BY <1>4, <2>2, <2>3
<1>6. Range(found) = {A[i] : i \in 1 .. k}
  <2> HIDE DEF A, Found
  <2>1. DOMAIN found = 1 .. k
    BY <1>5
  <2> QED
    BY <1>5, <2>1 DEF Range
<1>7. Range(queue') = (Range(found) \ skipped) \cup {b}
  <2> HIDE DEF Found
  <2>1. Reverse(found) \in Seq(Blocks) /\ Range(Reverse(found)) = Range(found)
    BY <1>5, ReverseRange
  <2>2. /\ ReadLogs(Reverse(found), skipped) \in Seq(Blocks)
        /\ Range(ReadLogs(Reverse(found), skipped)) = Range(found) \ skipped
    BY <2>1, ReadLogsRange
  <2> QED
    BY <1>3, <2>2, AppendRange DEF AncestorsFirst
<1>8. ASSUME NEW p \in Range(found) PROVE p \in known' \cup lost' \cup valid
  BY <1>3, <1>8
<1>9. Oldest(k) \in Blocks
  <2> HIDE DEF Found
  <2>1. k # 0 => k \in 1 .. k
    BY <1>5
  <2> QED
    BY <1>5, <2>1
<1>10. ASSUME Oldest(k) # Genesis
       PROVE  Parent[Oldest(k)] \in known' \cup lost' \cup valid
  <2> HIDE DEF Oldest, Found
  <2>1. CASE IsKnown(Parent[Oldest(k)])
    BY <1>3, <2>1 DEF IsKnown
  <2>2. CASE ~IsKnown(Parent[Oldest(k)])
    <3>1. Cut(k) = Range(Ancestors[Oldest(k)])
      BY <1>10, <2>2
    <3>2. /\ Ancestors[Oldest(k)] \in Seq(Blocks)
          /\ Len(Ancestors[Oldest(k)]) > 0
          /\ Ancestors[Oldest(k)][1] = Parent[Oldest(k)]
      BY <1>9, <1>10, AncestorsOf, Lineage
    <3>3. Parent[Oldest(k)] \in Range(Ancestors[Oldest(k)])
      <4>1. 1 \in DOMAIN Ancestors[Oldest(k)]
        BY <3>2
      <4> QED
        BY <3>2, <4>1 DEF Range
    <3> HIDE DEF Cut
    <3> QED
      BY <1>3, <3>1, <3>3
  <2> QED
    BY <2>1, <2>2
<1>11. ASSUME NEW a, a = b \/ a \in Range(found), a # Genesis
       PROVE  Parent[a] \in known' \cup lost' \cup valid
  <2>1. CASE a = Oldest(k)
    BY <1>10, <1>11, <2>1
  <2>2. CASE a # Oldest(k) /\ a = b
    <3>1. k # 0
      BY <2>2
    <3>2. A[1] = Parent[b] /\ 1 \in 1 .. k
      BY <1>5, <1>11, <2>2, <3>1, Lineage
    <3> QED
      BY <1>6, <1>8, <2>2, <3>2
  <2>3. CASE a # Oldest(k) /\ a \in Range(found)
    <3>1. PICK i \in 1 .. k : a = A[i]
      BY <1>6, <2>3
    <3>2. k # 0 /\ i # k
      <4>1. k # 0
        BY <1>5, <3>1
      <4>2. k \in 1 .. k
        BY <1>5, <4>1
      <4> QED
        BY <1>5, <2>3, <3>1, <4>1, <4>2
    <3>3. i + 1 \in 1 .. k /\ i \in 1 .. Len(A)
      BY <1>4, <1>5, <3>1, <3>2
    <3>4. A[i + 1] = Parent[a]
      BY <1>11, <3>1, <3>3, Lineage
    <3> QED
      BY <1>6, <1>8, <3>3, <3>4
  <2> QED
    BY <1>11, <2>1, <2>2, <2>3
<1> QED
  BY <1>3, <1>7, <1>11

(* The head and the headers in the stream are blocks of the chain.         *)
HeadersOK == head \in Blocks /\ inbox \in Seq(Blocks)

(* Only blocks of the chain become its head or enter the stream.           *)
LEMMA HeadersInv == HeadersOK /\ [HostNext]_hostVars => HeadersOK'
<1> SUFFICES ASSUME HeadersOK, [HostNext]_hostVars PROVE HeadersOK'
  OBVIOUS
<1> USE DEF HeadersOK
<1>1. ASSUME NEW b \in Blocks, SetHead(b) PROVE HeadersOK'
  BY <1>1 DEF SetHead
<1>2. CASE NewBlock
  BY <1>1, <1>2 DEF NewBlock
<1>3. CASE Reorg
  BY <1>1, <1>3 DEF Reorg
<1>4. CASE NewLogStream
  BY <1>4 DEF NewLogStream
<1>5. CASE ConsumeCatchupBlocks
  BY <1>5 DEF ConsumeCatchupBlocks
<1>6. CASE CatchupFails
  BY <1>6 DEF CatchupFails
<1>7. CASE NextBlock
  BY <1>7 DEF NextBlock
<1>8. CASE LoseHeader
  BY <1>8 DEF LoseHeader
<1>9. CASE StreamFails
  BY <1>9 DEF StreamFails
<1>10. CASE DbInsertBlock
  BY <1>10 DEF DbInsertBlock
<1>11. CASE CrashListener
  BY <1>11 DEF CrashListener, StartProcess
<1>12. CASE UNCHANGED hostVars
  BY <1>12 DEF hostVars, memory
<1> QED
  BY <1>2, <1>3, <1>4, <1>5, <1>6, <1>7, <1>8, <1>9, <1>10, <1>11, <1>12 DEF HostNext

(* On any tree of blocks, through reorganisations, lost headers, timeouts, *)
(* failures and crashes: check_missing_ancestors leaves no hole in the     *)
(* branch of a block that it adds to the history.                          *)
THEOREM BranchesFollowed == HostSpec => NewBranchFollowed
<1> DEFINE Follows == \A b \in known' \ known :
                          seen = MinimumHistorySize /\ b # Genesis =>
                              /\ b \in Range(queue')
                              /\ Parent[b] \in known' \cup lost' \cup valid
<1>1. HostInit => HeadersOK
  BY HostListenerAssumption DEF HostInit, HeadersOK
<1>2. HeadersOK /\ [HostNext]_hostVars => [Follows]_hostVars
  <2> SUFFICES ASSUME HeadersOK, HostNext PROVE Follows
    OBVIOUS
  <2>1. CASE NextBlock
    <3>1. PICK b \in Blocks : CheckMissingAncestors(b)
      BY <2>1 DEF NextBlock, HeadersOK
    <3> QED
      BY <3>1, MissingAncestorsFollowed
  <2>2. CASE ~NextBlock
    <3>1. known' \ known = {}
      BY <2>2 DEF HostNext, NewBlock, Reorg, SetHead, NewLogStream, ConsumeCatchupBlocks,
             CatchupFails, LoseHeader, StreamFails, DbInsertBlock, CrashListener, StartProcess
    <3> QED
      BY <3>1
  <2> QED
    BY <2>1, <2>2
<1> QED
  BY <1>1, <1>2, HeadersInv, PTL DEF HostSpec, NewBranchFollowed
=============================================================================
