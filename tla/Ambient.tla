------------------------------ MODULE Ambient ------------------------------
(***************************************************************************)
(* The context that code reads where it runs: the bags of engine/context.ts *)
(* and the helpers of run/index.ts that open scopes and run tasks in the    *)
(* current one.  A bag is one entry over another bag.  A budget that is     *)
(* installed becomes a cell of the bag, whoever reads it gets a copy, and   *)
(* only a charge changes the cell.                                          *)
(*                                                                          *)
(* Budgets are objects of a heap, those of the callers and the cells of the *)
(* bags alike, so that a forgotten copy shows as an object in two places.   *)
(* Which scope a refused charge cancels is said in the second part.         *)
(***************************************************************************)
EXTENDS Integers, Sequences, FiniteSets

CONSTANTS
  AmbKeys,      \* names of keys: the storage identity
  AmbDefaults,  \* the default of each key, or "missing"
  AmbLimit,     \* the limit of every budget
  AmbScopes,    \* bound: scopes that are opened
  AmbObjects    \* bound: budgets that are ever made

ASSUME AmbientAssumption ==
  /\ AmbDefaults \in [AmbKeys -> {"missing", "default"}]
  /\ {AmbLimit, AmbScopes, AmbObjects} \subseteq Nat

VARIABLES
  ambScope,    \* the context of each scope, in the order of opening
  ambBag,      \* the bags: an entry and the bag below it
  ambSpent,    \* spent of every budget, installed or held by a caller
  ambTold,     \* what each scope was told to show: the values of its parent, but for the one installed
  ambPaid      \* of every budget that is a cell, what it held when it was installed and the charges since; -1 for the others

ambVars == <<ambScope, ambBag, ambSpent, ambTold, ambPaid>>

\* A value that is installed is a budget, by its place in the heap, or undefined,
\* which stands for everything that is not a budget.
Missing == 0
Unset == -1

\* 0 stands for no scope, and for the empty bag.
AmbientInit ==
  /\ ambScope = <<>> /\ ambBag = <<>> /\ ambTold = <<>>
  /\ ambSpent = <<0>>
  /\ ambPaid = <<-1>>

Objects == DOMAIN ambSpent
Currents == 0..Len(ambScope)
----------------------------------------------------------------------------
\* context.current(): the context of the current scope, or an empty bag.
Context(s) == IF s = 0 THEN 0 ELSE ambScope[s]
ToldTo(s) == IF s = 0 THEN [k \in AmbKeys |-> Missing] ELSE ambTold[s]

\* find: the innermost entry.  get, getOrThrow and has read it.
Find(bag, key) ==
  LET From[b \in 0..Len(ambBag)] ==
        IF b = 0 THEN Missing ELSE IF ambBag[b].key = key THEN ambBag[b].value ELSE From[ambBag[b].below]
  IN From[bag]
Has(bag, key) == Find(bag, key) # Missing
Reads(bag, key) == IF ~Has(bag, key) THEN AmbDefaults[key]
                   ELSE IF Find(bag, key) = Unset THEN "missing" ELSE "value"
GetThrows(bag, key) == Reads(bag, key) = "missing"

\* entriesSnapshot: from the outermost bag to the innermost.
EntriesSnapshot(bag) ==
  LET From[b \in 0..Len(ambBag)] ==
        IF b = 0 THEN [k \in AmbKeys |-> Missing] ELSE [From[ambBag[b].below] EXCEPT ![ambBag[b].key] = ambBag[b].value]
  IN From[bag]
----------------------------------------------------------------------------
\* new ScopeImpl(parent, { context }).
OpenScope(context, told) ==
  /\ Len(ambScope) < AmbScopes
  /\ ambScope' = Append(ambScope, context)
  /\ ambTold' = Append(ambTold, told)

\* toStoredValue: a budget is stored as a copy, in the last place of the heap.
Cloned(object) ==
  /\ Len(ambSpent) < AmbObjects
  /\ ambSpent' = Append(ambSpent, ambSpent[object])
StoredAsGiven(object) == object
StoredAs(object) == Len(ambSpent) + 1

\* with(key, value) of a bag; a budget that has spent more than its limit is refused.
Extended(bag, key, value) == Append(ambBag, [key |-> key, value |-> value, below |-> bag])
ValidBudget(value) == value \in Objects => ambSpent[value] <= AmbLimit

\* context.with(key, value, body): a group whose context has one more entry.
With(s, key, value) ==
  LET stored == IF value \in Objects THEN StoredAs(value) ELSE value
      told == [ToldTo(s) EXCEPT ![key] = stored]
  IN /\ ValidBudget(value) /\ ambBag' = Extended(Context(s), key, stored)
     /\ OpenScope(Len(ambBag) + 1, told)
     /\ IF value \in Objects
        THEN Cloned(value) /\ ambPaid' = [Append(ambPaid, -1) EXCEPT ![stored] = ambSpent[value]]
        ELSE UNCHANGED <<ambSpent, ambPaid>>

\* group() and scope() open a scope below the current one.
Group(s) == OpenScope(Context(s), ToldTo(s)) /\ UNCHANGED <<ambBag, ambSpent, ambPaid>>

\* detached(), and supervise() where no scope is current: a root scope of its own,
\* with an empty context.  background(), and supervise() elsewhere, run a task in the
\* current scope and open none.
Detach == OpenScope(0, ToldTo(0)) /\ UNCHANGED <<ambBag, ambSpent, ambPaid>>

\* context.get(key) and context.budget(key) hand a budget out as a copy.
Read(s, key) ==
  /\ Find(Context(s), key) \in Objects /\ Cloned(Find(Context(s), key))
  /\ ambPaid' = Append(ambPaid, -1)
  /\ UNCHANGED <<ambScope, ambBag, ambTold>>

\* A caller writes to a budget it holds.
Write(object, spent) ==
  /\ object = 1 \/ ambPaid[object] = -1
  /\ ambSpent' = [ambSpent EXCEPT ![object] = spent]
  /\ UNCHANGED <<ambScope, ambBag, ambTold, ambPaid>>

\* ctx.consume(key, amount): a charge over the limit changes
\* nothing here, and throws, as does one without the budget.
MutableBudget(bag, key) == Find(bag, key)
Consume(s, key, amount) ==
  LET cell == MutableBudget(Context(s), key)
  IN /\ cell \in Objects /\ ambSpent[cell] + amount <= AmbLimit
     /\ ambSpent' = [ambSpent EXCEPT ![cell] = @ + amount]
     /\ ambPaid' = [ambPaid EXCEPT ![ToldTo(s)[key]] = @ + amount]
     /\ UNCHANGED <<ambScope, ambBag, ambTold>>

AmbientNext ==
  \/ \E s \in Currents :
       \/ \E k \in AmbKeys :
            \/ \E v \in Objects \cup {Unset} : With(s, k, v)
            \/ Read(s, k)
            \/ s # 0 /\ Consume(s, k, 1)
       \/ Group(s)
  \/ Detach
  \/ \E o \in Objects : Write(o, AmbLimit + 1)
----------------------------------------------------------------------------
\* Every scope shows what it was told to, whatever is installed below it or beside
\* it and in whatever order, and an inspection shows the same.
ScopesShowTheirs ==
  \A s \in DOMAIN ambScope :
    LET b == ambScope[s]
    IN /\ \A k \in AmbKeys : Find(b, k) = ambTold[s][k] /\ (Has(b, k) => GetThrows(b, k) = (ambTold[s][k] = Unset))
       /\ EntriesSnapshot(b) = ambTold[s]

\* A cell holds what was installed and the charges of the scopes that show it, and
\* never more than its limit: no caller reaches it with a budget it installed or read.
CellsHoldCharges ==
  \A o \in Objects : ambPaid[o] # -1 => ambSpent[o] = ambPaid[o] /\ ambSpent[o] <= AmbLimit

\* What code reads where it runs is what was installed around it.
AmbientTruth == ScopesShowTheirs /\ CellsHoldCharges
----------------------------------------------------------------------------
(***************************************************************************)
(* Which scope a refused charge cancels: a context bag maps a key to a cell *)
(* with a limit and what is spent.  Scopes take the bag of their parent, or *)
(* one that was given to them, so that a cell may be seen by many scopes,   *)
(* and by some that are not neighbours.  A charge over the limit cancels    *)
(* the scope that owns the cell, which findBudgetOwner (engine/scope.ts)    *)
(* looks for among the ancestors of the one that charges.                   *)
(***************************************************************************)
CONSTANTS
  BudScopes,   \* how many scopes; a scope is opened after its parent
  BudCells,    \* how many cells; 0 stands for none
  BudLimit     \* the limit of every cell

ASSUME BudgetsAssumption == {BudScopes, BudCells} \subseteq Nat \ {0} /\ BudLimit \in Nat

VARIABLES
  budParent,   \* of each scope, 0 for none
  budCell,     \* the cell that the context of each scope shows under the key
  budSpent,    \* state.spent of each cell
  budAborted,  \* scopes whose signal is aborted
  budRefused   \* scopes that had a charge refused

budVars == <<budParent, budCell, budSpent, budAborted, budRefused>>

Cells == 1..BudCells
TheScopes == 1..BudScopes

\* Every forest and every way to hand cells to its scopes, or one of them.
BudgetsInit(all) ==
  /\ budParent \in IF all THEN {p \in [TheScopes -> 0..BudScopes] : \A s \in TheScopes : p[s] < s}
                          ELSE {[s \in TheScopes |-> 0]}
  /\ budCell \in IF all THEN [TheScopes -> 0..BudCells] ELSE {[s \in TheScopes |-> 0]}
  /\ budSpent = [c \in Cells |-> 0]
  /\ budAborted = {} /\ budRefused = {}
----------------------------------------------------------------------------
\* A scope with its ancestors, and those among them up to which all show its cell.
Lineage[s \in 0..BudScopes] == IF s = 0 THEN {} ELSE {s} \cup Lineage[budParent[s]]
Below(s) == {d \in TheScopes : s \in Lineage[d]}
SameCellUpTo(s, a) == \A b \in Lineage[s] : b >= a => budCell[b] = budCell[s]

\* findBudgetOwner: the walk up ends at the first scope whose parent does not
\* show the cell.
OwnerIsLeaf(s) == s
Owner(s) == CHOOSE a \in Lineage[s] :
  /\ SameCellUpTo(s, a)
  /\ budParent[a] = 0 \/ budCell[budParent[a]] # budCell[s]

\* ctx.consume in a task of scope s.  A scope without the budget throws.
Charge(s, amount) ==
  LET c == budCell[s]
      over == budSpent[c] + amount > BudLimit
  IN /\ c # 0
     /\ budSpent' = IF over THEN budSpent ELSE [budSpent EXCEPT ![c] = @ + amount]
     /\ budRefused' = IF over THEN budRefused \cup {s} ELSE budRefused
     /\ budAborted' = IF over THEN budAborted \cup Below(Owner(s)) ELSE budAborted
     /\ UNCHANGED <<budParent, budCell>>

BudgetsNext == \E s \in TheScopes, amount \in 1..(BudLimit + 1) : Charge(s, amount)
----------------------------------------------------------------------------
\* The scopes that are cancelled with a scope set when one of it had a charge
\* refused: those that show the same cell and hang together, and all below.
Neighbours(s, d) == budCell[s] = budCell[d] /\ (budParent[s] = d \/ budParent[d] = s)
HangTogether(S) == \A s \in S, d \in TheScopes : Neighbours(s, d) => d \in S

\* No cell is overspent.  Where a charge was refused, every scope that shares the
\* cell with the one that was refused, from parent to child, is aborted with all
\* its descendants, and no other scope is.
BudgetTruth ==
  /\ \A c \in Cells : budSpent[c] <= BudLimit
  /\ \A s \in budRefused : \E S \in SUBSET budAborted :
       s \in S /\ HangTogether(S) /\ UNION {Below(d) : d \in S} \subseteq budAborted
  /\ \A d \in budAborted : \E s \in budRefused, a \in Lineage[d] :
       \A S \in SUBSET TheScopes : s \in S /\ HangTogether(S) => a \in S
=============================================================================
