----------------------------- MODULE SpecRules -----------------------------
(***************************************************************************)
(* Whether a step of a JSON loop may refer to another step: what the       *)
(* loader accepts (spec/loader.py) against what is in the context when the *)
(* engine gets there.                                                      *)
(*                                                                         *)
(* The loader walks the document depth first and the engine executes it in *)
(* the same order, so the document is not kept: it is written node by      *)
(* node, and both read along.  One frame per open list of steps.           *)
(***************************************************************************)
EXTENDS Naturals, Sequences, FiniteSets

CONSTANTS
    Name,      \* names of steps, of groups and of branches
    Key,       \* keys of the initial context
    MaxNodes,  \* bound: nodes of a document
    MaxOpen    \* bound: lists open at once

ASSUME SpecAssumption == Name # {} /\ MaxNodes \in Nat

VARIABLES
    lists,    \* the open lists, outermost first
    nodes,    \* nodes so far
    valid,    \* no error so far
    taken,    \* leaf names so far
    skipped,  \* names of the steps that do not run
    groups,   \* names of parallel and conditional nodes
    failed,   \* names of the steps that ran and failed
    unset,    \* history: keys of the document the run did not get a value for
    lost      \* history: what an executed step referred to and the context lacked

specVars == <<lists, nodes, valid, taken, skipped, groups, failed, unset, lost>>

Known == Name \union Key

List == [ type  : {"steps", "parallel", "then", "else"},
          name  : Name,
          known : SUBSET Known,    \* the names the loader lets a step refer to
          reg   : SUBSET Name,     \* the names registered on the way
          have  : SUBSET Known,    \* what the context of a step here holds
          put   : SUBSET Name,     \* what the executed steps here stored
          first : BOOLEAN,         \* a conditional: its first branch is the one that runs
          runs  : BOOLEAN,         \* this list is executed
          empty : BOOLEAN ]

SpecTypeOK ==
    /\ lists \in Seq(List) /\ lists # <<>>
    /\ nodes \in 0..MaxNodes /\ valid \in BOOLEAN
    /\ taken \subseteq Name /\ skipped \subseteq Name /\ groups \subseteq Name
    /\ failed \subseteq Name /\ unset \subseteq Key /\ lost \subseteq Known

\* the loader knows the document's context; a caller's own replaces it whole, and
\* either may hold null
SpecInit ==
    \E given \in SUBSET Known :
        /\ lists = << [ type |-> "steps", name |-> CHOOSE n \in Name : TRUE, known |-> Key,
                        reg |-> {}, have |-> given, put |-> {}, first |-> TRUE, runs |-> TRUE,
                        empty |-> TRUE ] >>
        /\ nodes = 0 /\ valid = TRUE
        /\ taken = {} /\ skipped = {} /\ groups = {} /\ failed = {} /\ lost = {}
        /\ unset = Key \ given

---------------------------------------------------------------------------
Innermost == lists[Len(lists)]

Outer == lists[Len(lists) - 1]

Rewrite(list) == lists' = [lists EXCEPT ![Len(lists)] = list]

MoreNodes == valid /\ nodes < MaxNodes /\ nodes' = nodes + 1

\* Mutant: a step of a group sees the ones written before it.
SeesSiblings(list, n) == list.known \union {n}

\* the children of a group are walked with a copy of the scope each
Registers(list, n) == IF list.type = "parallel" THEN list.known ELSE list.known \union {n}

\* _check_names: a leaf's name is unique in the document
Duplicate(n) == n \in taken

\* apply_step_result: what a step of a document returns is stored under its name
\* (its executors' results have to_dict, an LLM's is a text); None after a failure
Stored(have, n, ok) == IF ok THEN have \union {n} ELSE have \ {n}

\* a leaf: unknown reference, or a name that is taken, is an error
Leaf(n, refs, ok) ==
    /\ MoreNodes
    /\ valid' = (refs \subseteq Innermost.known /\ ~Duplicate(n))
    /\ taken' = taken \union {n}
    /\ LET l == Innermost
       IN /\ l.runs \/ ok
          /\ Rewrite([l EXCEPT !.known = Registers(l, n),
                               !.reg   = @ \union {n},
                               !.have  = IF l.runs /\ l.type # "parallel" THEN Stored(@, n, ok)
                                                                         ELSE @,
                               !.put   = IF l.runs /\ ok THEN @ \union {n} ELSE @,
                               !.empty = FALSE])
          /\ lost'    = IF l.runs THEN lost \union (refs \ l.have) ELSE lost
          /\ skipped' = IF l.runs THEN skipped ELSE skipped \union {n}
    /\ failed' = IF ok THEN failed ELSE failed \union {n}
    /\ UNCHANGED <<groups, unset>>

Opened(n, type, first) ==
    [Innermost EXCEPT !.type = type, !.name = n, !.reg = {}, !.put = {}, !.first = first,
                      !.runs = @ /\ first, !.empty = TRUE]

OpenParallel(n) ==
    /\ MoreNodes /\ Len(lists) < MaxOpen
    /\ Innermost.type # "parallel"
    /\ lists' = Append(lists, Opened(n, "parallel", TRUE))
    /\ groups' = groups \union {n}
    /\ UNCHANGED <<valid, taken, skipped, failed, unset, lost>>

\* a conditional: its condition is checked, and evaluated, in the outer scope
OpenConditional(n, refs) ==
    /\ MoreNodes /\ Len(lists) < MaxOpen
    /\ Innermost.type # "parallel"
    /\ valid' = (refs \subseteq Innermost.known)
    /\ lost' = IF Innermost.runs THEN lost \union (refs \ Innermost.have) ELSE lost
    /\ \E first \in BOOLEAN : lists' = Append(lists, Opened(n, "then", first))
    /\ groups' = groups \union {n}
    /\ UNCHANGED <<taken, skipped, failed, unset>>

\* the second branch starts from the outer scope again
Else ==
    /\ valid /\ Innermost.type = "then" /\ ~Innermost.empty
    /\ Rewrite([Innermost EXCEPT !.type = "else", !.known = Outer.known, !.have = Outer.have,
                                 !.runs = Outer.runs /\ ~Innermost.first])
    /\ UNCHANGED <<nodes, valid, taken, skipped, groups, failed, unset, lost>>

\* the names of a group, or of both branches, and its own become known outside
CloseList ==
    /\ valid /\ Innermost.type # "steps" /\ ~Innermost.empty
    /\ LET i == Innermost
           names == i.reg \union {i.name}
       IN lists' = Append(SubSeq(lists, 1, Len(lists) - 2),
                     [Outer EXCEPT !.known = @ \union names, !.reg = @ \union names,
                                   !.have = (@ \union i.put) \ failed, !.put = @ \union i.put,
                                   !.empty = FALSE])
    /\ UNCHANGED <<nodes, valid, taken, skipped, groups, failed, unset, lost>>

SpecNext ==
    \/ \E n \in Name, refs \in SUBSET Known :
          /\ Cardinality(refs) <= 1
          /\ (\E ok \in BOOLEAN : Leaf(n, refs, ok)) \/ OpenConditional(n, refs)
    \/ \E n \in Name : OpenParallel(n)
    \/ Else \/ CloseList

SpecSpec == SpecInit /\ [][SpecNext]_specVars

---------------------------------------------------------------------------
\* In a document the loader accepts, whatever it looks like and whichever branches
\* are taken, a step or a condition that is reached finds what it refers to,
\* unless the loader could not know better: a step in a branch not taken, the name
\* of a group or branch (loader.py:664-666, 668-681), a step that failed
\* (state.py:162-163), or a key of the document's context the caller replaced
\* (tools_run.py:73).  The order of the document, the scopes of groups and
\* branches and a caller's context never make a reference dangle by themselves.
RefsResolve == valid => lost \subseteq skipped \union groups \union failed \union unset
=============================================================================
