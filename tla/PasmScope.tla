------------------------------ MODULE PasmScope ------------------------------
(***************************************************************************)
(* Scopes, structures and assignments of the assembler (pasmstruct.c) and  *)
(* the name check they share with labels.  A program is read twice; its    *)
(* first lines may come from an included file, which a failed line of      *)
(* pass 2 ends, and not the pass.  The layout of an assignment in the      *)
(* registers is module PasmLayout.                                         *)
(***************************************************************************)
EXTENDS Integers, Sequences, FiniteSetsExt

CONSTANTS
  Symbols,            \* the names a program uses
  Root,             \* "_ROOT_", the scope StructInit creates
  Register,         \* any register name: what an assigned name is replaced by
  Macros,           \* the names that are macros
  NoStruct,         \* pStructCurrent = 0
  Freed,            \* pStructCurrent points to a record StructCleanup freed
  STRUCT_MAX_ELEM,  \* 64
  Programs,         \* the programs assembled
  Included          \* how many of the first lines come from an included file

ASSUME ScopeAssumption ==
  /\ Root \notin Symbols /\ Register \notin Symbols \cup {Root}
  /\ {NoStruct, Freed} \cap (Symbols \cup {Root, Register}) = {}
  /\ NoStruct # Freed
  /\ Macros \subseteq Symbols
  /\ STRUCT_MAX_ELEM \in Nat \ {0}

\* A statement: its operation, its operand, and the second name of .assign.
Stmt == [op : {"struct", "element", "ends", "assign", "enter", "leave", "using", "label"},
         n : Symbols \cup {Root}, m : Symbols]

ASSUME ProgramsAssumption ==
  /\ Programs \subseteq Seq(Stmt)
  /\ Included \subseteq Nat

VARIABLES
  program, included, phase, Pass, pos,
  Errors,
  labels,          \* pLabelList: the only names kept from pass 1 to pass 2
  structs,         \* pStructList: element names of each structure
  structCur,       \* pStructCurrent: not reset by StructCleanup
  scopes,          \* pScopeList, oldest first
  scopeCur,        \* pScopeCurrent: an index of scopes, 0 for none
  view             \* history: view[p][i][n] is what n stands for at statement i

names == <<labels, structs, structCur, scopes, scopeCur>>
scopesVars == <<program, included, phase, Pass, pos, Errors, names, view>>

-----------------------------------------------------------------------------
(* Lookup.                                                                 *)

\* AssignFind: the newest open scope that assigns n, 0 if there is none.
AssignFind(n) ==
  Max({0} \cup {i \in DOMAIN scopes : scopes[i].open /\ n \in scopes[i].assigned})

\* Scope names are unique, so there is at most one.
ScopeFind(n) == {i \in DOMAIN scopes : scopes[i].name = n}

CheckStruct(n) == n \in DOMAIN structs \/ AssignFind(n) # 0 \/ ScopeFind(n) # {}

\* Mutant: a label may have the name of something else.
CheckNameButLabels(n) == n # Register /\ n \notin Macros /\ ~CheckStruct(n)

\* "Returns 1 if the name is free, or 0 if it is in use".
CheckName(n) == n # Register /\ n \notin labels /\ n \notin Macros /\ ~CheckStruct(n)

\* StructParamProcess replaces an assigned name, wherever it is an operand.
Resolved(n) == IF AssignFind(n) # 0 THEN Register ELSE n

View == [n \in Symbols |-> AssignFind(n)]

-----------------------------------------------------------------------------
(* Initial state and passes.                                               *)

RootScope == [name |-> Root, open |-> TRUE, parent |-> 0, assigned |-> {}]

NoStructs == [n \in {} |-> <<>>]

\* "Test opening the main source file" aside, nothing happens before pass 1.
ScopesInit ==
  /\ program \in Programs
  /\ included \in {k \in Included : k <= Len(program)}
  /\ phase = "pass" /\ Pass = 1 /\ pos = 1
  /\ Errors = 0
  /\ labels = {} /\ structs = NoStructs /\ structCur = NoStruct
  /\ scopes = <<RootScope>> /\ scopeCur = 1
  /\ view = [p \in 1 .. 2 |-> <<View>>]

\* ScopeClose: closed scopes are left for the scope they were created in.
Nearest(open, i) ==
  LET up[j \in 0 .. Len(scopes)] ==
        IF j = 0 \/ j \in open THEN j ELSE up[scopes[j].parent]
  IN  up[i]

OpenScopes == {i \in DOMAIN scopes : scopes[i].open}

\* StructCleanup frees every structure; the pointer to the current one stays.
CleanupStructs ==
  /\ structCur' = IF structCur = NoStruct THEN NoStruct ELSE Freed
  /\ structs' = NoStructs

\* StructCleanup closes and frees every scope, StructInit creates the root.
CleanupScopes ==
  /\ scopes' = <<[RootScope EXCEPT !.parent = Nearest({}, scopeCur)]>>
  /\ scopeCur' = 1

AtEnd == phase = "pass" /\ pos > Len(program)

\* End of pass 1 without errors: the next pass starts on fresh scopes.
NextPass ==
  /\ AtEnd /\ Pass = 1 /\ Errors = 0
  /\ Pass' = 2 /\ pos' = 1
  /\ CleanupStructs /\ CleanupScopes
  /\ view' = [view EXCEPT ![2] = <<View'>>]
  /\ UNCHANGED <<program, included, phase, Errors, labels>>

Finish ==
  /\ AtEnd /\ (Pass = 2 \/ Errors > 0)
  /\ phase' = "done"
  /\ UNCHANGED <<program, included, Pass, pos, Errors, names, view>>

-----------------------------------------------------------------------------
(* Statements.                                                             *)

Reading(op) == phase = "pass" /\ pos <= Len(program) /\ program[pos].op = op
Cur == program[pos]

Note == view' = [view EXCEPT ![Pass] = Append(@, View')]

\* The line is accepted.
Done ==
  /\ pos' = pos + 1 /\ Note
  /\ UNCHANGED <<program, included, phase, Pass, Errors>>

\* A failed line: ProcessSourceFile returns in pass 2, to the including file
\* if there is one.
Failed ==
  /\ Errors' = Errors + 1
  /\ pos' = CASE Pass = 1 -> pos + 1
              [] Pass = 2 /\ pos <= included -> included + 1
              [] OTHER -> Len(program) + 1
  /\ Note
  /\ UNCHANGED <<program, included, phase, Pass>>

\* The line reports an error and is accepted all the same.
Warned ==
  /\ Errors' = Errors + 1 /\ pos' = pos + 1 /\ Note
  /\ UNCHANGED <<program, included, phase, Pass>>

Rejected == UNCHANGED names /\ Failed

\* The label of a line; pass 2 finds it in the list already.
Label ==
  /\ Reading("label")
  /\ IF Pass = 1 /\ ~CheckName(Cur.n)
     THEN UNCHANGED names /\ Warned
     ELSE /\ labels' = IF Pass = 1 THEN labels \cup {Cur.n} ELSE labels
          /\ UNCHANGED <<structs, structCur, scopes, scopeCur>> /\ Done

StructNew ==
  /\ Reading("struct")
  /\ LET n == Resolved(Cur.n)
     IN  IF structCur # NoStruct \/ ~CheckName(n)
         THEN Rejected
         ELSE /\ structs' = [s \in DOMAIN structs \cup {n} |->
                               IF s = n THEN <<>> ELSE structs[s]]
              /\ structCur' = n
              /\ UNCHANGED <<labels, scopes, scopeCur>> /\ Done

\* Reading or writing a freed record: what follows is undefined.
UseFreed ==
  /\ Reading("element") \/ Reading("ends")
  /\ structCur = Freed
  /\ phase' = "undefined"
  /\ UNCHANGED <<program, included, Pass, pos, Errors, names, view>>

StructAddElement ==
  /\ Reading("element") /\ structCur # Freed
  /\ LET n == Resolved(Cur.n)
     IN  CASE structCur = NoStruct -> Rejected
           [] structCur # NoStruct /\ n = Register -> UNCHANGED names /\ Warned
           [] structCur # NoStruct /\ n # Register ->
                IF \/ Len(structs[structCur]) = STRUCT_MAX_ELEM
                   \/ \E i \in DOMAIN structs[structCur] : structs[structCur][i] = n
                THEN Rejected
                ELSE /\ structs' = [structs EXCEPT ![structCur] = Append(@, n)]
                     /\ UNCHANGED <<labels, structCur, scopes, scopeCur>> /\ Done

\* An empty structure is an error and ends the structure.
StructEnd ==
  /\ Reading("ends") /\ structCur # Freed
  /\ IF structCur = NoStruct
     THEN Rejected
     ELSE /\ structCur' = NoStruct
          /\ UNCHANGED <<labels, structs, scopes, scopeCur>>
          /\ IF structs[structCur] = <<>> THEN Failed ELSE Done

AssignStruct ==
  /\ Reading("assign")
  /\ LET m == Resolved(Cur.m)
     IN  IF \/ structCur # NoStruct \/ scopeCur = 0
            \/ Resolved(Cur.n) \notin DOMAIN structs
            \/ ~CheckName(m)
         THEN Rejected
         ELSE /\ scopes' = [scopes EXCEPT ![scopeCur].assigned = @ \cup {m}]
              /\ UNCHANGED <<labels, structs, structCur, scopeCur>> /\ Done

ScopeEnter ==
  /\ Reading("enter")
  /\ LET n == Resolved(Cur.n)
     IN  IF ~CheckName(n)
         THEN Rejected
         ELSE /\ scopes' = Append(scopes, [name |-> n, open |-> TRUE,
                                           parent |-> scopeCur, assigned |-> {}])
              /\ scopeCur' = Len(scopes')
              /\ UNCHANGED <<labels, structs, structCur>> /\ Done

\* Mutant: leaving a scope always goes back to the scope it was entered from.
LeaveToParent ==
  /\ Reading("leave")
  /\ LET found == ScopeFind(Resolved(Cur.n))
     IN  IF found \cap OpenScopes = {}
         THEN Rejected
         ELSE \E s \in found :
                /\ scopes' = [scopes EXCEPT ![s].open = FALSE]
                /\ scopeCur' = scopes[s].parent
                /\ UNCHANGED <<labels, structs, structCur>> /\ Done

\* .leave may name any open scope, not only the current one.
ScopeLeave ==
  /\ Reading("leave")
  /\ LET found == ScopeFind(Resolved(Cur.n))
     IN  IF found \cap OpenScopes = {}
         THEN Rejected
         ELSE \E s \in found :
                /\ scopes' = [scopes EXCEPT ![s].open = FALSE]
                /\ scopeCur' = Nearest(OpenScopes \ {s}, scopeCur)
                /\ UNCHANGED <<labels, structs, structCur>> /\ Done

\* .using opens a closed scope again, with every name assigned in it.
ScopeUsing ==
  /\ Reading("using")
  /\ LET found == ScopeFind(Resolved(Cur.n))
     IN  IF found = {} \/ found \cap OpenScopes # {}
         THEN Rejected
         ELSE \E s \in found :
                /\ scopes' = [scopes EXCEPT ![s].open = TRUE]
                /\ scopeCur' = s
                /\ UNCHANGED <<labels, structs, structCur>> /\ Done

ScopesNext ==
  \/ NextPass \/ Finish \/ Label
  \/ StructNew \/ StructAddElement \/ StructEnd \/ UseFreed
  \/ AssignStruct \/ ScopeEnter \/ ScopeLeave \/ ScopeUsing

ScopesSpec == ScopesInit /\ [][ScopesNext]_scopesVars

-----------------------------------------------------------------------------
(* Properties.                                                             *)

Scope == [name : Symbols \cup {Root}, open : BOOLEAN, parent : 0 .. Len(scopes),
          assigned : SUBSET Symbols]

TypeOK ==
  /\ program \in Seq(Stmt) /\ included \in Included
  /\ phase \in {"pass", "done", "undefined"} /\ Pass \in 1 .. 2
  /\ pos \in 1 .. Len(program) + 1 /\ Errors \in Nat
  /\ labels \subseteq Symbols
  /\ DOMAIN structs \subseteq Symbols /\ Range(structs) \subseteq Seq(Symbols \cup {Root})
  /\ structCur \in DOMAIN structs \cup {NoStruct, Freed}
  /\ scopes \in Seq(Scope) /\ scopeCur \in 0 .. Len(scopes)
  /\ view \in [1 .. 2 -> Seq([Symbols -> 0 .. Len(program) + 1])]

\* Assignments go to an open scope, in whatever order scopes are left and
\* reopened, and parents are older than their children, so that StructCleanup,
\* which frees the newest first, never walks through a freed scope
\* (pasmstruct.c:1194-1227).
ScopeChain ==
  /\ scopeCur # 0 => scopes[scopeCur].open
  /\ \A i \in DOMAIN scopes : scopes[i].parent < i

Accepted == phase = "done" /\ Errors = 0

\* In both passes a name stands for the same register at the same statement,
\* although pass 2 knows every label (pasmstruct.c:211-228, 903-950).  A label
\* defined after the same name was assigned in a scope, since left, is only caught
\* by pass 2; in an accepted program no label is also the name of a structure, a
\* scope or an assignment (pasm.c:1105-1119).  Nothing reports a .struct without
\* .ends at the end of the source, but pass 2 then fails at its first .struct,
\* because pStructCurrent outlives the cleanup (pasmstruct.c:240, 222).
SameMeaning ==
  /\ Pass = 2 /\ Errors = 0 => \A i \in 1 .. pos : view[2][i] = view[1][i]
  /\ Accepted => \A n \in labels :
       /\ n \notin DOMAIN structs /\ ScopeFind(n) = {}
       /\ \A i \in DOMAIN scopes : n \notin scopes[i].assigned
  /\ Accepted => structCur = NoStruct

\* "'%s' is already a structure or scope" (pasm.c:1115): a name that can be seen
\* is not given a second time, so it is assigned in one open scope at most.
VisibleOnce ==
  Errors = 0 => \A i, j \in OpenScopes :
    i # j => scopes[i].assigned \cap scopes[j].assigned = {}

\* "Can not add element - missing .struct" (pasmstruct.c:282): no element is
\* added, and no structure ended, when there is no structure.
ElementsInStructure == phase # "undefined"
=============================================================================
