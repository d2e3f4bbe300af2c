------------------------------ MODULE MiCompile ------------------------------
(***************************************************************************)
(* The target compiler (compiler/mi2c.py, with the grammar of parser.py    *)
(* and the tables of compiler.py): it reads the target's .mi file and the  *)
(* files that one includes, checks on request (-Wunreachable) that every   *)
(* function can be called, and writes the function table as C.             *)
(*                                                                         *)
(* A file is the sequence of its declarations; a type is the sequence of   *)
(* its words.  What the generated wrappers look like is left out.          *)
(***************************************************************************)
EXTENDS Naturals, Sequences, FiniteSets, SequencesExt

CONSTANTS
    Projects,      \* each the files of a project: [<<directory, name>> -> text]
    MainFile,      \* the file given with -m
    IncludePath,   \* the current directory and the directories given with -I
    MaxReads       \* bound: how many files are read

ASSUME MiConstants ==
    /\ IncludePath \in Seq(ToSet(IncludePath)) \ {<<>>} /\ MaxReads \in Nat
    /\ \A p \in Projects :
          /\ <<Head(IncludePath), MainFile>> \in DOMAIN p /\ IsFiniteSet(DOMAIN p)
          /\ \A file \in DOMAIN p :
                /\ p[file] \in Seq(ToSet(p[file]))
                /\ \A d \in ToSet(p[file]) : d.kind = "function" => "name" \in DOMAIN d

VARIABLES
    project, warn,   \* the input, and whether -Wunreachable is given
    step,            \* where main is
    pending,         \* input_files, the file read next at the end
    functions,       \* the declarations read so far
    reads,           \* what the bound counts
    reachedTypes, reachedFunctions,
    at, changed,     \* in the check: the declaration that is next, and the flag
    headers, table   \* what is written: #include lines and the function table

check == <<reachedTypes, reachedFunctions, at, changed>>
miVars == <<project, warn, step, pending, functions, reads, check, headers, table>>

Input(name, local) == [name |-> name, local |-> local]

MiInit ==
    /\ project \in Projects /\ warn \in BOOLEAN
    /\ step = "read" /\ pending = <<Input(MainFile, FALSE)>>
    /\ functions = <<>> /\ reads = 0
    /\ reachedTypes = {} /\ reachedFunctions = {} /\ at = 1 /\ changed = FALSE
    /\ headers = <<>> /\ table = <<>>

\* The declarations of a kind, in their order
Of(decls, kind) ==
    LET of[k \in 0 .. Len(decls)] ==
            IF k = 0 THEN <<>>
            ELSE IF decls[k].kind = kind THEN Append(of[k - 1], decls[k]) ELSE of[k - 1]
    IN  of[Len(decls)]

\* The parser returns the declarations from the last to the first, without
\* the comments.
Parsed(text) ==
    LET from[k \in 1 .. Len(text) + 1] ==
            IF k > Len(text) THEN <<>>
            ELSE IF text[k].kind = "comment" THEN from[k + 1] ELSE Append(from[k + 1], text[k])
    IN  from[1]

\* "file" is looked for in the current directory, <file> in the include path.
Places(input) ==
    LET path == IF input.local THEN <<Head(IncludePath)>> ELSE IncludePath
    IN  [k \in DOMAIN path |-> <<path[k], input.name>>]

Hits(input) == {k \in DOMAIN Places(input) : Places(input)[k] \in DOMAIN project}
Found(input) == Hits(input) # {}

TextOf(input) ==
    LET first == CHOOSE k \in Hits(input) : \A j \in Hits(input) : k <= j
    IN  project[Places(input)[first]]

\* A file without a declaration, not even a comment, is a syntax error.
Readable(input) == Found(input) /\ TextOf(input) # <<>>

\* The %include lines of a text, in their order
IncludesIn(text) ==
    LET lines == Reverse(Of(Parsed(text), "miinclude"))
    IN  [k \in DOMAIN lines |-> Input(lines[k].name, lines[k].local)]

IncludesOf(input) == IncludesIn(TextOf(input))

Next1 == Last(pending)

\* Mutant of ReadFile: the includes are queued in the order of the parser.
ReadFileBackwards ==
    /\ step = "read" /\ pending # <<>> /\ reads < MaxReads
    /\ Readable(Next1)
    /\ pending' = Front(pending) \o Reverse(IncludesOf(Next1))
    /\ functions' = functions \o Parsed(TextOf(Next1))
    /\ reads' = reads + 1
    /\ UNCHANGED <<project, warn, step, check, headers, table>>

\* The test for a cycle compares a name with pairs, and never holds.
ReadFile ==
    /\ step = "read" /\ pending # <<>> /\ reads < MaxReads
    /\ Readable(Next1)
    /\ pending' = Front(pending) \o IncludesOf(Next1)
    /\ functions' = functions \o Parsed(TextOf(Next1))
    /\ reads' = reads + 1
    /\ UNCHANGED <<project, warn, step, check, headers, table>>

\* Mutant of ReadFails: a file that cannot be read is passed over.
ReadFailsQuietly ==
    /\ step = "read" /\ pending # <<>>
    /\ ~Readable(Next1)
    /\ pending' = Front(pending)
    /\ UNCHANGED <<project, warn, step, functions, reads, check, headers, table>>

ReadFails ==
    /\ step = "read" /\ pending # <<>>
    /\ ~Readable(Next1)
    /\ step' = "fatal"
    /\ UNCHANGED <<project, warn, pending, functions, reads, check, headers, table>>

AllRead ==
    /\ step = "read" /\ pending = <<>>
    /\ step' = IF warn THEN "check" ELSE "compile"
    /\ UNCHANGED <<project, warn, pending, functions, reads, check, headers, table>>

-----------------------------------------------------------------------------
(* _check_unreachable *)

Functions == {d \in ToSet(functions) : d.kind = "function"}
FunctionNames == {f.name : f \in Functions}
ArgTypes(f) == ToSet(f.args)

\* Mutant of HasArgs: one argument that can be had is enough.
HasAnArg(f) == f.args = <<>> \/ ArgTypes(f) \cap reachedTypes # {}

HasArgs(f) == ArgTypes(f) \subseteq reachedTypes

\* A turn of the for loop: a function sees what those before it have added.
CheckFunction ==
    /\ step = "check" /\ at <= Len(functions)
    /\ LET f == functions[at] IN
       IF f.kind = "function" /\ f.name \notin reachedFunctions /\ HasArgs(f)
       THEN /\ reachedTypes' = reachedTypes \cup {f.ret}
            /\ reachedFunctions' = reachedFunctions \cup {f.name}
            /\ changed' = TRUE
       ELSE UNCHANGED <<reachedTypes, reachedFunctions, changed>>
    /\ at' = at + 1
    /\ UNCHANGED <<project, warn, step, pending, functions, reads, headers, table>>

Verdict == IF FunctionNames = reachedFunctions THEN "compile" ELSE "unreachable"

\* Mutant of CheckRound: one pass is all there is.
CheckRoundOnce ==
    /\ step = "check" /\ at > Len(functions)
    /\ at' = 1 /\ changed' = FALSE
    /\ step' = Verdict
    /\ UNCHANGED <<project, warn, pending, functions, reads, reachedTypes,
                   reachedFunctions, headers, table>>

\* Mutant of CheckRound: changed is not reset before a pass.
CheckRoundSticky ==
    /\ step = "check" /\ at > Len(functions)
    /\ at' = 1 /\ UNCHANGED changed
    /\ step' = IF changed THEN "check" ELSE Verdict
    /\ UNCHANGED <<project, warn, pending, functions, reads, reachedTypes,
                   reachedFunctions, headers, table>>

\* The while loop: a pass that has changed nothing is the last.
CheckRound ==
    /\ step = "check" /\ at > Len(functions)
    /\ at' = 1 /\ changed' = FALSE
    /\ step' = IF changed THEN "check" ELSE Verdict
    /\ UNCHANGED <<project, warn, pending, functions, reads, reachedTypes,
                   reachedFunctions, headers, table>>

-----------------------------------------------------------------------------
(* compiler.compile *)

\* __type_to_minerva drops these words, unless one is the type's last.
Skipped == {"const", "unsigned", "signed"}
MinervaType(t) ==
    LET kept(word) == word \notin Skipped IN SelectSeq(Front(t), kept) \o <<Last(t)>>

Row(f) == [f EXCEPT !.ret = MinervaType(@), !.args = [k \in DOMAIN @ |-> MinervaType(@[k])]]

Compile ==
    /\ step = "compile"
    /\ headers' = Reverse(Of(functions, "include"))
    /\ table' = LET fs == Of(functions, "function") IN [k \in DOMAIN fs |-> Row(fs[k])]
    /\ step' = "written"
    /\ UNCHANGED <<project, warn, pending, functions, reads, check>>

Stopped == {"fatal", "unreachable", "written"}

MiHalted ==
    /\ step \in Stopped \/ (step = "read" /\ reads = MaxReads)
    /\ UNCHANGED miVars

MiStep == ReadFile \/ ReadFails \/ AllRead \/ CheckFunction \/ CheckRound \/ Compile
MiNext == MiStep \/ MiHalted

MiSpec == MiInit /\ [][MiNext]_miVars

\* The compiler is a sequential program that keeps running.
FairMiSpec == MiSpec /\ WF_miVars(MiStep)

-----------------------------------------------------------------------------
(* Properties *)

\* The state is well-formed; in the check, a function is reached with all its
\* argument types, and a type with a function that returns it.
MiTypeOK ==
    /\ step \in {"read", "check", "compile"} \cup Stopped /\ reads \in 0 .. MaxReads
    /\ project \in Projects /\ {warn, changed} \subseteq BOOLEAN
    /\ at \in 1 .. Len(functions) + 1
    /\ \A n \in reachedFunctions : \E f \in Functions :
          f.name = n /\ ArgTypes(f) \cup {f.ret} \subseteq reachedTypes
    /\ \A t \in reachedTypes : \E f \in Functions :
          f.ret = t /\ f.name \in reachedFunctions

\* The inputs that the project's files name
Inputs ==
    LET lines == UNION {ToSet(Of(project[file], "miinclude")) : file \in DOMAIN project}
    IN  {Input(MainFile, FALSE)} \cup {Input(l.name, l.local) : l \in lines}

\* Sets of inputs each of which includes another one of the set, or cannot be
\* read.  From such an input the includes lead in a circle or to a missing file.
Includes(i, W) == ToSet(IncludesOf(i)) \cap W # {}
Traps == {W \in SUBSET Inputs : \A i \in W : Readable(i) => Includes(i, W)}
Circles == {W \in Traps : \A i \in W : Readable(i)}
Acyclic == Input(MainFile, FALSE) \notin UNION Circles

\* A table is only written when every file that is included, directly or not,
\* has been found and read, and none includes itself: although the test for
\* cycles never fires (mi2c.py:133-138), such a project is never compiled.
OutputIsComplete == step = "written" => Input(MainFile, FALSE) \notin UNION Traps

\* The declarations of a project in the order of its text, with each file's
\* includes in front of it
Expanded ==
    LET upTo[n \in 0 .. Cardinality(Inputs)] ==
            [i \in Inputs |->
                IF n = 0 \/ ~Readable(i) THEN <<>>
                ELSE FlattenSeq([k \in DOMAIN IncludesOf(i) |-> upTo[n - 1][IncludesOf(i)[k]]])
                         \o TextOf(i)]
    IN  upTo[Cardinality(Inputs)][Input(MainFile, FALSE)]

\* The #include lines come out as the text has them, those of included files
\* before those of the file that includes them, although the parser, the stack of
\* files and the compiler each turn an order round; the functions are numbered
\* from the last to the first (mi2c.py:124-140, compiler.py:127-132).
IncludedComeFirst ==
    step = "written" =>
        /\ headers = Of(Expanded, "include")
        /\ [k \in DOMAIN table |-> table[k].name]
               = LET fs == Reverse(Of(Expanded, "function")) IN [k \in DOMAIN fs |-> fs[k].name]

\* Functions that block each other: each lacks an argument that only they make.
\* As[t] is what type t is taken for.
Blocking(fs, As) ==
    {S \in SUBSET fs : \A f \in S : \E t \in ArgTypes(f) :
        \A g \in fs \ S : As[g.ret] # As[t]}
Uncallable(fs, As) == {f.name : f \in UNION Blocking(fs, As)}

Types(fs) == UNION {ArgTypes(f) \cup {f.ret} : f \in fs}
Declared(fs) == [t \in Types(fs) |-> t]
Compiled(fs) == [t \in Types(fs) |-> MinervaType(t)]

\* No name is declared with two types.  (C rejects what is made of such a target.)
Consistent(fs) == \A f, g \in fs : f.name = g.name => f = g

\* -Wunreachable stops the compiler if, and only if, there is a function that
\* the fuzzer could never call, by the types as they are declared, and names just
\* those; what it lets through can be called in the table that is compiled,
\* where types have lost their qualifiers (mi2c.py:60-82, compiler.py:6-20).
UnreachableFound ==
    Consistent(Functions) =>
        LET uncallable == Uncallable(Functions, Declared(Functions)) IN
        /\ step = "unreachable" =>
              uncallable # {} /\ FunctionNames \ reachedFunctions = uncallable
        /\ step = "written" /\ warn =>
              uncallable = {} /\ Uncallable(Functions, Compiled(Functions)) = {}

\* Without a cycle of includes the compiler comes to an end; with one, it reads
\* on for ever.
MiEnds == (step = "read" /\ Acyclic) ~> step \in Stopped
=============================================================================
