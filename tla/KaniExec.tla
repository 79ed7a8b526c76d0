------------------------------- MODULE KaniExec -------------------------------
(***************************************************************************)
(* prover-tools kani exec: exec_kani of rust_prover_tools/kani_release.py  *)
(* with check_verification_config and verification_flags.  The selected    *)
(* release is inspected, Cargo's configuration files and manifests are     *)
(* read from the working directory up and then in the Cargo home, the      *)
(* inherited compiler flags are normalised, three of the release's         *)
(* programs are asked who they are, and the proof runs.                    *)
(*                                                                         *)
(* A document is the one thing in it that matters here.  A compiler flag   *)
(* is the sequence of words joined in one token, so that a head and its    *)
(* value make the same option joined or apart.  Whoever shares the machine *)
(* may replace a part of the release while the command runs.               *)
(***************************************************************************)
EXTENDS Integers, SequencesExt

CONSTANTS Depth,      \* directories from cwd to the root
          MaxFlags,   \* bound on the inherited compiler flags
          FailCode,   \* what a failing program exits with
          Signal      \* the signal that may kill it

ASSUME ExecAssumption == /\ Depth \in Nat \ {0}
                         /\ MaxFlags \in Nat
                         /\ FailCode \in 1..127
                         /\ Signal \in 1..64

\* cargo stands for every part that only has to be there.
Parts == {"metadata", "rustc", "compiler", "driver", "cargo"}
Asked == {"rustc", "compiler", "driver"}

Profiles == {"dev", "my-prof"}

\* What a configuration file or a manifest says: nothing that matters, the
\* backend of a profile, an override (or an unusual name, or a value that is no
\* backend) that the environment cannot shadow, an include, an [env] of a
\* protected variable, a [build] of a compiler wrapper or rustdoc.
Documents == {"absent", "plain", "package", "include", "env", "build"} \cup Profiles

VARIABLES pc,          \* where exec_kani is
          directory,   \* the directory whose files are read, Depth + 1 for the Cargo home
          tool,        \* a wrapper or rustdoc, as the environment selects it
          fallback,    \* CARGO_BUILD_... of it is set too
          selections,  \* config.selections
          inherited,   \* the compiler flags of the environment
          flags,       \* RUSTFLAGS of the child, and its encoded spelling
          pinned,      \* variables the child sets to llvm
          release,     \* the parts of the selected release
          drifted,     \* history: parts replaced since they were last looked at
          wanted,      \* history: profiles whose backend a document selects
          escapes,     \* history: something else would have its way with Cargo
          ran,         \* the proof was run
          result,      \* what it exited with
          status       \* the exit status, or -1 while the command runs

routing == <<tool, fallback>>
config == <<directory, selections, wanted, escapes>>
child == <<flags, pinned>>
outcome == <<ran, result, status>>
vars == <<pc, routing, config, inherited, child, release, drifted, outcome>>

Queries == {"rustc", "compiler", "verifier"}
Running == {"validate", "tools", "config", "manifest", "environment", "flags", "proof"}
             \cup Queries

--------------------------------------------------------------------------------
\* Compiler flags.

Heads == {"-C", "-Z", "--cfg"}
Dashed == Heads \cup {"-D"}
Words == Dashed \cup {"threads=8", "codegen-backend=cranelift", "codegen-backend=llvm",
                      "instrument-coverage", "coverage", "warnings", "opt"}
Unfit == <<"white space">>
Tokens == {<<word>> : word \in Words} \cup {<<"-Z", "threads=8">>, Unfit}

Deny == << <<"-D">>, <<"warnings">> >>

Development == {<<"-Z", "threads=8">>, <<"-Z", "codegen-backend=cranelift">>}
Coverage == {<<"-C", "instrument-coverage">>, <<"--cfg", "coverage">>}

\* An option is the tokens that make it: _option pairs a head with the token
\* after it.
Width(tokens, i) ==
    IF tokens[i] \in {<<h>> : h \in Heads} /\ i < Len(tokens) /\ tokens[i + 1][1] \notin Dashed
    THEN 2 ELSE 1

Option(tokens, i) == SubSeq(tokens, i, i + Width(tokens, i) - 1)

Options(tokens) ==
    LET from[i \in 1..(Len(tokens) + 1)] ==
          IF i > Len(tokens) THEN <<>>
          ELSE <<Option(tokens, i)>> \o from[i + Width(tokens, i)]
    IN from[1]

Joined(option) == FlattenSeq(option)

Incomplete(option) == Joined(option) \in {<<h>> : h \in Heads}

\* "codegen-backend" in option, other than the one that is removed.
Competing(option) ==
    /\ \E word \in {"codegen-backend=cranelift", "codegen-backend=llvm"} :
         word \in Range(Joined(option))
    /\ Joined(option) # <<"-Z", "codegen-backend=cranelift">>

\* Mutant: coverage atoms are left to the caller.
SurvivesCoverage(option) == Joined(option) \notin Development

Survives(option) == Joined(option) \notin Development \cup Coverage

\* A present encoded value wins, even when empty.
_effective_tokens(environment) ==
    IF environment.encoded = {} THEN environment.plain
    ELSE CHOOSE tokens \in environment.encoded : TRUE

Refused(environment) ==
    \/ environment.profile
    \/ Unfit \in Range(_effective_tokens(environment))
    \/ \E option \in Range(Options(_effective_tokens(environment))) :
         Incomplete(option) \/ Competing(option)

\* The loop of verification_flags, from the token at an index on.
KeptFrom(tokens) ==
    LET from[i \in 1..(Len(tokens) + 1)] ==
          IF i > Len(tokens) THEN <<>>
          ELSE (IF Survives(Option(tokens, i)) THEN Option(tokens, i) ELSE <<>>)
                 \o from[i + Width(tokens, i)]
    IN from

verification_flags(environment) ==
    LET kept == KeptFrom(_effective_tokens(environment))[1]
    IN IF IsSuffix(Deny, kept) THEN kept ELSE kept \o Deny

\* What the environment may hold: plain flags, encoded ones beside them, a
\* CARGO_PROFILE_..._CODEGEN_BACKEND of the caller.
Sequences(n) == UNION {[1..m -> Tokens] : m \in 0..n}
Inherited == [plain : Sequences(MaxFlags), encoded : {{}}, profile : {FALSE}]
               \cup [plain : {<< <<"opt">> >>}, encoded : {{t} : t \in Sequences(1)},
                     profile : {FALSE}]
               \cup [plain : {<<>>}, encoded : {{}}, profile : {TRUE}]
Nothing == [plain |-> <<>>, encoded |-> {}, profile |-> FALSE]

--------------------------------------------------------------------------------
\* Cargo configuration.

\* _has_selected_tool
Selected == tool = "selected"

\* codegen_backend_variable: upper case, and a dash is an underscore.
codegen_backend_variable(profile) ==
    IF profile = "dev" THEN "CARGO_PROFILE_DEV_CODEGEN_BACKEND"
    ELSE "CARGO_PROFILE_MY_PROF_CODEGEN_BACKEND"

\* _check_routing_overrides: an [env] of a protected variable, a [build] of a
\* tool the environment does not select.
HidesRoute(document) == document = "env" \/ (document = "build" /\ ~Selected)

\* _check_document of a configuration file.
Acceptable(document) == document \notin {"package", "include"} /\ ~HidesRoute(document)

\* Of a manifest only the profiles are read; the rest is publication metadata.
AcceptableManifest(document) == document # "package"

\* What Cargo would take from an accepted document, beside profile backends.
Escapes(document) == \/ document \in {"package", "include", "env"}
                     \/ document = "build" /\ tool # "selected"

--------------------------------------------------------------------------------

Init == /\ pc = "validate"
        /\ directory = 1
        /\ tool \in {"absent", "selected", "invalid"}
        /\ fallback \in BOOLEAN
        /\ selections = {}
        /\ inherited = Nothing
        /\ flags = <<>>
        /\ pinned = {}
        /\ release \in [Parts -> {"qualified", "other", "missing"}]
        /\ \A p, q \in Parts : {release[p], release[q]} \subseteq {"other", "missing"} => p = q
        /\ drifted = {}
        /\ wanted = {}
        /\ escapes = FALSE
        /\ ran = FALSE
        /\ result = 0
        /\ status = -1

Step(from, to) == pc = from /\ pc' = to

\* Mutant: a signal's negative status goes to sys.exit as it is.
ShellStatusRaw(code) == code % 256

\* kani_exec: a signal is 128 and its number.
ShellStatus(code) == IF code < 0 THEN 128 - code ELSE code

Exit(code) == pc' = "exited" /\ status' = ShellStatus(code)

\* A ProverToolError: an unreadable file, a platform or argument out of bounds,
\* no Cargo home, a release that is not there to be resolved again, or what
\* the guards of the steps below turn down.
Refuse == /\ pc \in {"validate", "tools", "config", "manifest", "flags"}
          /\ Exit(1)
          /\ UNCHANGED <<routing, config, inherited, child, release, drifted, ran, result>>

\* _validate_installation, after the paths and before the arguments.
Validate == /\ Step("validate", "tools")
            /\ release["metadata"] = "qualified"
            /\ \A p \in Parts : release[p] # "missing"
            /\ UNCHANGED <<routing, config, inherited, child, release, drifted, outcome>>

\* _check_process_tool_selections
CheckTools == /\ Step("tools", "config")
              /\ tool # "invalid"
              /\ fallback => Selected
              /\ UNCHANGED <<routing, config, inherited, child, release, drifted, outcome>>

\* Mutant: the selections of one directory replace those of the last.
CollectAlone(documents) == selections' = documents \cap Profiles

\* selections.extend
Collect(documents) == selections' = selections \cup (documents \cap Profiles)

\* Mutant: the Cargo home is one more ancestor.
IsAncestorOfHome == directory <= Depth + 1

\* The directory is cwd or one of its parents, and not the Cargo home.
IsAncestor == directory <= Depth

\* _check_config_directory: config and config.toml, of which one may be there.
CheckConfigDirectory ==
    /\ pc = "config"
    /\ \E legacy, modern \in Documents :
         /\ "absent" \in {legacy, modern}
         /\ Acceptable(legacy) /\ Acceptable(modern)
         /\ Collect({legacy, modern})
         /\ wanted' = wanted \cup ({legacy, modern} \cap Profiles)
         /\ escapes' = (escapes \/ Escapes(legacy) \/ Escapes(modern))
    /\ pc' = IF IsAncestor THEN "manifest" ELSE "environment"
    /\ UNCHANGED <<routing, directory, inherited, child, release, drifted, outcome>>

\* The manifest of the same directory; then its parent, or the Cargo home.
CheckManifest == /\ Step("manifest", "config")
                 /\ \E document \in Documents :
                      /\ AcceptableManifest(document)
                      /\ Collect({document})
                      /\ wanted' = wanted \cup ({document} \cap Profiles)
                      /\ escapes' = (escapes \/ document = "package")
                 /\ directory' = directory + 1
                 /\ UNCHANGED <<routing, inherited, child, release, drifted, outcome>>

\* What the caller's environment holds is looked at.
Inherit == /\ Step("environment", "flags")
           /\ inherited' \in Inherited
           /\ UNCHANGED <<routing, config, child, release, drifted, outcome>>

\* verification_flags, _apply_backend_overrides and the rest of the child's
\* environment; the caller's is not looked at again.
Prepare == /\ Step("flags", "rustc")
           /\ ~Refused(inherited)
           /\ flags' = verification_flags(inherited)
           /\ pinned' = {codegen_backend_variable(p) : p \in selections}
           /\ inherited' = Nothing
           /\ UNCHANGED <<routing, config, release, drifted, outcome>>

\* Mutant: the compiler that only has to be there is not asked.
QueriedNoCompiler == CASE pc = "rustc" -> "rustc" [] OTHER -> "driver"

\* The program a stage asks, through the wrappers where there are any.
Queried == CASE pc = "rustc" -> "rustc"
             [] pc = "compiler" -> "compiler"
             [] pc = "verifier" -> "driver"

\* It answers with the qualified identity.
Identified == /\ pc \in Queries
              /\ release[Queried] = "qualified"
              /\ pc' = CASE pc = "rustc" -> "compiler"
                         [] pc = "compiler" -> "verifier"
                         [] pc = "verifier" -> "proof"
              /\ drifted' = drifted \ {Queried}
              /\ UNCHANGED <<routing, config, inherited, child, release, outcome>>

\* With another one, or it is not there.
Drifted == /\ pc \in Queries
           /\ release[Queried] # "qualified"
           /\ Exit(1)
           /\ UNCHANGED <<routing, config, inherited, child, release, drifted, ran, result>>

\* It, or a wrapper before it, fails: CommandFailedError.
QueryFails == /\ pc \in Queries
              /\ \E code \in {FailCode, -Signal} : Exit(code)
              /\ UNCHANGED <<routing, config, inherited, child, release, drifted, ran, result>>

Proof == /\ pc = "proof"
         /\ release["driver"] # "missing"
         /\ ran' = TRUE
         /\ result' \in {0, FailCode, -Signal}
         /\ Exit(result')
         /\ UNCHANGED <<routing, config, inherited, child, release, drifted>>

\* The driver is gone: an OSError nothing catches.
Unstartable == /\ pc = "proof"
               /\ release["driver"] = "missing"
               /\ pc' = "exited"
               /\ status' = 1
               /\ UNCHANGED <<routing, config, inherited, child, release, drifted, ran,
                              result>>

\* KeyboardInterrupt, which nothing catches.
Interrupt == /\ pc \in Running
             /\ pc' = "exited"
             /\ status' = 130
             /\ UNCHANGED <<routing, config, inherited, child, release, drifted, ran,
                            result>>

\* A part of the release is replaced; before the first query it makes no
\* difference when.
Swap == /\ pc \in Queries \cup {"proof"}
        /\ drifted = {}
        /\ \E p \in Parts, v \in {"qualified", "other", "missing"} :
             /\ release' = [release EXCEPT ![p] = v]
             /\ drifted' = {p}
        /\ UNCHANGED <<pc, routing, config, inherited, child, outcome>>

Next == \/ Refuse \/ Validate \/ CheckTools \/ CheckConfigDirectory \/ CheckManifest
        \/ Inherit \/ Prepare \/ Identified \/ Drifted \/ QueryFails \/ Proof \/ Unstartable
        \/ Interrupt \/ Swap

Spec == Init /\ [][Next]_vars

--------------------------------------------------------------------------------

TypeOK == /\ pc \in Running \cup {"exited"}
          /\ directory \in 1..(Depth + 1)
          /\ tool \in {"absent", "selected", "invalid"}
          /\ fallback \in BOOLEAN
          /\ selections \subseteq Profiles
          /\ inherited \in Inherited \cup {Nothing}
          /\ flags \in Seq(Tokens)
          /\ pinned \subseteq {codegen_backend_variable(p) : p \in Profiles}
          /\ release \in [Parts -> {"qualified", "other", "missing"}]
          /\ drifted \subseteq Parts
          /\ wanted \subseteq Profiles
          /\ escapes \in BOOLEAN
          /\ ran \in BOOLEAN
          /\ result \in {0, FailCode, -Signal}
          /\ status \in -1..255

\* A proof runs only with the release that was qualified: whatever part is
\* replaced while the command runs, the metadata and the three programs are
\* the measured ones, but for a part replaced after it was last looked at
\* ("keep their files unchanged until this command finishes",
\* docs/users-guide.md).
ProofIsQualified ==
    ran => \A p \in (Asked \cup {"metadata"}) \ drifted : release[p] = "qualified"

\* Nothing the repository configures reaches the proof: every profile whose
\* backend any document selects is pinned to llvm in the child, whatever their
\* order and number, and no document or variable routes the compiler past the
\* environment's own selection.
ConfigIsShadowed ==
    ran => /\ \A p \in wanted : codegen_backend_variable(p) \in pinned
           /\ ~escapes
           /\ fallback => Selected

\* The tokens without some of them.
Rest(tokens, dropped) ==
    LET left == SetToSortSeq(DOMAIN tokens \ dropped, <)
    IN [i \in DOMAIN left |-> tokens[left[i]]]

\* The tokens at these places make one option that is removed.
Banned(tokens, places) ==
    /\ \E i \in places : places \in {{i}, {i, i + 1}}
    /\ FlattenSeq(Rest(tokens, DOMAIN tokens \ places)) \in Development \cup Coverage

\* "compatible flags remain in order and warnings are denied"
\* (docs/users-guide.md): what the child gets is the effective flags, the
\* encoded ones when they are there, without whole options that are removed and
\* without any that would be one again, and ends with -D warnings; normalising
\* it again changes nothing.
FlagsAreSafe ==
    [][flags' # flags =>
         LET tokens == IF inherited.encoded = {} THEN inherited.plain
                       ELSE CHOOSE t \in inherited.encoded : TRUE
             again == [plain |-> flags', encoded |-> {}, profile |-> FALSE]
         IN /\ \E options \in SUBSET SUBSET DOMAIN tokens :
                 /\ \A places \in options : Banned(tokens, places)
                 /\ flags' \in {Rest(tokens, UNION options),
                                Rest(tokens, UNION options) \o Deny}
            /\ \A places \in SUBSET DOMAIN flags' : ~Banned(flags', places)
            /\ IsSuffix(Deny, flags')
            /\ ~Refused(again) /\ verification_flags(again) = flags']_vars

\* The exit status is zero only if the proof ran and exited with zero, and is
\* the proof's whenever it ran ("a signal becomes shell status 128 + signal",
\* docs/users-guide.md).
StatusIsProofs ==
    pc = "exited" => /\ status = 0 <=> ran /\ result = 0
                     /\ ran => status = IF result < 0 THEN 128 - result ELSE result
================================================================================
