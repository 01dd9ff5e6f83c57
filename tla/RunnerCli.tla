----------------------------- MODULE RunnerCli -----------------------------
(***************************************************************************)
(* The magnitude command.  Two programs implement it: runner/cli.ts and    *)
(* the older testRunner/cli.ts (program = "legacy").  A user runs either;  *)
(* the MCP server's tools (magnitude-mcp/src/tools.ts) run the former:     *)
(* runTests builds the command line of the default command,                *)
(* initializeProject installs the package and runs `magnitude init`, and   *)
(* each turns the exit code into its reply.                                *)
(*                                                                         *)
(* Default command: parse and validate the worker count, discover files    *)
(* and the config, choose the runner, load each test file under a display  *)
(* name from getRelativePath, run the tests, exit.  init: find the project *)
(* directory, refuse if it is not one or is already initialised, then      *)
(* mkdir and two writeFiles, any of which may throw.                       *)
(*                                                                         *)
(* Strings the properties look into (the -w argument, paths) are sequences *)
(* of one-character strings; parseInt, Number.prototype.toString and       *)
(* startsWith are modelled by what they do on them.                        *)
(***************************************************************************)
EXTENDS Integers, Sequences, SequencesExt

CONSTANTS
    ArgChars,    \* characters a user may type after -w
    MaxArgLen,   \* bound on the length of the -w argument
    McpWorkers,  \* runTests' workers argument, as twice its value, or NaN/Undefined
    NaN,         \* the JS NaN
    Undefined,   \* an absent JS value
    Roots,       \* project roots discovery/util's findProjectRoot may return
    Dirs,        \* directories a command may run in (none is the filesystem root)
    Files,       \* absolute test file paths glob may return
    InitFaults,  \* whether mkdir and writeFile may throw during init
    Pages        \* texts llms-full.txt may hold when buildTests fetches it

KeySources == <<"option", "env", "config">>  \* in the order || tries them

VARIABLES
    stage,       \* where the invocation is
    origin,      \* "user" or "mcp"
    program,     \* "runner" (runner/cli.ts) or "legacy" (testRunner/cli.ts)
    requested,   \* the workers argument runTests was given (mcp)
    workersArg,  \* options.workers: the -w string, or the default "1"
    keys,        \* which of option/env/config hold a truthy API key
    opts,        \* [local, remote]: the -l and -r options
    runner,      \* the config of the runner constructed, or NoRunner
    root,        \* projectRoot
    pending,     \* test files still to load
    shown,       \* display names passed to loadTestFile
    exitCode,
    command,     \* the subcommand: "run" (the default) or "init"
    cwd,         \* process.cwd()
    pkgDirs,     \* the directories that hold a package.json
    disk,        \* per directory, which of tests/magnitude/{magnitude.config.ts,
                 \* example.mag.ts} exist
    initDir,     \* the directory init works in, or Undefined
    mcpReply,    \* the MCP tool's reply: "none", "success" or "failure"
    page,        \* the documentation text buildTests fetched
    mcpText      \* the section buildTests replies with

vars == <<stage, origin, program, requested, workersArg, keys, opts, runner,
          root, pending, shown, exitCode, command, cwd, pkgDirs, disk, initDir,
          mcpReply, page, mcpText>>

\* What a run of the default command leaves alone.
initVars == <<command, cwd, pkgDirs, disk, initDir, mcpReply, page, mcpText>>

Both == {"config", "example"}

-----------------------------------------------------------------------------
(* JS number <-> string conversions.                                      *)

DigitValue == "0" :> 0 @@ "1" :> 1 @@ "2" :> 2 @@ "3" :> 3 @@ "4" :> 4
              @@ "5" :> 5 @@ "6" :> 6 @@ "7" :> 7 @@ "8" :> 8 @@ "9" :> 9

IsDigit(c) == c \in DOMAIN DigitValue

DigitChar(d) == CHOOSE c \in DOMAIN DigitValue : DigitValue[c] = d

\* Decimal digits of n >= 0.
RECURSIVE Decimal(_)
Decimal(n) == IF n < 10 THEN << DigitChar(n) >>
              ELSE Decimal(n \div 10) \o << DigitChar(n % 10) >>

\* Number.prototype.toString of h/2 (runTests' workers argument).
NumberToString(h) ==
    LET a == IF h < 0 THEN -h ELSE h
        sign == IF h < 0 THEN << "-" >> ELSE << >>
    IN IF h = NaN THEN << "N", "a", "N" >>
       ELSE sign \o Decimal(a \div 2) \o (IF a % 2 = 1 THEN << ".", "5" >> ELSE << >>)

\* parseInt(s, 10): skip leading white space, take an optional sign, then
\* read digits until the first non-digit; NaN if there are none.
RECURSIVE Accumulate(_, _)
Accumulate(acc, s) ==
    IF s # << >> /\ IsDigit(Head(s))
    THEN Accumulate(10 * acc + DigitValue[Head(s)], Tail(s)) ELSE acc

RECURSIVE ParseInt(_)
ParseInt(s) ==
    IF s # << >> /\ Head(s) = " " THEN ParseInt(Tail(s))
    ELSE LET neg == s # << >> /\ Head(s) = "-"
             rest == IF s # << >> /\ Head(s) \in {"-", "+"} THEN Tail(s) ELSE s
         IN IF rest = << >> \/ ~IsDigit(Head(rest)) THEN NaN
            ELSE IF neg THEN -Accumulate(0, rest) ELSE Accumulate(0, rest)

-----------------------------------------------------------------------------
(* Paths.  Every path here is absolute and already normal (glob with       *)
(* absolute: true, findProjectRoot), so path.normalize leaves it as is.    *)

PathString(p) == FlattenSeq([i \in 1..Len(p) |-> << "/" >> \o p[i]])

\* path.relative(root, p): climb out of the components not shared, then
\* descend into the rest of p.
Relative(from, to) ==
    LET k == Len(LongestCommonPrefix({from, to}))
    IN [i \in 1..(Len(from) - k) |-> << ".", "." >>] \o SubSeq(to, k + 1, Len(to))

getRelativePath(projectRoot, absolutePath) ==
    IF ~IsPrefix(PathString(projectRoot), PathString(absolutePath))
    THEN absolutePath
    ELSE Relative(projectRoot, absolutePath)

\* testRunner/cli.ts findProjectRoot: from the working directory upwards,
\* the first directory with a package.json; the loop stops when it reaches
\* the filesystem root (<< >>), which it never looks at, and returns null.
RECURSIVE FindProjectRoot(_)
FindProjectRoot(dir) ==
    IF dir = << >> THEN Undefined
    ELSE IF dir \in pkgDirs THEN dir
    ELSE FindProjectRoot(Front(dir))

-----------------------------------------------------------------------------
(* The default command.                                                    *)

\* Mutant of McpWorkersArg: the workers > 0 test dropped.
McpWorkersArgNoPositiveCheck(w) ==
    IF w \notin {Undefined, NaN, 0} /\ w % 2 = 0
    THEN NumberToString(w) ELSE Undefined

\* tools.ts runTests: -w is passed only for a positive integer.
McpWorkersArg(w) ==
    IF w \notin {Undefined, NaN, 0} /\ w % 2 = 0 /\ w > 0
    THEN NumberToString(w) ELSE Undefined

\* options.workers ? parseInt(options.workers, 10) : 1
WorkerCount(arg) == IF arg = << >> THEN 1 ELSE ParseInt(arg)

\* options.key || process.env.MAGNITUDE_API_KEY || config.apiKey || null
ApiKey(present) ==
    IF \E i \in 1..3 : present[KeySources[i]]
    THEN KeySources[CHOOSE i \in 1..3 : present[KeySources[i]]
                                        /\ \A j \in 1..(i - 1) : ~present[KeySources[j]]]
    ELSE "none"

NoRunner == [kind |-> "none", workers |-> 0, key |-> "none"]

\* The legacy program's options: `.option('-l', '--local', ...)` declares
\* an option named l (with '--local' as its description), so
\* options.local is always undefined; there is no -r and no -k.
LegacyOptions == [local |-> FALSE, remote |-> FALSE]

\* The legacy project root: findProjectRoot() ?? process.cwd().
LegacyProjectRoot ==
    IF FindProjectRoot(cwd) = Undefined THEN cwd ELSE FindProjectRoot(cwd)

\* new TestRunner(workerCount): always a local runner, with no key.
LegacyRunner(arg) == [kind |-> "local", workers |-> WorkerCount(arg), key |-> "none"]

\* The legacy init's project directory: findProjectRoot(), null if none.
LegacyInitDir == FindProjectRoot(cwd)

Init ==
    /\ stage = "idle"
    /\ origin = "user"
    /\ program = "runner"
    /\ requested = Undefined
    /\ workersArg = << "1" >>
    /\ keys = [k \in {"option", "env", "config"} |-> FALSE]
    /\ opts = [local |-> FALSE, remote |-> FALSE]
    /\ runner = NoRunner
    /\ root = << >>
    /\ pending = << >>
    /\ shown = << >>
    /\ exitCode = Undefined
    /\ command = "run"
    /\ cwd \in Dirs
    /\ pkgDirs \in SUBSET Dirs
    /\ disk \in [Dirs -> SUBSET Both]  \* an earlier init may have stopped half way
    /\ initDir = Undefined
    /\ mcpReply = "none"
    /\ page = << >>
    /\ mcpText = << >>

\* The command line as commander hands it to the action.  A user may type
\* any -w string, or leave it out (the default '1').  runTests
\* passes only a pattern and the -w it builds; the environment key is the
\* user's.
Invoke ==
    /\ stage = "idle"
    /\ \/ /\ origin' = "user"
          /\ \E a \in SeqOf(ArgChars, MaxArgLen) : workersArg' = a
          /\ \/ /\ program' = "runner"
                /\ \E l, r \in BOOLEAN : opts' = [local |-> l, remote |-> r]
                /\ \E o, e \in BOOLEAN : keys' = [keys EXCEPT !.option = o, !.env = e]
             \/ /\ program' = "legacy"
                /\ opts' = LegacyOptions
                /\ UNCHANGED keys
          /\ UNCHANGED requested
       \/ /\ origin' = "mcp"
          /\ program' = "runner"
          /\ \E w \in McpWorkers :
                /\ requested' = w
                /\ workersArg' = IF McpWorkersArg(w) = Undefined THEN << "1" >>
                                 ELSE McpWorkersArg(w)
          /\ opts' = [local |-> FALSE, remote |-> FALSE]
          /\ \E e \in BOOLEAN : keys' = [keys EXCEPT !.option = FALSE, !.env = e]
    /\ stage' = "parsed"
    /\ UNCHANGED initVars
    /\ UNCHANGED <<runner, root, pending, shown, exitCode>>

\* discoverTestFiles (a glob error gives no files), the project root (the
\* legacy program's own findProjectRoot, else discovery/util's), findConfig
\* and readConfig (which may or may not supply an API key).
Discover ==
    /\ stage = "parsed"
    /\ \E fs \in SUBSET Files : pending' = SetToSeq(fs)
    /\ IF program = "legacy"
       THEN /\ root' = LegacyProjectRoot
            /\ UNCHANGED keys
       ELSE /\ \E r \in Roots : root' = r
            /\ \E c \in BOOLEAN : keys' = [keys EXCEPT !.config = c]
    /\ stage' = "configured"
    /\ UNCHANGED initVars
    /\ UNCHANGED <<origin, program, requested, workersArg, opts, runner, shown,
                   exitCode>>

\* Mutant of BuildRunner: no process.exit(1) after "Missing API key!".
BuildRunnerNoExit ==
    /\ stage = "configured"
    /\ LET cfg == [workers |-> WorkerCount(workersArg)] IN
       runner' = cfg @@ [kind |-> IF opts.local THEN "local"
                                  ELSE IF opts.remote THEN "custom" ELSE "remote",
                         key |-> IF opts.local THEN "none" ELSE ApiKey(keys)]
    /\ stage' = "loading"
    /\ UNCHANGED initVars
    /\ UNCHANGED <<origin, program, requested, workersArg, keys, opts, root,
                   pending, shown, exitCode>>

\* The runner choice.  The worker count is validated (lines 151-154) only
\* by a message: the value parsed is what the runner receives.  The legacy
\* program always builds a local TestRunner.
BuildRunner ==
    /\ stage = "configured"
    /\ LET cfg == [workers |-> WorkerCount(workersArg)] IN
       IF program = "legacy"
       THEN /\ runner' = LegacyRunner(workersArg)
            /\ stage' = "loading"
            /\ UNCHANGED exitCode
       ELSE IF opts.local
       THEN /\ runner' = cfg @@ [kind |-> "local", key |-> "none"]
            /\ stage' = "loading"
            /\ UNCHANGED exitCode
       ELSE IF ~opts.remote /\ ApiKey(keys) = "none"
       THEN /\ stage' = "exited"
            /\ exitCode' = 1
            /\ UNCHANGED runner
       ELSE /\ runner' = cfg @@ [kind |-> IF opts.remote THEN "custom" ELSE "remote",
                                 key |-> ApiKey(keys)]
            /\ stage' = "loading"
            /\ UNCHANGED exitCode
    /\ UNCHANGED initVars
    /\ UNCHANGED <<origin, program, requested, workersArg, keys, opts, root,
                   pending, shown>>

\* runner.loadTestFile(filePath, getRelativePath(projectRoot, filePath)).
\* A throw here is outside the try: the rejection ends the process (1).
LoadTestFile ==
    /\ stage = "loading"
    /\ pending # << >>
    /\ shown' = Append(shown, getRelativePath(root, Head(pending)))
    /\ pending' = Tail(pending)
    /\ \/ UNCHANGED <<stage, exitCode>>
       \/ stage' = "exited" /\ exitCode' = 1
    /\ UNCHANGED initVars
    /\ UNCHANGED <<origin, program, requested, workersArg, keys, opts, runner,
                   root>>

\* runTests: success exits 0; failure, or a throw (caught, or in the legacy
\* program an unhandled rejection), exits 1.
RunTests ==
    /\ stage = "loading"
    /\ pending = << >>
    /\ \E code \in {0, 1} : exitCode' = code
    /\ stage' = "exited"
    /\ UNCHANGED initVars
    /\ UNCHANGED <<origin, program, requested, workersArg, keys, opts, runner,
                   root, pending, shown>>

-----------------------------------------------------------------------------
(* The init command: initializeProject, one action per await.              *)

Exit(code) == stage' = "exited" /\ exitCode' = code

runVars == <<origin, program, requested, workersArg, keys, opts, runner, root,
             pending, shown>>

\* The MCP initializeProject tool: `npm install magnitude-test` (a failure
\* is the tool's error reply), then `npx magnitude init`.
McpInitializeProject ==
    /\ stage = "idle"
    /\ origin' = "mcp"
    /\ program' = "runner"
    /\ \/ stage' = "installed" /\ UNCHANGED mcpReply
       \/ stage' = "replied" /\ mcpReply' = "failure"
    /\ UNCHANGED <<requested, workersArg, keys, opts, runner, root, pending,
                   shown, exitCode, command, cwd, pkgDirs, disk, initDir, page,
                   mcpText>>

\* initializeProject up to the existsSync check: runner/cli.ts takes the
\* working directory if it holds a package.json (isProjectRoot), the legacy
\* program the nearest directory above it that does (findProjectRoot); no
\* directory, or a config already there, exits 1.
InitCommand ==
    /\ \/ stage = "idle" /\ origin' = "user" /\ program' \in {"runner", "legacy"}
       \/ stage = "installed" /\ UNCHANGED <<origin, program>>
    /\ command' = "init"
    /\ LET dir == IF program' = "legacy" THEN LegacyInitDir
                  ELSE IF cwd \in pkgDirs THEN cwd ELSE Undefined
       IN /\ initDir' = dir
          /\ IF dir = Undefined \/ "config" \in disk[dir]
             THEN Exit(1)
             ELSE stage' = "init_mkdir" /\ UNCHANGED exitCode
    /\ UNCHANGED <<cwd, pkgDirs, disk, mcpReply, page, mcpText>>
    /\ UNCHANGED <<requested, workersArg, keys, opts, runner, root, pending, shown>>

\* await fs.promises.mkdir(testsDir, { recursive: true }); a throw lands in
\* the catch, which exits 1.
InitMkdir ==
    /\ stage = "init_mkdir"
    /\ \/ stage' = "init_config" /\ UNCHANGED exitCode
       \/ InitFaults /\ Exit(1)
    /\ UNCHANGED initVars
    /\ UNCHANGED runVars

\* Writing one of the two files: a write that fails may already have
\* created the file.
Written(f) == disk' = [disk EXCEPT ![initDir] = @ \cup {f}]
MaybeWritten(f) == disk' \in {disk, [disk EXCEPT ![initDir] = @ \cup {f}]}

\* await fs.promises.writeFile(configPath, ...).
InitWriteConfig ==
    /\ stage = "init_config"
    /\ \/ Written("config") /\ stage' = "init_example" /\ UNCHANGED exitCode
       \/ InitFaults /\ MaybeWritten("config") /\ Exit(1)
    /\ UNCHANGED <<command, cwd, pkgDirs, initDir, mcpReply, page, mcpText>>
    /\ UNCHANGED runVars

\* Mutant of InitWriteExample: the catch logs the error and returns, so the
\* process ends normally.
InitWriteExampleSwallowed ==
    /\ stage = "init_example"
    /\ \/ Written("example") /\ Exit(0)
       \/ InitFaults /\ MaybeWritten("example") /\ Exit(0)
    /\ UNCHANGED <<command, cwd, pkgDirs, initDir, mcpReply, page, mcpText>>
    /\ UNCHANGED runVars

\* await fs.promises.writeFile(examplePath, ...), then the success message;
\* the action returns and the process exits 0.
InitWriteExample ==
    /\ stage = "init_example"
    /\ \/ Written("example") /\ Exit(0)
       \/ InitFaults /\ MaybeWritten("example") /\ Exit(1)
    /\ UNCHANGED <<command, cwd, pkgDirs, initDir, mcpReply, page, mcpText>>
    /\ UNCHANGED runVars

-----------------------------------------------------------------------------
(* The MCP tools' replies.                                                 *)

\* Mutant of McpRespond: the catch of executeCliCommand's rejection returns
\* the success reply.
McpRespondAlwaysSuccess ==
    /\ stage = "exited"
    /\ origin = "mcp"
    /\ mcpReply' = "success"
    /\ stage' = "replied"
    /\ UNCHANGED <<command, cwd, pkgDirs, disk, initDir, exitCode, page, mcpText>>
    /\ UNCHANGED runVars

\* executeCliCommand settles when the process exits: it resolves on exit
\* code 0 (the success reply) and rejects otherwise (runTests' "executed
\* with failures" reply with isError, initializeProject's handleError).
McpRespond ==
    /\ stage = "exited"
    /\ origin = "mcp"
    /\ mcpReply' = IF exitCode = 0 THEN "success" ELSE "failure"
    /\ stage' = "replied"
    /\ UNCHANGED <<command, cwd, pkgDirs, disk, initDir, exitCode, page, mcpText>>
    /\ UNCHANGED runVars

-----------------------------------------------------------------------------
(* The MCP buildTests tool: fetch llms-full.txt and cut one section out.   *)
(* Texts are sequences of one-character strings; the three headings it     *)
(* searches for are shortened, keeping that none of them occurs inside     *)
(* another at the same index.  Indices are JavaScript's (0-based).         *)

BuildingHeading == << "#", "b" >>            \* "# Building Test Cases"
TestCasesHeading == << "#", "#", "t" >>      \* "## Test Cases"
ExampleHeading == << "#", "#", "#", "e" >>   \* "### Example of migrating ..."
Whitespace == {" "}

\* String.prototype.indexOf(s, from): the least index, at or after from
\* (a negative from counts as 0), where s occurs in t; -1 if none.
IndexOf(t, s, from) ==
    LET at == {i \in Max({from, 0})..(Len(t) - Len(s)) :
                 SubSeq(t, i + 1, i + Len(s)) = s}
    IN IF at = {} THEN -1 ELSE Min(at)

\* String.prototype.substring(a, b): each bound clamped to 0..Len(t), and
\* the two swapped if a > b.
Substring(t, a, b) ==
    LET Clamp(n) == Min({Max({n, 0}), Len(t)})
    IN SubSeq(t, Min({Clamp(a), Clamp(b)}) + 1, Max({Clamp(a), Clamp(b)}))

\* String.prototype.trim.
Trim(t) ==
    LET kept == {i \in DOMAIN t : t[i] \notin Whitespace}
    IN IF kept = {} THEN << >> ELSE SubSeq(t, Min(kept), Max(kept))

\* The section buildTests extracts: from "## Test Cases" (searched from
\* "# Building Test Cases") to the example heading after it, trimmed.
TestCasesSection(text) ==
    LET start == IndexOf(text, TestCasesHeading, IndexOf(text, BuildingHeading, 0))
    IN Trim(Substring(text, start, IndexOf(text, ExampleHeading, start)))

\* buildTests: a fetch that rejects or a response that is not ok is the
\* error reply (handleError); otherwise the reply carries the section,
\* between a fixed introduction and fixed closing notes.
McpBuildTests ==
    /\ stage = "idle"
    /\ origin' = "mcp"
    /\ command' = "build"
    /\ \E text \in Pages :
          /\ page' = text
          /\ \/ mcpReply' = "success" /\ mcpText' = TestCasesSection(text)
             \/ mcpReply' = "failure" /\ UNCHANGED mcpText
    /\ stage' = "replied"
    /\ UNCHANGED <<program, requested, workersArg, keys, opts, runner, root,
                   pending, shown, exitCode, cwd, pkgDirs, disk, initDir>>

Next ==
    \/ Invoke \/ Discover \/ BuildRunner \/ LoadTestFile \/ RunTests
    \/ McpInitializeProject \/ InitCommand \/ InitMkdir \/ InitWriteConfig
    \/ InitWriteExample \/ McpRespond \/ McpBuildTests

Spec == Init /\ [][Next]_vars

-----------------------------------------------------------------------------
(* Properties                                                              *)

Runners ==
    [kind : {"local", "custom"}, workers : Int \cup {NaN},
     key : {"option", "env", "config", "none"}]
    \cup [kind : {"remote"}, workers : Int \cup {NaN},
          key : {"option", "env", "config"}]

TypeOK ==
    /\ stage \in {"idle", "parsed", "configured", "loading", "installed",
                  "init_mkdir", "init_config", "init_example", "exited",
                  "replied"}
    /\ origin \in {"user", "mcp"}
    /\ program \in {"runner", "legacy"}
    /\ requested \in McpWorkers \cup {Undefined}
    /\ workersArg \in Seq(ArgChars \cup DOMAIN DigitValue \cup {"-", ".", "N", "a"})
    /\ runner \in Runners \cup {NoRunner}
    /\ root \in Roots \cup Dirs \cup {<< >>}
    /\ exitCode \in {Undefined, 0, 1}
    /\ command \in {"run", "init", "build"}
    /\ pkgDirs \subseteq Dirs
    /\ disk \in [Dirs -> SUBSET Both]
    /\ initDir \in Dirs \cup {Undefined}
    /\ mcpReply \in {"none", "success", "failure"}
    /\ page \in Seq(STRING)
    /\ mcpText \in Seq(STRING)

\* A run started by the MCP runTests tool gets the worker count the tool
\* was asked for when that is a positive integer, and the default of one
\* otherwise: tools.ts lines 52-54 composed with toString, commander's
\* default and parseInt in cli.ts line 149.
McpWorkerCount ==
    runner.kind # "none" /\ origin = "mcp" =>
        runner.workers =
            IF requested \notin {NaN, Undefined} /\ requested % 2 = 0 /\ requested > 0
            THEN requested \div 2 ELSE 1

\* The runner never receives an invalid worker count: lines 151-153 say an
\* invalid count means "Using default of 1".
WorkerCountPositive ==
    runner.kind # "none" => runner.workers # NaN /\ runner.workers >= 1

\* magnitude init reports success (exit 0) only when its project directory
\* holds both the config and the example test: the try/catch of
\* initializeProject (lines 92-113) turns every failed mkdir or writeFile
\* into exit 1.
InitOutcome ==
    command = "init" /\ exitCode = 0 => disk[initDir] = Both

\* An MCP tool reports success only for what the CLI achieved: for
\* initializeProject, a project holding both files; for runTests, a runner
\* that was built and ran every discovered file.  This composes tools.ts
\* (lines 14-31 and 56-87) with the CLI's exit codes.
McpReplyTruthful ==
    mcpReply = "success" =>
        CASE command = "init" -> initDir \in Dirs /\ disk[initDir] = Both
          [] command = "run" -> runner.kind # "none" /\ pending = << >>
          [] command = "build" -> TRUE

=============================================================================
