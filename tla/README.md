# TLA+ verification of the DSRTOS dynamic compilation fixer

The repository has one program, `src/PY/dsrtos_dynamic_fixer.py`. It runs a
loop that rebuilds a C project with `make` up to seven times. After each
failed build it classifies the diagnostics with regular expressions and
rewrites sources, the Makefile and a generated header. This directory models
that loop, checks it with TLC on small projects, and proves its main safety
properties with TLAPS for every project.

## The system and its parts

| Part | Code | Module |
|---|---|---|
| Convergence loop | `run_dynamic_fix` (374-491), `__init__` | `DynamicFixer` (detailed), `ConvergenceLoop` (abstract) |
| Diagnostic classifier | the `re.findall` calls and the six `if` triggers (45, 271-278, 304, 451-480) | `Classifier` |
| Corrective-action synthesizers | `fix_makefile_missing_rule`, `create_missing_source_file` and templates, `add_source_to_makefile`, `fix_forward_declaration_errors`, `fix_multiple_definitions`, `create_comprehensive_stubs`, `create_constants_file`, `remove_duplicate_macros` | `Synthesizers`, on the state of `Project` |
| Build driver | `get_compilation_output` (34-41) | `BuildDriver` (what make can print), actions in `DynamicFixer` |
| Backup | `create_backup` (25-32) | `CreateBackup` in `DynamicFixer`: `backup` is the copied tree |
| Export | `create_exports_structure` (333-372) | `Export`, run by `BuildSucceeds` |
| Logging, `main` | 20-23, 583-596 | not modelled: printing |

The parts interact in one thread. Each round:

1. The driver runs `make clean` and `make`.
2. On failure the loop tests six triggers in a fixed order. Each trigger that
   holds runs its synthesizer on the whole output and adds one to
   `fixes_applied`.
3. A round with no fixes breaks out (STUCK). After round 7 the loop falls out
   (EXHAUSTED). A build that passes ends the run (SUCCEEDED).

### State and abstraction (`Project`)

A source file is a record `[dir, name]`. Its text is reduced to what the
regular expressions and the compiler tell apart:

- `defs`: the functions it defines;
- `fwd`: the forward declarations the fixer inserted;
- `mdefs`: the macros it `#define`s;
- `hdrIncl`: how many `#include "dsrtos_auto_constants.h"` lines it has;
- `inclPos`: where its last `#include` starts (none, offset 0, later), for the
  `rfind('#include') > 0` test.

`exists` is the set of files on disk. `manifest[f]` is how many times the
Makefile lists `f`. `hdr` is the set of constants in the generated header.
The text the fixer never rewrites is constants of the model:

- `SymRefs`, `Calls`, `Paren`, `DeclLine` and `Uses` say which names a file
  mentions, and how;
- `EndsWith` and `StartsWith` model the regexes that also match longer names;
- `MainPath` is the set of paths that contain the substring `main.c`;
- `InsertCount` is how many source lists the insertion regex rewrites;
- `Mentioned` is the set of paths whose text `src/<name>` occurs in the
  Makefile outside a source list (a comment, a longer path), which the
  `source_path in content` test takes as already listed.

### Diagnostics and the build tool (`Classifier`, `BuildDriver`)

An output is a set of diagnostics `[kind, subj]` in six shapes:

- no rule to make a target;
- undeclared here;
- undeclared at first use;
- multiple definition;
- undefined reference;
- macro redefined.

Each extractor and trigger is the code's regex or substring test. Fix 2 is
triggered only by "undeclared here" but handles both undeclared shapes. Fix 5
takes every undeclared name that is a DSRTOS_ constant.

`make` is not part of the repository. `BuildDriver` states what we assume it
prints:

- a listed file that is missing gives "No rule";
- a unit reports the names it uses undeclared, and warns about a macro it
  redefines from a visible header;
- a failed build reports a non-empty subset of the failing units, plus the
  warnings of any passing units, because make stops at a failing unit in an
  order we do not know;
- only a tree where every unit compiles is linked. Each listed copy of a file
  contributes its definitions. A static declaration without a local
  definition is an undefined reference.

### The loop (`DynamicFixer`)

`pc` walks `start → build → fix1 … fix6 → decide`, then goes back to `build`
or ends in `succeeded`, `stuck` or `exhausted`. The actions are:

- `CreateBackup`, which copies the tree into `backup`;
- `BuildSucceeds` (with `create_exports_structure`), `BuildFails` and `BuildToolFails` (the `except` branch,
  whose output matches nothing);
- one `FixStep` per fix: the trigger and the whole synthesizer with its
  trailing Makefile insertion, or nothing when the trigger is false;
- `Decide`, with its three exits;
- `Done`, which stutters once the method has returned.

`changed` is an auxiliary variable used only to state `StallDetected`.

### Export (`Export`)

`exports[p]` is the set of source files whose copy `exports/phase<p>` holds.
The copies are flat, so a later copy of a name overwrites an earlier one.
`ExportOf(p)` keeps the files of `src/phase<p>`, then lets `src/main.c`,
`src/dsrtos_stubs.c` and `src/dsrtos_auto_stubs.c` overwrite any file of the
same name. The headers of `include/` are not files of the model, so their
copies are left out.

`ConvergenceLoop` is what the loop promises (spec section 4.4), without
diagnostics:

- the tree changes only between a failed build and the next build;
- round stays in `1..MaxIter`;
- STUCK and EXHAUSTED follow a failed round, EXHAUSTED only at round MaxIter.

`DynamicFixer` maps onto it as follows: `AbsStatus` is computed from `pc`,
`iteration` is the round, and the tuple of project variables is the tree.

## Runs

| Run | Module / cfg | Result | What it shows |
|---|---|---|---|
| `fixer_core` | `MCDynamicFixer` / `MCDynamicFixer.cfg` | pass, 1941 states | All safety properties, termination and the refinement, on a tree where every fix fires |
| `loop_abstract` | `MCConvergenceLoop` | pass, 110 states | The abstract loop, and the inductive invariant used in its proof |
| `double_insert` | `MCDynamicFixer` / `MCDoubleInsert.cfg` | violation of `ManifestIdempotent` | With no PHASE1 list and two `…C_SOURCES = \` lists, one insertion lists the stubs file twice (line 258) |
| `domain_strip` | `MCDomainStrip` | violation of `DefinitionPreserved` | `"main.c" in str(path)` holds for `src/domain.c`: fix 3 strips the module's definition too (line 319) |
| `own_macro` | `MCOwnMacro` | violation of `OwnDefinitionKept` | Fix 5 includes the generated header in `main.c`, which defines `DSRTOS_TICK` itself. Fix 6 then deletes `main.c`'s own value |
| `mentioned_path` | `MCDynamicFixer` / `MCMentioned.cfg` | violation of `Registered` | The Makefile mentions `src/dsrtos_stubs.c` outside its lists: fix 4 creates the stubs file, and the early return of line 246 never lists it |
| `suffix_strip` | `MCSuffixStrip` | violation of `HandWrittenKept` | Fix 3's strip regex for `dsrtos_init` also deletes `main.c`'s `app_dsrtos_init`, defined nowhere else (line 324) |
| `static_stub` | `MCStaticStub` | violation of `HandWrittenKept` | Fix 2 declares `hook` `static` in `drv.c` (line 293), though `main.c` defines it. The link reports an undefined local `hook`, fix 4 stubs it (line 497), and fix 3 then strips `main.c`'s only definition (line 319) |
| `include_at_start` | `MCDeclaration` / `MCIncludeAtStart.cfg` | violation of `ForwardDeclared` | `drv.c`'s only `#include` is its first line: `rfind` returns 0 and no declaration is inserted (line 291) |
| `first_use` | `MCDeclaration` / `MCFirstUse.cfg` | violation of `ForwardDeclared` | `hook` is reported only as undeclared at first use, and fix 2 is triggered only by "undeclared here" (line 456) |
| `export_clash` | `MCExportClash` | violation of `ExportComplete` | `src/main.c` is copied after `src/phase1/main.c` and overwrites it in `exports/phase1` (line 367) |
| `stall` | `MCStall` | violation of `StallDetected` | A multiple definition between two module files counts as a fix every round. Nothing changes, and the loop rebuilds until EXHAUSTED instead of stopping STUCK |

The core scenario (`MCDynamicFixer`) has 8 paths:

- `src/main.c` and `src/phase1/sched.c` both define `dsrtos_init`;
- `sched.c` calls `dsrtos_memory_init`, which is defined nowhere;
- `src/drv.c` names `hook` before declaring it and uses `DSRTOS_HEAP_SIZE`;
- `src/phase2/irq.c` uses `DSRTOS_ERROR_HARDWARE`;
- `main.c` redefines `DSRTOS_ERROR_FATAL` from a header, and defines and uses
  its own `DSRTOS_TICK`;
- the Makefile lists a missing `src/dsrtos_timer.c`.

With `MaxIter = 7`, the code's bound, every trigger fires and fails to fire.
All three terminal states are reachable. EXHAUSTED arises because the header
is overwritten each round with only that round's constants: when make stops
at `drv.c` or at `irq.c` alone, the other file's constant disappears. Each of
these branches was confirmed reachable by a property asserting it never
happens, which TLC refuted. Smaller trees do not reach EXHAUSTED. Larger ones
add states, not new branches of the code.

Each property of a passing run has a mutant in `PROJECT.json`: a plausible
bug in the mapped code, defined just before it (the operators commented
"Fault model"). TLC finds the property violated with that bug in place.

### Properties

| Property | What it states |
|---|---|
| `ManifestIdempotent` | Every path stays listed as the project had it, or exactly once |
| `IncludeOnce` | No file has two includes of the generated header |
| `DefinitionPreserved` | No file other than one named `main.c` loses a function it defined (spec 4.2) |
| `OwnDefinitionKept` | A macro a file defines and uses itself stays defined there unless a hand-written header defines it |
| `BackupBeforeChange` | Once the tree differs from the original, the backup holds the original tree (spec 2) |
| `Registered` | Every file the fixer created is listed in the Makefile (spec 7) |
| `HandWrittenKept` | Every function with a hand-written definition keeps one outside the stubs file |
| `ForwardDeclared` | After fix 2's turn, every reported undeclared function that some file calls is declared somewhere, by the code's own test (spec 4.2) |
| `ExportComplete` | After success, each phase export holds every file of its phase and the fixed entry and stub files (spec 6) |
| `StallDetected` | A round that changed nothing ends with `fixes_applied = 0` (spec 4.4) |
| `Terminates` | The run ends (spec 8) |
| `RefinesLoop` | `DynamicFixer` implements `ConvergenceLoop` |

The inductive invariants of the proofs (`IInv` of both loops, `BackupInv`,
and `MacroInv` and `DeclInv` of the proof modules) are not run properties.
Each was checked with TLC on the core scenario before its proof was
written, and each is now proved. They restate the counter reset, the
initial state and the properties they strengthen, so a run checking them
would say nothing new.

### Fairness

`Spec` assumes `WF_vars(Next)`. The fixer is a single thread that never waits
on anything but `make`, so an enabled step is eventually taken, provided
every build returns. `subprocess.run` has no timeout (line 38), so a hanging
build is outside this assumption. That case is listed as a hazard.

## Proofs (TLAPS)

| Module | Theorem | Statement |
|---|---|---|
| `ConvergenceLoopProofs` | `FirstRoundSuccessUntouchedThm`, `TypeCorrect`, `IInvThm` | A first-round success leaves the tree untouched, round stays in range, and `Spec => []IInv` |
| `DynamicFixerProofs` | `TypeCorrect`, `IInvThm` | `Spec => []TypeOK` and `Spec => []IInv` |
| `DynamicFixerProofs` | `ManifestIdempotentThm` | Under `InsertCount = 1`, `Spec => []ManifestIdempotent` |
| `DynamicFixerProofs` | `IncludeOnceThm` | `Spec => []IncludeOnce` |
| `DynamicFixerSafety` | `BackupBeforeChangeThm` | `Spec => []BackupBeforeChange` |
| `DynamicFixerSafety` | `RegisteredThm` | Under `InsertCount >= 1` and `Mentioned = {}`, `Spec => []Registered` |
| `DynamicFixerSafety` | `BackupInvThm` | `Spec => []BackupInv` |
| `DynamicFixerSafety` | `DefinitionPreservedThm` | Under `DefinitionHyp`, `Spec => []DefinitionPreserved` |
| `DynamicFixerSafety` | `ExportCompleteThm` | Under `ExportHyp`, `Spec => []ExportComplete` |
| `DynamicFixerMacros` | `OwnDefinitionKeptThm` | Under `MacroHyp`, `Spec => []OwnDefinitionKept` |
| `DynamicFixerDeclarations` | `ForwardDeclaredThm` | Under `DeclHyp`, `Spec => []ForwardDeclared` |
| `DynamicFixerRefinement` | `RefinesLoopThm` | `Spec => RefinesLoop` |

All of these hold for every value of the constants that satisfies the
`ASSUME`s of `Project`, `DynamicFixer` and `ConvergenceLoop`.

- **ConvergenceLoop.** `TypeOK` alone is not inductive. The invariant `IInv`
  adds that in round 1, before a failed build, the tree is still `Tree0`.
- **TypeOK of DynamicFixer.** `TypeOK` is not inductive either: `fixes + 1`
  could leave `0..6`. `IInv` adds that at fix *i* at most *i-1* fixes have
  been counted.
  - Lemmas show that every output `make` can print is well formed
    (`FailureOutputsType`) and that each synthesizer preserves the project's
    type.
  - `NextIInv` takes one case per action.
- **ManifestIdempotent and IncludeOnce.** Each follows from `IInv` and a step
  lemma (`ManifestStep`, `IncludeStep`) describing how any step may change
  the Makefile or the includes:
  - `add_source_to_makefile` inserts only when the count is 0;
  - `create_constants_file` includes only when the count is 0;
  - fix 1 and fix 4 write new files with no include.
- **ManifestIdempotent needs `InsertCount = 1`.** `double_insert` shows it
  fails otherwise.
- **BackupBeforeChange.** `BackupInv` says that at `start` the tree is the
  original and no backup exists, and that away from `start` the backup is
  the original. Only `create_backup` runs at `start`, and no other step
  returns there or touches the copy (`StartStep`, `AwayFromStart`).
- **Registered.** `add_source_to_makefile` never lowers a count
  (`AddSourceMonotone`). With at least one matching source list and no
  stray mention, it lists every path it is given (`AddSourceRegisters`).
  Fix 1 creates only `src/<n>` for names it then registers, and fix 4 only
  the stubs file. `mentioned_path` shows that the second assumption is
  needed. Without the first, the regex rewrites no list and nothing is
  registered.
- **DefinitionPreserved.** `DefinitionHyp` has three conditions:
  - the substring test `"main.c" in str(path)` picks out exactly the files
    named `main.c` (`MainPath = EntryFiles`);
  - the project has no hand-written definition in `src/dsrtos_stubs.c`;
  - a file that does not exist defines nothing.

  `domain_strip` shows the first condition is needed. The hazard at line
  497 is the second. The third only says the initial state is a real tree.
  The property alone is not inductive. The proof's invariant adds `IInv`
  (for the type of `defs`) and `Exists0 \subseteq exists`: no file the
  fixer found ever disappears. TLC checked this invariant on the core
  scenario before the proof. Each step then falls into one of four cases:
  - fix 3 strips only in `main.c` files;
  - fix 4 rewrites only the stubs file;
  - fix 1 writes a template only into `src/<n>` when no search directory
    holds `<n>`, so that file is not one the fixer found
    (`CreatedIsNew`);
  - every other step leaves `defs` and `exists` alone.
- **ExportComplete.** `ExportHyp` says that no file of `src/phase1` or
  `src/phase2` is named like a fixed export. `export_clash` shows that this
  is needed. The invariant is `IInv /\ ExportComplete`:
  - the only step into `succeeded` is `BuildSucceeds`, and from
    `succeeded` only stutters follow (`IntoSucceeded`);
  - `create_exports_structure` copies every phase file, because no phase
    file shares a name with an entry copy (`ExportOfComplete`).
- **OwnDefinitionKept.** Call a macro that a source file both defines and
  uses, and that no hand-written header defines, an *own macro*
  (`OwnMacros`). `MacroHyp` has three conditions:
  - files that do not exist, and the stubs file, define no macros;
  - a file that uses an own macro defines it itself;
  - no header or upper-case name is a prefix of an own macro.

  `own_macro` breaks the second condition: `drv.c` uses `main.c`'s
  `DSRTOS_TICK`. The third excludes the prefix match of fix 6's
  `^#define\s+MACRO.*$` (line 576). No run's scenario has a constant that
  is a prefix of another. On a scenario where `DSRTOS_TICK` is a prefix of
  `main.c`'s own `DSRTOS_TICK_RATE`, TLC finds `OwnDefinitionKept`
  violated, so this condition is needed. The invariant `MacroInv` adds to
  `IInv`:
  - no file the fixer found disappears;
  - the generated header defines no own macro;
  - `OutputSpares(output)`: no missing-constant or redefinition diagnostic
    of the last build names an own macro.

  The last conjunct is why the property is not inductive alone. The build
  sets it (`BuildOutputSpares`), because every diagnostic `make` prints
  comes from a unit that uses the name without defining it
  (`FailureOutputsOrigin`, `UnitDiagSubj`). Fixes 5 and 6 then read that
  output and touch no own macro. Fix 1 writes only new files.
- **ForwardDeclared.** `DeclHyp` says that every symbol a file calls is
  reported "undeclared here", and that every file's last `#include` is past
  offset 0. `first_use` and `include_at_start` break exactly these two
  conditions. The invariant `DeclInv` adds to `IInv`:
  - every file keeps its include position "later" (`NextAllLater`);
  - the last build reported no symbol as undeclared at first use
    (`FirstSpares`).

  The key lemma is `Fix2Declares`. For a reported symbol that some file
  calls, either a file already declares it, or a file earlier in the scan
  takes the declaration, or the calling file is eligible. In that last case
  the set of eligible files has cardinality at least 1, so fix 2 takes at
  least one file for the symbol.
- **Refinement.** Initial states map to the abstract initial state. Each
  action maps to the matching abstract step:
  - build steps to BuildSucceeds or BuildFails;
  - fixes to Correct, using `TypeOK'` for the tree's type;
  - `Decide` to Stall, Exhaust or Advance;
  - backup and `Done` to stutters.

  Together with `FirstRoundSuccessUntouchedThm`, this gives spec section 8's
  claim that a first-round success makes no mutations.

### What only TLC checks

These are checked only by TLC:

- Liveness (`Terminates`) needs fairness and ENABLED.
- `HandWrittenKept` is false in general (`suffix_strip`, `static_stub`)
  and holds in the core scenario. A proof would need hypotheses on the
  symbols and the Makefile that exclude several independent behaviours:
  - no function name is a suffix of another (`suffix_strip`);
  - no file is listed twice;
  - no stub shadows a template written later;
  - no function that `main.c` defines is called from another file before
    it is declared there (`static_stub`).

  Its inductive invariant would also have to follow the diagnostics across
  three rounds, from fix 2's declaration through fix 4's stub to fix 3's
  strip. So this property is left to TLC.
- `OwnDefinitionKept` and `ForwardDeclared` are proved under `MacroHyp`
  and `DeclHyp`. Each hypothesis holds in the core scenario and fails in
  its violation runs (`own_macro`; `include_at_start` and `first_use`).
- `DefinitionPreserved` and `ExportComplete` are proved under their
  hypotheses. Without them, TLC finds the violations of `domain_strip` and
  `export_clash`.

## Not modelled

- The content of generated files beyond the names they define. Stub bodies,
  constant values, comments and dates are formatting.
- Logging, memory-usage reporting and `main`: printing only.
- The header copies of `create_exports_structure`, since headers other than
  the generated one are not part of the model.
- Two runs of the fixer: the backup directory is named to the second and
  copied with `dirs_exist_ok=True`, so a second run in the same second
  overwrites the first backup. This is listed as a hazard.
- I/O errors inside synthesizers, which would abort a round half done. This
  is a hazard in `PROJECT.json`.
- A hand-written `src/dsrtos_stubs.c`, which fix 4 overwrites. This is
  listed as a hazard.
- Prototypes as distinct from call statements: the declaration regex of
  line 288 takes both for a declaration, and `ForwardDeclared` uses the same
  test, so that hazard has no property yet.
