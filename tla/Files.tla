-------------------------------- MODULE Files --------------------------------
(***************************************************************************)
(* The files a configuration leaves on the disk, and the build that reads  *)
(* them: .config with its temporary file and its last version              *)
(* (conf_write), the four files of a build's own (conf_write_autoconf),    *)
(* the empty file of each symbol that is touched when its value changes    *)
(* (conf_touch_deps), and the dependencies fixdep writes for an object.    *)
(* A program may be killed between any two of its system calls, a disk may *)
(* be full, and the Kconfig files may be edited between two runs.          *)
(*                                                                         *)
(* One program runs at a time: pc is the call it makes next, "shell" when  *)
(* none runs.  What make compares are times of files; every write is later *)
(* than the ones before it, so that it is enough to know which targets are *)
(* older than something they depend on: outdated and newer.  The values    *)
(* the programs calculate are those of SymbolCalc, here CalcValues: they   *)
(* depend on what the user has entered and on the order of the members of  *)
(* each choice (choice_members), which every file that is read changes.    *)
(* KCONFIG_OVERWRITECONFIG is not set.                                     *)
(***************************************************************************)
EXTENDS Naturals, FiniteSetsExt, Sequences, Functions, TLC

CONSTANTS
    Symbols,                  \* every symbol any version of the Kconfig files has
    Values,                   \* "n", "m", "y" and what a number or a string may be
                              \* (that does not begin with one of these letters)
    Decimal, Hexadecimal,     \* the values that an int may have, and those of a hex
    Prefixed,                 \* the values that begin with 0x
    Kconfigs,                 \* the versions of the Kconfig files
    Types,                    \* [Kconfigs -> functions from their symbols to types]
    Members,                  \* [Kconfigs -> the symbols that are members of a choice]
    CalcValues(_, _, _),      \* values of the written symbols: version, entered
                              \* values, order of the choice members
    Entered,                  \* what a user may enter: a set of partial functions
    Objects,                  \* the objects make builds
    DepFile,                  \* [Objects -> the rules of the compiler's .d file]
    Words,                    \* [file -> the CONFIG_ words of it]
    Rust,                     \* the objects compiled by rustc
    Nothing,                  \* there is no such file
    MaxEdits,                 \* how often Kconfig files or a .config are edited
    MaxFaults                 \* how often a program dies or a write fails

VARIABLES
    kconfig,    \* the version of the Kconfig files
    disk,       \* the files of the configuration: their content or Nothing
    outdated,   \* the targets of syncconfig older than .config or a Kconfig file
    newer,      \* for each object the files of symbols newer than it
    compiled,   \* for each object what it saw of the configuration when compiled
    pc,         \* the call the running program makes next
    tool,       \* "sync", "conf" (its other modes) or "gui" (xconfig and the like)
    user,       \* the values entered, in .config or by the user
    order,      \* which members of a choice go before which others
    calculated, \* the values the running program has calculated
    todo,       \* the symbols whose file is still to be touched
    mine,       \* the .config last written in full
    damage,     \* writes of .config since then that did not end well
    unnoticed,  \* symbols with a change that no touched file shows
    strayed,    \* symbols that auto.conf gives another value than .config, since
                \* the values were calculated again in between
    version,    \* the version of the Kconfig files auto.conf was written from
    edits, faults

vars == <<kconfig, disk, outdated, newer, compiled, pc, tool, user, order,
          calculated, todo, mine, damage, unnoticed, strayed, version, edits, faults>>
process == <<pc, tool, user, order, calculated, todo>>
build == <<newer, compiled, unnoticed, strayed, version>>

Empty == [s \in {} |-> "n"]
\* The symbols sym_find() finds; those of type "unknown" are only mentioned.
Known == DOMAIN Types[kconfig]
IsBool(k, s) == Types[k][s] \in {"bool", "tristate"}
Only(values, S) == Restrict(values, DOMAIN values \intersect S)

\* The values conf_set_sym_val() takes for a symbol, by its type.
Fits(type, value) ==
    CASE type = "bool"     -> value \in {"y", "n"}
      [] type = "tristate" -> value \in {"y", "m", "n"}
      [] type = "int"      -> value \in Decimal
      [] type = "hex"      -> value \in Hexadecimal
      [] type = "string"   -> TRUE
      [] type = "unknown"  -> FALSE

\* The orders in which the members of each choice may stand: <<s, t>> when s goes
\* before t.
Orders(k) ==
    {o \in SUBSET (Members[k] \X Members[k]) :
        \A s, t \in Members[k] :
            /\ (<<s, t>> \in o) <=> (s # t /\ <<t, s>> \notin o)
            /\ \A u \in Members[k] : <<s, t>> \in o /\ <<t, u>> \in o => <<s, u>> \in o}

\* The engine gives values to symbols it knows, of their type, and reading what
\* was written gives them again, in whatever order (RoundTrip of SymbolCalc).
Configurations == UNION {[S -> Values] : S \in SUBSET Symbols}
Proper(k, values) ==
    /\ values \in Configurations
    /\ DOMAIN values \subseteq DOMAIN Types[k]
    /\ \A s \in DOMAIN values : Fits(Types[k][s], values[s])
    /\ \A o \in Orders(k) : CalcValues(k, values, o) = values

ASSUME CalcAssumption ==
    \A k \in Kconfigs, given \in Configurations :
        \A o \in Orders(k) : Proper(k, CalcValues(k, given, o))
ASSUME EnteredAssumption == Entered \subseteq Configurations
ASSUME NothingAssumption == Nothing \notin Configurations \cup Kconfigs

---------------------------------------------------------------------------
(* What the files say of a set of values.                                  *)

\* auto.conf has no line for a symbol that is n, .config has "is not set".
AutoConf(k, values) == Only(values, {s \in DOMAIN values : ~(IsBool(k, s) /\ values[s] = "n")})

\* A word of a source file: CONFIG_<sym>, with _MODULE or without.
Word(s, module) == [sym |-> s, module |-> module]

\* The digits of a hex value get a 0x before them.
Text(k, s, value) ==
    <<IF Types[k][s] = "hex" /\ value \notin Prefixed THEN "0x" ELSE "", value>>

\* The macro of autoconf.h: CONFIG_<sym>_MODULE is what an m becomes, and a
\* string has quotes.
Macro(k, s, value) ==
    <<Word(s, IsBool(k, s) /\ value = "m"),
      IF IsBool(k, s) THEN <<"", "1">>
      ELSE IF Types[k][s] = "string" THEN <<"quoted", value>> ELSE Text(k, s, value)>>

\* The flags of rustc_cfg: every symbol has its value, always with quotes, and one
\* that is y or m is named besides.
Flags(k, s, value) ==
    {<<Word(s, FALSE), Text(k, s, value)>>}
        \cup (IF IsBool(k, s) THEN {<<Word(s, FALSE), <<"named", "">>>>} ELSE {})

\* The lines of auto.conf as they stand in the other two files.
Header(k, lines) == {Macro(k, s, lines[s]) : s \in DOMAIN lines}
RustCfg(k, lines) == UNION {Flags(k, s, lines[s]) : s \in DOMAIN lines}

---------------------------------------------------------------------------
(* fixdep: what an object depends on.  A rule is a record of a target and  *)
(* the sequence of files after the colon, the source first.                *)

is_ignored_file(f) == f = "autoconf.h"
is_no_parse_file(f) == f = "lib.rmeta"

\* Only the first rule's first file is the source; a later one is left out.
Parsed(o) ==
    {DepFile[o][1][1]}
        \cup {f \in UNION {{DepFile[o][r][i] : i \in 2 .. Len(DepFile[o][r])} :
                           r \in DOMAIN DepFile[o]} : ~is_ignored_file(f)}

\* A word with _MODULE is a use of the symbol without it.
use_config(word) == word.sym

parse_dep_file(o) ==
    {use_config(w) : w \in UNION {Words[f] : f \in {g \in Parsed(o) : ~is_no_parse_file(g)}}}

\* What the source and the headers of an object look up in a set of values.
Reads(o) == UNION {Words[f] : f \in Parsed(o)}

\* fixdep need not look into the files of other crates: they hold no words.
ASSUME NoParseAssumption ==
    \A o \in Objects : \A f \in Parsed(o) : is_no_parse_file(f) => Words[f] = {}
Sees(o, header, rustcfg) ==
    {p \in (IF o \in Rust THEN rustcfg ELSE header) : p[1] \in Reads(o)}

---------------------------------------------------------------------------
Generated == {"auto.conf", "auto.conf.cmd", "autoconf.h", "rustc_cfg"}

Init ==
    /\ kconfig \in Kconfigs
    /\ disk = [f \in {".config", ".config.old", "tmp"} \cup Generated |-> Nothing]
    /\ outdated = {}
    /\ newer = [o \in Objects |-> {}]
    /\ compiled = [o \in Objects |-> Nothing]
    /\ pc = "shell" /\ tool = "gui" /\ todo = {}
    /\ user = Empty /\ order = {} /\ calculated = Empty
    /\ mine = Nothing /\ damage = 0
    /\ unnoticed = {} /\ strayed = {} /\ version = Nothing
    /\ edits = 0 /\ faults = 0

\* make runs syncconfig first when it finds one of the two files it includes
\* missing or older than .config, or auto.conf older than a Kconfig file.
NeedSync ==
    \/ disk["auto.conf"] = Nothing \/ disk["auto.conf.cmd"] = Nothing
    \/ outdated # {}

ExitTo(next) ==
    /\ pc' = next
    /\ IF next = "shell"
       THEN /\ tool' = "gui" /\ todo' = {}
            /\ user' = Empty /\ order' = {} /\ calculated' = Empty
       ELSE UNCHANGED <<tool, user, order, calculated, todo>>

---------------------------------------------------------------------------
(* The user.                                                               *)

\* The Kconfig files are edited: auto.conf.cmd makes auto.conf depend on them.
EditKconfig(k) ==
    /\ pc = "shell" /\ edits < MaxEdits
    /\ k # kconfig
    /\ kconfig' = k /\ edits' = edits + 1
    /\ outdated' = outdated \cup {"auto.conf"}
    /\ UNCHANGED <<disk, process, build, mine, damage, faults>>

\* What conf_read() takes from .config: no file, no values; a symbol the
\* Kconfig files do not have is left out.
conf_read == IF disk[".config"] = Nothing THEN Empty ELSE Only(disk[".config"], Known)

\* Answers go before what .config says.
Over(answers, values) ==
    [s \in DOMAIN answers \cup DOMAIN values |->
        IF s \in DOMAIN answers THEN answers[s] ELSE values[s]]

\* A program of kind t has read .config and got the user's answers: syncconfig
\* asks for the symbols only that have no value yet.  The members of a choice are
\* in the order of the lines of .config, which may be any, and of the answers.
Run(t, answers) ==
    /\ pc = "shell"
    /\ pc' = "write" /\ tool' = t /\ todo' = {}
    /\ user' = Over(answers, conf_read)
    /\ order' \in Orders(kconfig)
    /\ calculated' = CalcValues(kconfig, user', order')
    /\ UNCHANGED <<kconfig, disk, outdated, build, mine, damage, faults>>

Configure(t, answers) ==
    /\ t \in {"conf", "gui"}
    /\ IF disk[".config"] = Nothing THEN UNCHANGED edits
                                    ELSE edits < MaxEdits /\ edits' = edits + 1
    /\ Run(t, Only(answers, Known))

syncconfig(answers) ==
    /\ NeedSync /\ disk[".config"] # Nothing
    /\ DOMAIN answers \intersect DOMAIN conf_read = {}
    /\ Run("sync", Only(answers, Known))
    /\ UNCHANGED edits

\* With KCONFIG_NOSILENTUPDATE syncconfig gives up when it would have to change
\* .config, and goes on without writing it when not.
NoSilentUpdate ==
    /\ pc = "write" /\ tool = "sync"
    /\ IF calculated = disk[".config"] THEN ExitTo("cmd") ELSE ExitTo("shell")
    /\ UNCHANGED <<kconfig, disk, outdated, build, mine, damage, edits, faults>>

---------------------------------------------------------------------------
(* conf_write.                                                             *)

\* conf_write_autoconf(): a program that is not syncconfig only makes up for a
\* missing auto.conf, and xconfig does not even that.
AfterWrite ==
    IF tool = "sync" \/ (tool = "conf" /\ disk["auto.conf"] = Nothing) THEN "cmd"
                                                                       ELSE "shell"

\* The file next to .config is written; nothing looks whether all of it could be.
WriteTmp ==
    /\ pc = "write"
    /\ \/ /\ disk' = [disk EXCEPT !["tmp"] = calculated]
          /\ UNCHANGED faults
       \/ /\ faults < MaxFaults /\ faults' = faults + 1
          /\ \E S \in SUBSET DOMAIN calculated :
                /\ S # DOMAIN calculated
                /\ disk' = [disk EXCEPT !["tmp"] = Only(calculated, S)]
    /\ ExitTo("compare")
    /\ UNCHANGED <<kconfig, outdated, build, mine, damage, edits>>

\* is_same(): a .config that says the same stays, with its time.
Compare ==
    /\ pc = "compare"
    /\ IF disk["tmp"] = disk[".config"]
       THEN ExitTo(AfterWrite) /\ disk' = [disk EXCEPT !["tmp"] = Nothing]
       ELSE ExitTo("old") /\ UNCHANGED disk
    /\ damage' = IF disk["tmp"] = disk[".config"] /\ disk["tmp"] # calculated
                 THEN damage + 1 ELSE damage
    /\ UNCHANGED <<kconfig, outdated, build, mine, edits, faults>>

\* As a mutant: the old version is not kept.
DropOld == pc = "old" /\ ExitTo("new")
           /\ UNCHANGED <<kconfig, disk, outdated, build, mine, damage, edits, faults>>

\* rename(name, oldname): without a .config the old version stays.
KeepOld ==
    /\ pc = "old"
    /\ disk' = IF disk[".config"] = Nothing THEN disk
               ELSE [disk EXCEPT ![".config.old"] = disk[".config"], ![".config"] = Nothing]
    /\ ExitTo("new")
    /\ UNCHANGED <<kconfig, outdated, build, mine, damage, edits, faults>>

\* rename(tmpname, name): from now on .config is newer than what was generated.
PutNew ==
    /\ pc = "new"
    /\ disk' = [disk EXCEPT ![".config"] = disk["tmp"], !["tmp"] = Nothing]
    /\ outdated' = {f \in Generated : disk[f] # Nothing}
    /\ IF disk["tmp"] = calculated THEN mine' = calculated /\ damage' = 0
                                   ELSE damage' = damage + 1 /\ UNCHANGED mine
    /\ ExitTo(AfterWrite)
    /\ UNCHANGED <<kconfig, build, edits, faults>>

---------------------------------------------------------------------------
(* conf_write_autoconf.  Its files are written next to their place, looked *)
(* at for errors and then renamed: an error ends the program, as does a    *)
(* kill, and leaves the file as it was.                                    *)

\* As a mutant: auto.conf is written before the symbols are touched.
ThenEarly == [cmd |-> "read", read |-> "vanished", vanished |-> "auto",
              touch |-> "header", header |-> "rust", rust |-> "shell", auto |-> "touch"]

\* The order of the steps: auto.conf comes last.
Then == [cmd |-> "read", read |-> "vanished", vanished |-> "touch",
         touch |-> "header", header |-> "rust", rust |-> "auto", auto |-> "shell"]

Put(f, content) ==
    /\ disk' = [disk EXCEPT ![f] = content]
    /\ outdated' = outdated \ {f}
    /\ ExitTo(Then[pc])
    /\ UNCHANGED <<kconfig, newer, compiled, unnoticed, strayed, mine, damage, edits, faults>>

conf_write_autoconf_cmd ==
    pc = "cmd" /\ Put("auto.conf.cmd", kconfig) /\ UNCHANGED version
WriteHeader ==
    /\ pc = "header" /\ Put("autoconf.h", Header(kconfig, AutoConf(kconfig, calculated)))
    /\ UNCHANGED version
WriteRustCfg ==
    /\ pc = "rust" /\ Put("rustc_cfg", RustCfg(kconfig, AutoConf(kconfig, calculated)))
    /\ UNCHANGED version
WriteAutoConf ==
    pc = "auto" /\ Put("auto.conf", AutoConf(kconfig, calculated)) /\ version' = kconfig

Lines == IF disk["auto.conf"] = Nothing THEN Empty ELSE disk["auto.conf"]

\* conf_set_sym_val() for auto.conf: a line whose value does not fit the type
\* the symbol has now is skipped without a word, as is one of a symbol that has
\* no type.
OldValues == Only(Lines, {s \in Known \intersect DOMAIN Lines : Fits(Types[kconfig][s], Lines[s])})

\* The lines that would make another macro or flag now, as an int's for a hex.
Retyped ==
    {s \in DOMAIN OldValues :
        \/ Macro(version, s, Lines[s]) # Macro(kconfig, s, Lines[s])
        \/ Flags(version, s, Lines[s]) # Flags(kconfig, s, Lines[s])}

\* The symbols whose file conf_touch_deps() touches: an old value that is not
\* the new one, a new value other than n without an old one, and an old value
\* without a new one.
ToTouch(new) ==
    {s \in Known :
        \/ s \in DOMAIN new \intersect DOMAIN OldValues /\ new[s] # OldValues[s]
        \/ s \in DOMAIN AutoConf(kconfig, new) \ DOMAIN OldValues
        \/ s \in DOMAIN OldValues \ DOMAIN new}

\* conf_read_simple() reads auto.conf: a symbol that is gone is touched when its
\* line is met.
ReadAutoConf ==
    /\ pc = "read"
    /\ pc' = Then[pc]
    /\ todo' = DOMAIN Lines \ Known
    /\ unnoticed' = unnoticed \cup ((Known \intersect DOMAIN Lines) \ DOMAIN OldValues)
                               \cup Retyped
    /\ UNCHANGED <<kconfig, disk, outdated, newer, compiled, tool, user, order, calculated,
                   mine, damage, strayed, version, edits, faults>>

conf_touch_dep(s) ==
    /\ newer' = [o \in Objects |-> IF s \in parse_dep_file(o) THEN newer[o] \cup {s}
                                                              ELSE newer[o]]
    /\ unnoticed' = unnoticed \ {s}
    /\ todo' = todo \ {s}
    /\ UNCHANGED faults

\* A symbol that is gone: whether its file could be touched is not looked at.
TouchVanished(s) ==
    /\ pc = "vanished" /\ s \in todo
    /\ \/ conf_touch_dep(s)
       \/ /\ faults < MaxFaults /\ faults' = faults + 1
          /\ unnoticed' = unnoticed \cup {s}
          /\ todo' = todo \ {s}
          /\ UNCHANGED newer
    /\ UNCHANGED <<kconfig, disk, outdated, compiled, pc, tool, user, order, calculated,
                   mine, damage, strayed, version, edits>>

\* What list_move() has made of the choices at the end of auto.conf: the members
\* with a line that was taken have come to the front, in an order that depends on
\* the hash table auto.conf was printed from, and the others are as they were.
Moved(o) ==
    \A s, t \in Members[kconfig] \ DOMAIN OldValues :
        /\ \A u \in Members[kconfig] \intersect DOMAIN OldValues : <<u, s>> \in o
        /\ <<s, t>> \in o <=> <<s, t>> \in order

\* All of auto.conf has been read, which made every value one to calculate again:
\* the entered ones are those of before, and the order is not.  What is to be
\* touched, and what will be generated, is what comes out now; .config is written.
VanishedTouched ==
    /\ pc = "vanished" /\ todo = {}
    /\ pc' = Then[pc]
    /\ order' \in {o \in Orders(kconfig) : Moved(o)}
    /\ calculated' = CalcValues(kconfig, user, order')
    /\ todo' = ToTouch(calculated')
    /\ strayed' = {s \in DOMAIN calculated \cup DOMAIN calculated' :
                      Only(calculated, {s}) # Only(calculated', {s})}
    /\ UNCHANGED <<kconfig, disk, outdated, newer, compiled, unnoticed, version, tool, user,
                   mine, damage, edits, faults>>

Touch(s) ==
    /\ pc = "touch" /\ s \in todo
    /\ conf_touch_dep(s)
    /\ UNCHANGED <<kconfig, disk, outdated, compiled, pc, tool, user, order, calculated,
                   mine, damage, strayed, version, edits>>

Touched ==
    /\ pc = "touch" /\ todo = {}
    /\ ExitTo(Then[pc])
    /\ UNCHANGED <<kconfig, disk, outdated, build, mine, damage, edits, faults>>

---------------------------------------------------------------------------
(* The machine and the build.                                              *)

\* The program is killed, or a call that it looks at fails and it exits.
Die ==
    /\ pc # "shell" /\ faults < MaxFaults
    /\ faults' = faults + 1
    /\ damage' = IF pc = "new" THEN damage + 1 ELSE damage
    /\ ExitTo("shell")
    /\ UNCHANGED <<kconfig, disk, outdated, build, mine, edits>>

\* make compiles an object it does not have, or one that is older than the file
\* of a symbol the object depends on.
ToCompile(o) == compiled[o] = Nothing \/ newer[o] # {}

Compile(o) ==
    /\ pc = "shell" /\ disk[".config"] # Nothing /\ ~NeedSync
    /\ ToCompile(o)
    /\ Nothing \notin {disk["autoconf.h"], disk["rustc_cfg"]}    \* the compiler's own test
    /\ compiled' = [compiled EXCEPT ![o] = Sees(o, disk["autoconf.h"], disk["rustc_cfg"])]
    /\ newer' = [newer EXCEPT ![o] = {}]
    /\ UNCHANGED <<kconfig, disk, outdated, process, mine, damage, unnoticed, strayed, version,
                   edits, faults>>

Next ==
    \/ \E k \in Kconfigs : EditKconfig(k)
    \/ \E t \in {"conf", "gui"}, answers \in Entered : Configure(t, answers)
    \/ \E answers \in Entered : syncconfig(answers)
    \/ NoSilentUpdate
    \/ WriteTmp \/ Compare \/ KeepOld \/ PutNew
    \/ conf_write_autoconf_cmd \/ ReadAutoConf
    \/ \E s \in Symbols : TouchVanished(s) \/ Touch(s)
    \/ VanishedTouched \/ Touched
    \/ WriteHeader \/ WriteRustCfg \/ WriteAutoConf
    \/ Die
    \/ \E o \in Objects : Compile(o)

Spec == Init /\ [][Next]_vars

---------------------------------------------------------------------------
(* Safety.                                                                 *)

\* The configuration last written in full is found in .config or next to it,
\* whatever one kill or one full disk does to the writing of the next, at any
\* moment of it (conf_write, confdata.c:890-902).  The write under way counts
\* as one that has not ended well yet: a second one has only one old version.
ConfigSurvives ==
    mine # Nothing /\ damage + (IF pc = "new" THEN 1 ELSE 0) <= 1 =>
        \E f \in {".config", ".config.old", "tmp"} : disk[f] = mine

Made == /\ pc = "shell" /\ disk[".config"] # Nothing /\ ~NeedSync
        /\ \A o \in Objects : ~ToCompile(o)

\* When make has nothing left to do, every object is what the compiler would
\* make of the headers now, and the headers say what .config says, however often
\* syncconfig was stopped on the way: what an object reads of the configuration
\* has not changed since it was compiled (conf_write_autoconf, "this must be the
\* last step", confdata.c:1105).
\*
\* What is excepted is what the code does not look at.  Unnoticed: a line of
\* auto.conf that does not fit the type the symbol has now, or that would make
\* another macro now; a symbol that is gone and still mentioned, or whose file
\* could not be touched.  Strayed: a symbol with another value after auto.conf
\* has changed the order of the members of a choice.  And a .config cut short.
Rebuilt ==
    Made =>
        /\ \A o \in Objects :
             \A p \in SymDiff(compiled[o], Sees(o, disk["autoconf.h"], disk["rustc_cfg"])) :
                 p[1].sym \in unnoticed
        /\ damage = 0 => \A o \in Orders(kconfig) :
             LET lines == AutoConf(kconfig, CalcValues(kconfig, conf_read, o))
             IN \A p \in SymDiff(disk["autoconf.h"], Header(kconfig, lines))
                            \cup SymDiff(disk["rustc_cfg"], RustCfg(kconfig, lines)) :
                    p[1].sym \in strayed
=============================================================================
