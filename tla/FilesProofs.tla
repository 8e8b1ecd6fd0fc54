----------------------------- MODULE FilesProofs -----------------------------
(***************************************************************************)
(* What Files checks on a small tree, proved for every Kconfig program,    *)
(* every set of objects, every number of edits and every number of faults  *)
(* (the bounds of the model only say how often both happen): a             *)
(* configuration survives one crash or one full disk, and an object that   *)
(* is left alone is what the compiler would make of it now.                *)
(***************************************************************************)
EXTENDS Files, TLAPS

Places == {".config", ".config.old", "tmp"} \cup Generated

\* Where the configuration last written in full is, by the number of writes that
\* have failed since: in .config until the first rename, then in .config.old,
\* and after a failure in either.  After a second one nothing is claimed.
Kept ==
    mine # Nothing =>
        /\ damage = 0 /\ pc # "new" => disk[".config"] = mine
        /\ damage = 0 /\ pc = "new" => disk[".config.old"] = mine
        /\ damage = 1 /\ pc # "new" => mine \in {disk[".config"], disk[".config.old"]}

IInv ==
    /\ disk = [f \in Places |-> disk[f]]
    /\ damage \in Nat
    /\ Kept

\* The steps that follow in conf_write_autoconf are never those of conf_write.
LEMMA ThenIsLater ==
    \A p \in {"cmd", "read", "vanished", "touch", "header", "rust", "auto"} : Then[p] # "new"
  BY DEF Then

\* A step that leaves .config, .config.old, the history and the place before
\* the first rename as they are disturbs nothing.
LEMMA KeptElsewhere ==
    ASSUME IInv,
           disk' = [f \in Places |-> disk'[f]],
           disk'[".config"] = disk[".config"],
           disk'[".config.old"] = disk[".config.old"],
           mine' = mine, damage' = damage,
           pc # "new", pc' # "new"
    PROVE  IInv'
  BY DEF IInv, Kept

LEMMA InitInv == Init => IInv
  BY DEF Init, IInv, Kept, Places

\* conf_write_autoconf's files are not those of conf_write.
LEMMA PutInv ==
    ASSUME IInv, NEW f \in Generated, NEW content, Put(f, content),
           pc \in {"cmd", "header", "rust", "auto"}
    PROVE  IInv'
  <1>1. pc # "new" /\ pc' # "new"
    BY ThenIsLater DEF Put, ExitTo
  <1>2. disk' = [disk EXCEPT ![f] = content] /\ mine' = mine /\ damage' = damage
    BY DEF Put
  <1>3. f \notin {".config", ".config.old"}
    BY DEF Generated
  <1>4. disk = [g \in Places |-> disk[g]]
    BY DEF IInv
  <1>5. disk' = [g \in Places |-> disk'[g]]
    BY <1>2, <1>4
  <1>6. disk'[".config"] = disk[".config"] /\ disk'[".config.old"] = disk[".config.old"]
    BY <1>2, <1>3, <1>4 DEF Places
  <1> QED BY <1>1, <1>2, <1>5, <1>6, KeptElsewhere

\* rename(name, oldname): the configuration moves with its file.
LEMMA KeepOldInv == ASSUME IInv, KeepOld PROVE IInv'
  <1>1. pc = "old" /\ pc' = "new" /\ mine' = mine /\ damage' = damage
    BY DEF KeepOld, ExitTo
  <1>2. disk' = [f \in Places |-> disk'[f]]
    BY DEF IInv, KeepOld
  <1>3. ASSUME mine # Nothing, damage = 0 PROVE disk'[".config.old"] = mine
    <2>1. disk[".config"] = mine
      BY <1>1, <1>3 DEF IInv, Kept
    <2> QED BY <1>3, <2>1 DEF IInv, KeepOld, Places
  <1> QED BY <1>1, <1>2, <1>3 DEF IInv, Kept

\* rename(tmpname, name): either the new configuration is the one to keep, or
\* this was a write that failed.
LEMMA PutNewInv == ASSUME IInv, PutNew PROVE IInv'
  <1>1. pc = "new" /\ pc' # "new"
    BY DEF PutNew, ExitTo, AfterWrite
  <1>2. disk' = [disk EXCEPT ![".config"] = disk["tmp"], !["tmp"] = Nothing]
    BY DEF PutNew
  <1>3. /\ disk' = [f \in Places |-> disk'[f]]
        /\ disk'[".config"] = disk["tmp"]
        /\ disk'[".config.old"] = disk[".config.old"]
    BY <1>2 DEF IInv, Places
  <1>4. CASE disk["tmp"] = calculated
    BY <1>1, <1>3, <1>4 DEF PutNew, IInv, Kept
  <1>5. CASE disk["tmp"] # calculated
    BY <1>1, <1>3, <1>5 DEF PutNew, IInv, Kept
  <1> QED BY <1>4, <1>5

\* The comparison leaves .config as it is, whether or not it finds it the same.
LEMMA CompareInv == ASSUME IInv, Compare PROVE IInv'
  <1>1. pc = "compare" /\ pc' # "new" /\ mine' = mine
    BY DEF Compare, ExitTo, AfterWrite
  <1>2. /\ disk' = [f \in Places |-> disk'[f]]
        /\ disk'[".config"] = disk[".config"]
        /\ disk'[".config.old"] = disk[".config.old"]
    BY DEF Compare, IInv, Places
  <1>3. damage' \in {damage, damage + 1}
    BY DEF Compare
  <1> QED BY <1>1, <1>2, <1>3 DEF IInv, Kept

\* A program that dies between the two renames leaves the old version.
LEMMA DieInv == ASSUME IInv, Die PROVE IInv'
  <1>1. pc' = "shell" /\ mine' = mine /\ disk' = disk
    BY DEF Die, ExitTo
  <1>2. damage' = IF pc = "new" THEN damage + 1 ELSE damage
    BY DEF Die
  <1> QED BY <1>1, <1>2 DEF IInv, Kept

LEMMA NextInv == ASSUME IInv, [Next]_vars PROVE IInv'
  <1>1. CASE UNCHANGED vars
    BY <1>1 DEF IInv, Kept, vars
  <1>2. ASSUME NEW k \in Kconfigs, EditKconfig(k) PROVE IInv'
    BY <1>2 DEF EditKconfig, process, IInv, Kept
  <1>3. ASSUME NEW t, NEW answers, Run(t, answers) PROVE IInv'
    BY <1>3 DEF Run, IInv, Kept
  <1>4. CASE NoSilentUpdate
    BY <1>4 DEF NoSilentUpdate, ExitTo, IInv, Kept
  <1>5. CASE WriteTmp
    <2>1. pc = "write" /\ pc' = "compare" /\ mine' = mine /\ damage' = damage
      BY <1>5 DEF WriteTmp, ExitTo
    <2>2. PICK content : disk' = [disk EXCEPT !["tmp"] = content]
      BY <1>5 DEF WriteTmp
    <2>3. /\ disk' = [f \in Places |-> disk'[f]]
          /\ disk'[".config"] = disk[".config"]
          /\ disk'[".config.old"] = disk[".config.old"]
      BY <2>2 DEF IInv, Places
    <2> QED BY <2>1, <2>3, KeptElsewhere
  <1>6. CASE Compare BY <1>6, CompareInv
  <1>7. CASE KeepOld BY <1>7, KeepOldInv
  <1>8. CASE PutNew BY <1>8, PutNewInv
  <1>9. CASE conf_write_autoconf_cmd
    BY <1>9, PutInv DEF conf_write_autoconf_cmd, Generated
  <1>10. CASE WriteHeader BY <1>10, PutInv DEF WriteHeader, Generated
  <1>11. CASE WriteRustCfg BY <1>11, PutInv DEF WriteRustCfg, Generated
  <1>12. CASE WriteAutoConf BY <1>12, PutInv DEF WriteAutoConf, Generated
  <1>13. CASE ReadAutoConf
    BY <1>13, ThenIsLater DEF ReadAutoConf, IInv, Kept
  <1>14. ASSUME NEW s \in Symbols, TouchVanished(s) \/ Touch(s) PROVE IInv'
    BY <1>14 DEF TouchVanished, Touch, IInv, Kept
  <1>15. CASE VanishedTouched
    BY <1>15, ThenIsLater DEF VanishedTouched, IInv, Kept
  <1>16. CASE Touched
    BY <1>16, ThenIsLater DEF Touched, ExitTo, IInv, Kept
  <1>17. CASE Die BY <1>17, DieInv
  <1>18. ASSUME NEW o \in Objects, Compile(o) PROVE IInv'
    BY <1>18 DEF Compile, process, IInv, Kept
  <1> QED
    BY <1>1, <1>2, <1>3, <1>4, <1>5, <1>6, <1>7, <1>8, <1>9, <1>10, <1>11, <1>12,
       <1>13, <1>14, <1>15, <1>16, <1>17, <1>18
    DEF Next, Configure, syncconfig

LEMMA InvSurvives == IInv => ConfigSurvives
  BY DEF IInv, Kept, ConfigSurvives

\* The configuration last written in full is found in .config or next to it
\* until a second write has failed (conf_write, confdata.c:890-902).
THEOREM Survives == Spec => []ConfigSurvives
  <1>1. Init => IInv
    BY InitInv
  <1>2. IInv /\ [Next]_vars => IInv'
    BY NextInv
  <1>3. IInv => ConfigSurvives
    BY InvSurvives
  <1> QED BY <1>1, <1>2, <1>3, PTL DEF Spec

---------------------------------------------------------------------------
(* The build.                                                              *)

\* What an object sees of lines of auto.conf.
SeesIn(o, k, lines) == Sees(o, Header(k, lines), RustCfg(k, lines))

\* What an object has compiled into it, or would have, and not both.
Differ(o, seen) == SymDiff(compiled[o], seen)

\* The symbols that two sets of lines give different values, and those that the
\* Kconfig files auto.conf was written from print in another way than now.
Changed(lines, new) ==
    {s \in DOMAIN lines \cup DOMAIN new :
        ~(s \in DOMAIN lines /\ s \in DOMAIN new /\ lines[s] = new[s])}
PrintedAlike(s, value) ==
    /\ Macro(version, s, value) = Macro(kconfig, s, value)
    /\ Flags(version, s, value) = Flags(kconfig, s, value)
Reprinted(lines, new) ==
    Changed(lines, new) \cup {s \in DOMAIN lines : ~PrintedAlike(s, lines[s])}

\* The change of a symbol is seen by make, or known not to be.
Shown(s) ==
    \/ s \in unnoticed
    \/ \A o \in Objects : s \in parse_dep_file(o) => s \in newer[o]

\* A build begins with syncconfig.
Stale == disk["auto.conf"] = Nothing \/ "auto.conf" \in outdated
Writing == {"cmd", "read", "vanished", "touch", "header", "rust", "auto"}

Types_ ==
    /\ kconfig \in Kconfigs
    /\ disk = [f \in Places |-> disk[f]]
    /\ disk[".config"] \in Configurations \cup {Nothing}
    /\ disk["tmp"] \in Configurations \cup {Nothing}
    /\ outdated \subseteq Generated
    /\ newer = [o \in Objects |-> newer[o]]
    /\ compiled = [o \in Objects |-> compiled[o]]
    /\ damage \in Nat

\* While a program runs it has calculated the values of what was entered.
Calculated ==
    pc # "shell" =>
        /\ user \in Configurations
        /\ order \in Orders(kconfig)
        /\ calculated = CalcValues(kconfig, user, order)

\* The lines it will write to auto.conf.
NewLines == AutoConf(kconfig, calculated)

\* What is generated is out of date as a whole, until auto.conf is written.
InTurn ==
    /\ ~Stale => outdated = {} /\ disk["auto.conf.cmd"] # Nothing /\ version = kconfig
    /\ tool = "sync" /\ pc # "shell" => Stale
    /\ pc \in Writing => Stale
    /\ pc \in Writing \ {"cmd"} => "auto.conf.cmd" \notin outdated /\ disk["auto.conf.cmd"] # Nothing
    /\ pc \in {"rust", "auto"} => "autoconf.h" \notin outdated /\ disk["autoconf.h"] = Header(kconfig, NewLines)
    /\ pc = "auto" => "rustc_cfg" \notin outdated /\ disk["rustc_cfg"] = RustCfg(kconfig, NewLines)

\* auto.conf and the headers say the same when they are up to date, and what
\* .config says but for the strayed symbols, unless that was cut short.
Agree ==
    /\ pc \in {"cmd", "read", "vanished"} /\ damage = 0 => disk[".config"] = calculated
    /\ pc \in {"touch", "header", "rust", "auto"} /\ damage = 0 =>
         /\ Proper(kconfig, disk[".config"])
         /\ Changed(NewLines, AutoConf(kconfig, disk[".config"])) \subseteq strayed
    /\ ~Stale =>
         /\ disk["autoconf.h"] = Header(version, disk["auto.conf"])
         /\ disk["rustc_cfg"] = RustCfg(version, disk["auto.conf"])
         /\ damage = 0 /\ pc # "new" =>
              /\ Proper(kconfig, disk[".config"])
              /\ Changed(disk["auto.conf"], AutoConf(kconfig, disk[".config"])) \subseteq strayed

\* An object differs from what auto.conf says only in what make will notice.
ObjectsFit ==
    \A o \in Objects : compiled[o] # Nothing =>
        /\ \A p \in compiled[o] : p[1] \in Reads(o)
        /\ \A p \in Differ(o, SeesIn(o, version, Lines)) : p[1].sym \in unnoticed \cup newer[o]

\* Before auto.conf is replaced, each change to it is shown.
ChangesShown ==
    /\ \A s \in DOMAIN Lines : ~(IsBool(version, s) /\ Lines[s] = "n")
    /\ pc = "vanished" =>
         /\ \A s \in DOMAIN Lines \ Known : s \in todo \/ Shown(s)
         /\ \A s \in (Known \intersect DOMAIN Lines) \ DOMAIN OldValues : Shown(s)
         /\ \A s \in Retyped : Shown(s)
    /\ pc = "touch" =>
         \A s \in Reprinted(Lines, NewLines) : s \in todo \/ Shown(s)
    /\ pc \in {"header", "rust", "auto"} =>
         \A s \in Reprinted(Lines, NewLines) : Shown(s)

BuildInv == Types_ /\ Calculated /\ InTurn /\ Agree /\ ObjectsFit /\ ChangesShown

LEMMA CalculatedProper == ASSUME BuildInv, pc # "shell" PROVE Proper(kconfig, calculated)
  BY CalcAssumption DEF BuildInv, Types_, Calculated

LEMMA FlagsAreOf ==
    ASSUME NEW k, NEW s, NEW value, NEW p \in Flags(k, s, value) PROVE p[1].sym = s
  <1>1. PICK text : p = <<Word(s, FALSE), text>>
    BY DEF Flags
  <1> QED BY <1>1 DEF Word

\* Lines of the same value print the same, by the same Kconfig files.
LEMMA PrintsDiffer ==
    ASSUME NEW k, NEW lines, NEW new, NEW p,
           \/ p \in Header(k, lines) /\ p \notin Header(k, new)
           \/ p \in RustCfg(k, lines) /\ p \notin RustCfg(k, new)
    PROVE  p[1].sym \in Changed(lines, new)
  <1>1. CASE p \in Header(k, lines) /\ p \notin Header(k, new)
    <2>1. PICK s \in DOMAIN lines : p = Macro(k, s, lines[s])
      BY <1>1 DEF Header
    <2>2. ~(s \in DOMAIN new /\ lines[s] = new[s])
      BY <1>1, <2>1 DEF Header
    <2>3. p[1].sym = s
      BY <2>1 DEF Macro, Word
    <2> QED BY <2>2, <2>3 DEF Changed
  <1>2. CASE p \in RustCfg(k, lines) /\ p \notin RustCfg(k, new)
    <2>1. PICK s \in DOMAIN lines : p \in Flags(k, s, lines[s])
      BY <1>2 DEF RustCfg
    <2>2. ~(s \in DOMAIN new /\ lines[s] = new[s])
      BY <1>2, <2>1 DEF RustCfg
    <2>3. p[1].sym = s
      BY <2>1, FlagsAreOf
    <2> QED BY <2>2, <2>3 DEF Changed
  <1> QED BY <1>1, <1>2

LEMMA ChangedSymmetric == ASSUME NEW a, NEW b PROVE Changed(a, b) = Changed(b, a)
  BY DEF Changed

\* An object that sees new lines and not the old ones sees a change, or a line
\* that is printed in another way now.
LEMMA SeesDiffer ==
    ASSUME NEW o, NEW lines, NEW new,
           NEW p \in SymDiff(SeesIn(o, version, lines), SeesIn(o, kconfig, new))
    PROVE  p[1].sym \in Reprinted(lines, new)
  <1>1. CASE o \in Rust
    <2>1. p \in SymDiff(RustCfg(version, lines), RustCfg(kconfig, new))
      BY <1>1 DEF SeesIn, Sees, SymDiff
    <2>2. CASE p \in RustCfg(version, lines) /\ p \notin RustCfg(kconfig, lines)
      <3>1. PICK s \in DOMAIN lines : p \in Flags(version, s, lines[s])
        BY <2>2 DEF RustCfg
      <3>2. p \notin Flags(kconfig, s, lines[s])
        BY <2>2 DEF RustCfg
      <3>3. p[1].sym = s
        BY <3>1, FlagsAreOf
      <3> QED BY <3>1, <3>2, <3>3 DEF Reprinted, PrintedAlike
    <2>3. CASE p \notin RustCfg(version, lines) /\ p \in RustCfg(kconfig, lines)
      <3>1. PICK s \in DOMAIN lines : p \in Flags(kconfig, s, lines[s])
        BY <2>3 DEF RustCfg
      <3>2. p \notin Flags(version, s, lines[s])
        BY <2>3 DEF RustCfg
      <3>3. p[1].sym = s
        BY <3>1, FlagsAreOf
      <3> QED BY <3>1, <3>2, <3>3 DEF Reprinted, PrintedAlike
    <2>4. CASE p \in RustCfg(version, lines) <=> p \in RustCfg(kconfig, lines)
      <3>1. p \in SymDiff(RustCfg(kconfig, lines), RustCfg(kconfig, new))
        BY <2>1, <2>4 DEF SymDiff
      <3>2. CASE p \in RustCfg(kconfig, lines) /\ p \notin RustCfg(kconfig, new)
        BY <3>2, PrintsDiffer DEF Reprinted
      <3>3. CASE p \in RustCfg(kconfig, new) /\ p \notin RustCfg(kconfig, lines)
        <4>1. p[1].sym \in Changed(new, lines)
          BY <3>3, PrintsDiffer
        <4> QED BY <4>1, ChangedSymmetric DEF Reprinted
      <3> QED BY <3>1, <3>2, <3>3 DEF SymDiff
    <2> QED BY <2>2, <2>3, <2>4
  <1>2. CASE o \notin Rust
    <2>1. p \in SymDiff(Header(version, lines), Header(kconfig, new))
      BY <1>2 DEF SeesIn, Sees, SymDiff
    <2>2. CASE p \in Header(version, lines) /\ p \notin Header(kconfig, lines)
      <3>1. PICK s \in DOMAIN lines : p = Macro(version, s, lines[s])
        BY <2>2 DEF Header
      <3>2. p # Macro(kconfig, s, lines[s])
        BY <2>2 DEF Header
      <3>3. p[1].sym = s
        BY <3>1 DEF Macro, Word
      <3> QED BY <3>1, <3>2, <3>3 DEF Reprinted, PrintedAlike
    <2>3. CASE p \notin Header(version, lines) /\ p \in Header(kconfig, lines)
      <3>1. PICK s \in DOMAIN lines : p = Macro(kconfig, s, lines[s])
        BY <2>3 DEF Header
      <3>2. p # Macro(version, s, lines[s])
        BY <2>3 DEF Header
      <3>3. p[1].sym = s
        BY <3>1 DEF Macro, Word
      <3> QED BY <3>1, <3>2, <3>3 DEF Reprinted, PrintedAlike
    <2>4. CASE p \in Header(version, lines) <=> p \in Header(kconfig, lines)
      <3>1. p \in SymDiff(Header(kconfig, lines), Header(kconfig, new))
        BY <2>1, <2>4 DEF SymDiff
      <3>2. CASE p \in Header(kconfig, lines) /\ p \notin Header(kconfig, new)
        BY <3>2, PrintsDiffer DEF Reprinted
      <3>3. CASE p \in Header(kconfig, new) /\ p \notin Header(kconfig, lines)
        <4>1. p[1].sym \in Changed(new, lines)
          BY <3>3, PrintsDiffer
        <4> QED BY <4>1, ChangedSymmetric DEF Reprinted
      <3> QED BY <3>1, <3>2, <3>3 DEF SymDiff
    <2> QED BY <2>2, <2>3, <2>4
  <1> QED BY <1>1, <1>2

\* fixdep finds whatever an object reads.
LEMMA ReadsAreParsed ==
    ASSUME NEW o \in Objects, NEW w \in Reads(o) PROVE w.sym \in parse_dep_file(o)
  BY NoParseAssumption DEF Reads, parse_dep_file, use_config

LEMMA SeesReads ==
    ASSUME NEW o, NEW header, NEW rustcfg, NEW p \in Sees(o, header, rustcfg)
    PROVE  p[1] \in Reads(o)
  BY DEF Sees

\* Files other than those that the build reads may change at will.
LEMMA ObjectsFitElsewhere ==
    ASSUME ObjectsFit, UNCHANGED <<newer, compiled, version>>, unnoticed \subseteq unnoticed',
           disk'["auto.conf"] = disk["auto.conf"]
    PROVE  ObjectsFit'
  <1>1. Lines' = Lines
    BY DEF Lines
  <1>2. \A o : SeesIn(o, version, Lines)' = SeesIn(o, version, Lines)
    BY <1>1 DEF SeesIn
  <1>3. \A o : Differ(o, SeesIn(o, version, Lines))' = Differ(o, SeesIn(o, version, Lines))
    BY <1>2 DEF Differ
  <1> QED BY <1>3 DEF ObjectsFit

\* What a program reads is a configuration, and so is what it makes of it with the
\* user's answers.
LEMMA RunCalculates ==
    ASSUME Types_, NEW answers \in Entered, NEW t, Run(t, Only(answers, Known))
    PROVE  Calculated'
  <1> DEFINE given == Over(Only(answers, Known), conf_read)
  <1>1. Empty \in Configurations
    BY DEF Empty, Configurations
  <1>2. ASSUME NEW v \in Configurations, NEW S PROVE Only(v, S) \in Configurations
    <2>1. PICK T \in SUBSET Symbols : v \in [T -> Values]
      BY DEF Configurations
    <2>2. Only(v, S) \in [T \cap S -> Values]
      BY <2>1 DEF Only, Restrict
    <2> QED BY <2>2 DEF Configurations
  <1>3. conf_read \in Configurations
    BY <1>1, <1>2 DEF conf_read, Types_
  <1>4. Only(answers, Known) \in Configurations
    BY <1>2, EnteredAssumption
  <1>5. ASSUME NEW a \in Configurations, NEW b \in Configurations
        PROVE  Over(a, b) \in Configurations
    <2>1. PICK T \in SUBSET Symbols : a \in [T -> Values]
      BY DEF Configurations
    <2>2. PICK U \in SUBSET Symbols : b \in [U -> Values]
      BY DEF Configurations
    <2>3. Over(a, b) \in [T \cup U -> Values]
      BY <2>1, <2>2 DEF Over
    <2> QED BY <2>3 DEF Configurations
  <1>6. given \in Configurations
    BY <1>3, <1>4, <1>5
  <1> HIDE DEF given
  <1>7. user' = given /\ order' \in Orders(kconfig) /\ kconfig' = kconfig
        /\ calculated' = CalcValues(kconfig, user', order')
    BY DEF Run, given
  <1> QED BY <1>6, <1>7 DEF Calculated

LEMMA RunInv ==
    ASSUME BuildInv, NEW answers \in Entered, NEW t, Run(t, Only(answers, Known)),
           t = "sync" => NeedSync
    PROVE  BuildInv'
  <1>1. Calculated'
    BY RunCalculates DEF BuildInv
  <1>2. pc = "shell" /\ pc' = "write" /\ tool' = t
    BY DEF Run
  <1>3. UNCHANGED <<kconfig, disk, outdated, newer, compiled, unnoticed, strayed, version, damage>>
    BY DEF Run, build
  <1>4. Types_'
    BY <1>3 DEF BuildInv, Types_
  <1>6. t = "sync" => Stale
    BY DEF BuildInv, InTurn, NeedSync, Stale
  <1>7. InTurn'
    BY <1>2, <1>3, <1>6 DEF BuildInv, InTurn, Stale, Writing
  <1>8. Agree'
    BY <1>2, <1>3 DEF BuildInv, Agree, Stale
  <1>9. ObjectsFit'
    BY <1>3, ObjectsFitElsewhere DEF BuildInv
  <1>10. ChangesShown'
    BY <1>2, <1>3 DEF BuildInv, ChangesShown, Lines
  <1> QED BY <1>1, <1>4, <1>7, <1>8, <1>9, <1>10 DEF BuildInv

\* Edited Kconfig files make auto.conf one that is out of date.
LEMMA EditInv == ASSUME BuildInv, NEW k \in Kconfigs, EditKconfig(k) PROVE BuildInv'
  <1>1. pc = "shell" /\ pc' = "shell" /\ tool' = tool
    BY DEF EditKconfig, process
  <1>2. UNCHANGED <<disk, newer, compiled, unnoticed, strayed, version, damage>>
    BY DEF EditKconfig, build
  <1>3. Stale' /\ kconfig' \in Kconfigs /\ outdated' \subseteq Generated
    BY DEF EditKconfig, Stale, BuildInv, Types_, Generated
  <1>4. Types_'
    BY <1>2, <1>3 DEF BuildInv, Types_
  <1>5. Calculated' /\ InTurn' /\ Agree'
    BY <1>1, <1>3 DEF Calculated, InTurn, Agree, Writing
  <1>6. ObjectsFit'
    BY <1>2, ObjectsFitElsewhere DEF BuildInv
  <1>7. ChangesShown'
    BY <1>1, <1>2 DEF BuildInv, ChangesShown, Lines
  <1> QED BY <1>4, <1>5, <1>6, <1>7 DEF BuildInv

\* A step that leaves what is generated and what make sees as they are, and that
\* is not one of conf_write_autoconf, has only .config to account for.
LEMMA ConfigStep ==
    ASSUME BuildInv,
           UNCHANGED <<kconfig, outdated, newer, compiled, unnoticed, strayed, version>>,
           disk'["auto.conf"] = disk["auto.conf"],
           disk'["auto.conf.cmd"] = disk["auto.conf.cmd"],
           disk'["autoconf.h"] = disk["autoconf.h"],
           disk'["rustc_cfg"] = disk["rustc_cfg"],
           pc' \in {"shell", "compare", "old", "new", "cmd"},
           pc # "shell",
           pc' # "shell" => UNCHANGED <<tool, user, order, calculated>>,
           pc' = "shell" => tool' = "gui",
           Types_',
           pc' = "cmd" => Stale /\ (damage' = 0 => disk'[".config"] = calculated),
           ~Stale /\ damage' = 0 /\ pc' # "new" =>
               damage = 0 /\ pc # "new" /\ disk'[".config"] = disk[".config"]
    PROVE  BuildInv'
  <1>1. Stale' = Stale
    BY DEF Stale
  <1>2. Calculated'
    BY DEF BuildInv, Calculated
  <1>3. InTurn'
    BY <1>1 DEF BuildInv, InTurn, Writing
  <1>4. Agree'
    <2>1. pc' = "cmd" /\ damage' = 0 => disk'[".config"] = calculated'
      OBVIOUS
    <2>2. ASSUME ~Stale, damage' = 0, pc' # "new"
          PROVE  /\ Proper(kconfig, disk'[".config"])
                 /\ Changed(disk["auto.conf"], AutoConf(kconfig, disk'[".config"])) \subseteq strayed
      BY <2>2 DEF BuildInv, Agree
    <2> QED BY <1>1, <2>1, <2>2 DEF BuildInv, Agree
  <1>5. ObjectsFit'
    BY ObjectsFitElsewhere DEF BuildInv
  <1>6. ChangesShown'
    BY DEF BuildInv, ChangesShown, Lines
  <1> QED BY <1>2, <1>3, <1>4, <1>5, <1>6 DEF BuildInv

\* conf_write_autoconf() follows for a program that found the files out of date.
LEMMA AfterWriteStale == ASSUME BuildInv, pc # "shell", AfterWrite = "cmd" PROVE Stale
  BY DEF BuildInv, InTurn, AfterWrite, Stale

LEMMA NoSilentUpdateBuild == ASSUME BuildInv, NoSilentUpdate PROVE BuildInv'
  <1>1. /\ pc = "write" /\ tool = "sync"
        /\ UNCHANGED <<kconfig, disk, outdated, newer, compiled, unnoticed, strayed, version, damage>>
        /\ pc' \in {"cmd", "shell"}
        /\ pc' = "cmd" => calculated = disk[".config"]
        /\ pc' # "shell" => UNCHANGED <<tool, user, order, calculated>>
        /\ pc' = "shell" => tool' = "gui"
    BY DEF NoSilentUpdate, ExitTo, build
  <1>2. Stale
    BY <1>1 DEF BuildInv, InTurn
  <1>3. Types_'
    BY <1>1 DEF BuildInv, Types_
  <1> QED BY <1>1, <1>2, <1>3, ConfigStep

LEMMA WriteTmpBuild == ASSUME BuildInv, WriteTmp PROVE BuildInv'
  <1>1. /\ pc = "write" /\ pc' = "compare"
        /\ UNCHANGED <<tool, user, order, calculated>>
        /\ UNCHANGED <<kconfig, outdated, newer, compiled, unnoticed, strayed, version, damage>>
    BY DEF WriteTmp, ExitTo, build
  <1>2. calculated \in Configurations
    BY <1>1, CalculatedProper DEF Proper
  <1>3. \A S \in SUBSET DOMAIN calculated : Only(calculated, S) \in Configurations
    <2> TAKE S \in SUBSET DOMAIN calculated
    <2>1. PICK T \in SUBSET Symbols : calculated \in [T -> Values]
      BY <1>2 DEF Configurations
    <2>2. Only(calculated, S) \in [T \cap S -> Values]
      BY <2>1 DEF Only, Restrict
    <2> QED BY <2>2 DEF Configurations
  <1>4. PICK content \in Configurations : disk' = [disk EXCEPT !["tmp"] = content]
    BY <1>2, <1>3 DEF WriteTmp
  <1>5. disk = [f \in Places |-> disk[f]]
    BY DEF BuildInv, Types_
  <1>6. Types_'
    BY <1>1, <1>4, <1>5 DEF BuildInv, Types_, Places
  <1>7. \A f \in Places \ {"tmp"} : disk'[f] = disk[f]
    BY <1>4, <1>5
  <1> QED BY <1>1, <1>6, <1>7, ConfigStep DEF Places, Generated

LEMMA CompareBuild == ASSUME BuildInv, Compare PROVE BuildInv'
  <1>1. /\ pc = "compare"
        /\ UNCHANGED <<kconfig, outdated, newer, compiled, unnoticed, strayed, version>>
        /\ pc' \in {"cmd", "shell", "old"}
        /\ pc' = "cmd" => AfterWrite = "cmd" /\ disk["tmp"] = disk[".config"]
        /\ pc' # "shell" => UNCHANGED <<tool, user, order, calculated>>
        /\ pc' = "shell" => tool' = "gui"
        /\ damage' = IF disk["tmp"] = disk[".config"] /\ disk["tmp"] # calculated
                     THEN damage + 1 ELSE damage
    BY DEF Compare, ExitTo, AfterWrite, build
  <1>2. disk = [f \in Places |-> disk[f]] /\ damage \in Nat
    BY DEF BuildInv, Types_
  <1>3. disk' = disk \/ disk' = [disk EXCEPT !["tmp"] = Nothing]
    BY DEF Compare
  <1>4. Types_'
    <2>1. disk' = [f \in Places |-> disk'[f]]
      BY <1>2, <1>3
    <2>2. disk'[".config"] = disk[".config"] /\ disk'["tmp"] \in {disk["tmp"], Nothing}
      BY <1>2, <1>3 DEF Places
    <2>3. damage' \in Nat
      BY <1>1, <1>2
    <2> QED BY <1>1, <2>1, <2>2, <2>3 DEF BuildInv, Types_
  <1>5. \A f \in Places \ {"tmp"} : disk'[f] = disk[f]
    BY <1>2, <1>3
  <1>6. pc' = "cmd" => Stale /\ (damage' = 0 => disk'[".config"] = calculated)
    BY <1>1, <1>2, <1>5, AfterWriteStale DEF Places
  <1>7. damage' = 0 => damage = 0
    BY <1>1, <1>2
  <1> QED BY <1>1, <1>4, <1>5, <1>6, <1>7, ConfigStep DEF Places, Generated

LEMMA KeepOldBuild == ASSUME BuildInv, KeepOld PROVE BuildInv'
  <1>1. /\ pc = "old" /\ pc' = "new" /\ UNCHANGED <<tool, user, order, calculated>>
        /\ UNCHANGED <<kconfig, outdated, newer, compiled, unnoticed, strayed, version, damage>>
    BY DEF KeepOld, ExitTo, build
  <1>2. disk = [f \in Places |-> disk[f]]
    BY DEF BuildInv, Types_
  <1>3. disk' = disk \/ disk' = [disk EXCEPT ![".config.old"] = disk[".config"], ![".config"] = Nothing]
    BY DEF KeepOld
  <1>4. Types_'
    <2>1. disk' = [f \in Places |-> disk'[f]]
      BY <1>2, <1>3
    <2>2. disk'[".config"] \in {disk[".config"], Nothing} /\ disk'["tmp"] = disk["tmp"]
      BY <1>2, <1>3 DEF Places
    <2> QED BY <1>1, <2>1, <2>2 DEF BuildInv, Types_
  <1>5. \A f \in Generated : disk'[f] = disk[f]
    BY <1>2, <1>3 DEF Places, Generated
  <1> QED BY <1>1, <1>4, <1>5, ConfigStep DEF Generated

\* The new .config is newer than anything generated.
LEMMA PutNewBuild == ASSUME BuildInv, PutNew PROVE BuildInv'
  <1>1. /\ pc = "new" /\ pc' \in {"cmd", "shell"}
        /\ UNCHANGED <<kconfig, newer, compiled, unnoticed, strayed, version>>
        /\ pc' # "shell" => UNCHANGED <<tool, user, order, calculated>>
        /\ pc' = "shell" => tool' = "gui"
        /\ outdated' = {f \in Generated : disk[f] # Nothing}
    BY DEF PutNew, ExitTo, AfterWrite, build
  <1>2. disk = [f \in Places |-> disk[f]] /\ damage \in Nat
    BY DEF BuildInv, Types_
  <1>3. disk' = [disk EXCEPT ![".config"] = disk["tmp"], !["tmp"] = Nothing]
    BY DEF PutNew
  <1>4. /\ \A f \in Generated : disk'[f] = disk[f]
        /\ disk'[".config"] = disk["tmp"]
    BY <1>2, <1>3 DEF Places, Generated
  <1>5. Stale'
    BY <1>1, <1>4 DEF Stale, Generated
  <1>6. damage' \in Nat /\ (damage' = 0 => disk["tmp"] = calculated)
    BY <1>2 DEF PutNew
  <1>7. Types_'
    BY <1>1, <1>2, <1>3, <1>6 DEF BuildInv, Types_, Places
  <1>8. Calculated'
    BY <1>1 DEF BuildInv, Calculated
  <1>9. InTurn'
    BY <1>1, <1>5 DEF InTurn, Writing
  <1>10. Agree'
    BY <1>1, <1>4, <1>5, <1>6 DEF Agree, Writing
  <1>11. ObjectsFit'
    BY <1>1, <1>4, ObjectsFitElsewhere DEF BuildInv, Generated
  <1>12. ChangesShown'
    BY <1>1, <1>4 DEF BuildInv, ChangesShown, Lines, Generated
  <1> QED BY <1>7, <1>8, <1>9, <1>10, <1>11, <1>12 DEF BuildInv

LEMMA DieBuild == ASSUME BuildInv, Die PROVE BuildInv'
  <1>1. /\ pc # "shell" /\ pc' = "shell" /\ tool' = "gui"
        /\ UNCHANGED <<kconfig, disk, outdated, newer, compiled, unnoticed, strayed, version>>
        /\ damage' = IF pc = "new" THEN damage + 1 ELSE damage
    BY DEF Die, ExitTo, build
  <1>2. damage \in Nat
    BY DEF BuildInv, Types_
  <1>3. Types_'
    BY <1>1, <1>2 DEF BuildInv, Types_
  <1>4. damage' = 0 => damage = 0 /\ pc # "new"
    BY <1>1, <1>2
  <1> QED BY <1>1, <1>3, <1>4, ConfigStep

\* The steps of conf_write_autoconf, what they write being of the build.
LEMMA PutBuild ==
    ASSUME BuildInv, NEW f \in Generated, NEW content, Put(f, content), pc \in Writing
    PROVE  /\ pc' = Then[pc]
           /\ UNCHANGED <<kconfig, newer, compiled, unnoticed, strayed, damage>>
           /\ pc' # "shell" => UNCHANGED <<tool, user, order, calculated>>
           /\ pc' = "shell" => tool' = "gui"
           /\ disk'[f] = content
           /\ \A g \in Places \ {f} : disk'[g] = disk[g]
           /\ outdated' = outdated \ {f}
           /\ Types_'
           /\ Calculated'
  <1>1. /\ pc' = Then[pc]
        /\ UNCHANGED <<kconfig, newer, compiled, unnoticed, strayed, damage>>
        /\ pc' # "shell" => UNCHANGED <<tool, user, order, calculated>>
        /\ pc' = "shell" => tool' = "gui"
        /\ disk' = [disk EXCEPT ![f] = content]
        /\ outdated' = outdated \ {f}
    BY DEF Put, ExitTo, build
  <1>2. disk = [g \in Places |-> disk[g]]
    BY DEF BuildInv, Types_
  <1>3. /\ disk'[f] = content
        /\ \A g \in Places \ {f} : disk'[g] = disk[g]
        /\ disk' = [g \in Places |-> disk'[g]]
    BY <1>1, <1>2 DEF Places
  <1>4. disk'[".config"] = disk[".config"] /\ disk'["tmp"] = disk["tmp"]
    BY <1>3 DEF Places, Generated
  <1>5. Types_'
    BY <1>1, <1>3, <1>4 DEF BuildInv, Types_
  <1>6. Calculated'
    BY <1>1 DEF BuildInv, Calculated, Writing
  <1> QED BY <1>1, <1>3, <1>5, <1>6

\* Any of them but the last: auto.conf stays out of date.
LEMMA PutBefore ==
    ASSUME BuildInv, NEW f \in Generated \ {"auto.conf"}, NEW content, Put(f, content),
           pc \in Writing, Then[pc] \in {"read", "rust", "auto"},
           pc \in {"cmd", "header", "rust"}, Then[pc] = "read" <=> pc = "cmd",
           version' = version, InTurn'
    PROVE  BuildInv'
  <1>1. /\ pc' = Then[pc] /\ calculated' = calculated
        /\ UNCHANGED <<kconfig, newer, compiled, unnoticed, strayed, damage>>
        /\ \A g \in Places \ {f} : disk'[g] = disk[g]
        /\ Types_' /\ Calculated'
    BY PutBuild
  <1>2. disk'["auto.conf"] = disk["auto.conf"] /\ disk'[".config"] = disk[".config"]
    BY <1>1 DEF Places, Generated
  <1>3. Stale'
    BY <1>1 DEF InTurn, Writing
  <1>4. Agree'
    BY <1>1, <1>2, <1>3 DEF BuildInv, Agree, NewLines
  <1>5. ObjectsFit'
    BY <1>1, <1>2, ObjectsFitElsewhere DEF BuildInv
  <1>6. ChangesShown'
    <2>1. Lines' = Lines
      BY <1>2 DEF Lines
    <2>2. Reprinted(Lines, NewLines)' = Reprinted(Lines, NewLines)
      BY <1>1, <2>1 DEF Reprinted, Changed, PrintedAlike, NewLines
    <2>3. \A s : Shown(s)' = Shown(s)
      BY <1>1 DEF Shown
    <2> QED BY <1>1, <2>1, <2>2, <2>3 DEF BuildInv, ChangesShown
  <1> QED BY <1>1, <1>4, <1>5, <1>6 DEF BuildInv

LEMMA WriteCmdBuild == ASSUME BuildInv, conf_write_autoconf_cmd PROVE BuildInv'
  <1>1. /\ pc = "cmd" /\ Put("auto.conf.cmd", kconfig) /\ "auto.conf.cmd" \in Generated
        /\ version' = version
    BY DEF conf_write_autoconf_cmd, Generated
  <1>2. Then[pc] = "read" /\ pc \in Writing
    BY <1>1 DEF Then, Writing
  <1>3. /\ pc' = "read" /\ tool' = tool
        /\ disk'["auto.conf.cmd"] = kconfig
        /\ disk'["auto.conf"] = disk["auto.conf"]
        /\ outdated' = outdated \ {"auto.conf.cmd"}
    BY <1>1, <1>2, PutBuild DEF Places, Generated
  <1>4. kconfig # Nothing
    BY NothingAssumption DEF BuildInv, Types_
  <1>5. Stale /\ Stale'
    BY <1>1, <1>2, <1>3 DEF BuildInv, InTurn, Stale
  <1>6. InTurn'
    BY <1>3, <1>4, <1>5 DEF InTurn, Writing
  <1> QED BY <1>1, <1>2, <1>6, PutBefore DEF Generated

LEMMA WriteHeaderBuild == ASSUME BuildInv, WriteHeader PROVE BuildInv'
  <1>1. /\ pc = "header" /\ Put("autoconf.h", Header(kconfig, NewLines)) /\ "autoconf.h" \in Generated
        /\ version' = version
    BY DEF WriteHeader, Generated, NewLines
  <1>2. Then[pc] = "rust" /\ pc \in Writing
    BY <1>1 DEF Then, Writing
  <1>3. /\ pc' = "rust" /\ tool' = tool /\ calculated' = calculated /\ kconfig' = kconfig
        /\ disk'["autoconf.h"] = Header(kconfig, NewLines)
        /\ disk'["auto.conf"] = disk["auto.conf"]
        /\ disk'["auto.conf.cmd"] = disk["auto.conf.cmd"]
        /\ outdated' = outdated \ {"autoconf.h"}
    BY <1>1, <1>2, PutBuild DEF Places, Generated
  <1>4. Stale /\ Stale'
    BY <1>1, <1>2, <1>3 DEF BuildInv, InTurn, Stale
  <1>5. NewLines' = NewLines
    BY <1>3 DEF NewLines
  <1>6. InTurn'
    BY <1>1, <1>2, <1>3, <1>4, <1>5 DEF BuildInv, InTurn, Writing
  <1> QED BY <1>1, <1>2, <1>6, PutBefore DEF Generated

LEMMA WriteRustCfgBuild == ASSUME BuildInv, WriteRustCfg PROVE BuildInv'
  <1>1. /\ pc = "rust" /\ Put("rustc_cfg", RustCfg(kconfig, NewLines)) /\ "rustc_cfg" \in Generated
        /\ version' = version
    BY DEF WriteRustCfg, Generated, NewLines
  <1>2. Then[pc] = "auto" /\ pc \in Writing
    BY <1>1 DEF Then, Writing
  <1>3. /\ pc' = "auto" /\ tool' = tool /\ calculated' = calculated /\ kconfig' = kconfig
        /\ disk'["rustc_cfg"] = RustCfg(kconfig, NewLines)
        /\ disk'["autoconf.h"] = disk["autoconf.h"]
        /\ disk'["auto.conf"] = disk["auto.conf"]
        /\ disk'["auto.conf.cmd"] = disk["auto.conf.cmd"]
        /\ outdated' = outdated \ {"rustc_cfg"}
    BY <1>1, <1>2, PutBuild DEF Places, Generated
  <1>4. Stale /\ Stale'
    BY <1>1, <1>2, <1>3 DEF BuildInv, InTurn, Stale
  <1>5. NewLines' = NewLines
    BY <1>3 DEF NewLines
  <1>6. InTurn'
    BY <1>1, <1>2, <1>3, <1>4, <1>5 DEF BuildInv, InTurn, Writing
  <1> QED BY <1>1, <1>2, <1>6, PutBefore DEF Generated

\* The steps that touch the files of symbols leave what the programs read.
LEMMA TouchingStep ==
    ASSUME BuildInv, UNCHANGED <<kconfig, disk, outdated, damage, compiled, version, tool>>,
           newer' = [o \in Objects |-> newer'[o]],
           pc \in {"read", "vanished", "touch"}, pc' \in {"vanished", "touch", "header"},
           pc \in {"touch"} <=> pc' \in {"touch", "header"},
           UNCHANGED <<user, order, calculated, strayed>>
    PROVE  Types_' /\ Calculated' /\ InTurn' /\ Agree'
  <1>1. Types_'
    BY DEF BuildInv, Types_
  <1>2. Calculated'
    BY DEF BuildInv, Calculated
  <1>3. Stale /\ Stale'
    BY DEF BuildInv, InTurn, Writing, Stale
  <1>4. InTurn'
    BY <1>3 DEF BuildInv, InTurn, Writing
  <1>5. Agree'
    BY <1>3 DEF BuildInv, Agree, NewLines
  <1> QED BY <1>1, <1>2, <1>4, <1>5

LEMMA ReadAutoConfBuild == ASSUME BuildInv, ReadAutoConf PROVE BuildInv'
  <1>1. /\ pc = "read" /\ pc' = "vanished"
        /\ UNCHANGED <<kconfig, disk, outdated, damage, newer, compiled, version, tool>>
        /\ UNCHANGED <<user, order, calculated, strayed>>
        /\ todo' = DOMAIN Lines \ Known
        /\ unnoticed' = unnoticed \cup ((Known \intersect DOMAIN Lines) \ DOMAIN OldValues)
                                   \cup Retyped
    BY DEF ReadAutoConf, Then
  <1>2. newer' = [o \in Objects |-> newer'[o]]
    BY <1>1 DEF BuildInv, Types_
  <1>3. Types_' /\ Calculated' /\ InTurn' /\ Agree'
    BY <1>1, <1>2, TouchingStep
  <1>4. ObjectsFit'
    BY <1>1, ObjectsFitElsewhere DEF BuildInv
  <1>5. Lines' = Lines /\ Known' = Known /\ OldValues' = OldValues
    BY <1>1 DEF Lines, Known, OldValues
  <1>6. Retyped' = Retyped
    BY <1>1, <1>5 DEF Retyped
  <1>7. \A s \in ((Known \intersect DOMAIN Lines) \ DOMAIN OldValues) \cup Retyped : Shown(s)'
    BY <1>1 DEF Shown
  <1>8. ChangesShown'
    BY <1>1, <1>5, <1>6, <1>7 DEF BuildInv, ChangesShown
  <1> QED BY <1>3, <1>4, <1>8 DEF BuildInv

\* What has been touched is newer than each object that reads it.
LEMMA TouchShows ==
    ASSUME BuildInv, NEW s, conf_touch_dep(s), UNCHANGED <<kconfig, disk, compiled, version>>
    PROVE  /\ newer' = [o \in Objects |-> newer'[o]]
           /\ Shown(s)'
           /\ \A t : Shown(t) => Shown(t)'
           /\ ObjectsFit'
  <1>1. /\ newer' = [o \in Objects |-> IF s \in parse_dep_file(o) THEN newer[o] \cup {s}
                                                                ELSE newer[o]]
        /\ unnoticed' = unnoticed \ {s}
    BY DEF conf_touch_dep
  <1>2. \A o \in Objects : /\ newer[o] \subseteq newer'[o]
                           /\ s \in parse_dep_file(o) => s \in newer'[o]
    BY <1>1
  <1>3. Shown(s)'
    BY <1>2 DEF Shown
  <1>4. ASSUME NEW t, Shown(t) PROVE Shown(t)'
    BY <1>1, <1>2, <1>3, <1>4 DEF Shown
  <1>5. \A o : SeesIn(o, version, Lines)' = SeesIn(o, version, Lines)
    BY DEF SeesIn, Lines
  <1>6. ASSUME NEW o \in Objects, compiled[o] # Nothing, NEW p \in Differ(o, SeesIn(o, version, Lines))
        PROVE  p[1].sym \in unnoticed' \cup newer'[o]
    <2>1. p[1].sym \in unnoticed \cup newer[o] /\ \A q \in compiled[o] : q[1] \in Reads(o)
      BY <1>6 DEF BuildInv, ObjectsFit
    <2>2. p[1] \in Reads(o)
      BY <2>1, SeesReads DEF Differ, SeesIn, SymDiff
    <2>3. p[1].sym \in parse_dep_file(o)
      BY <2>2, ReadsAreParsed
    <2> QED BY <1>1, <1>2, <2>1, <2>3
  <1>7. \A o : Differ(o, SeesIn(o, version, Lines))' = Differ(o, SeesIn(o, version, Lines))
    BY <1>5 DEF Differ
  <1>8. ObjectsFit'
    BY <1>6, <1>7 DEF BuildInv, ObjectsFit
  <1>9. newer' = [o \in Objects |-> newer'[o]]
    BY <1>1
  <1> QED BY <1>3, <1>4, <1>8, <1>9

LEMMA TouchVanishedBuild == ASSUME BuildInv, NEW s, TouchVanished(s) PROVE BuildInv'
  <1>1. /\ pc = "vanished" /\ pc' = "vanished" /\ todo' = todo \ {s}
        /\ UNCHANGED <<kconfig, disk, outdated, damage, compiled, version, tool>>
        /\ UNCHANGED <<user, order, calculated, strayed>>
    BY DEF TouchVanished, conf_touch_dep
  <1>2. /\ newer' = [o \in Objects |-> newer'[o]]
        /\ Shown(s)'
        /\ \A t : Shown(t) => Shown(t)'
        /\ ObjectsFit'
    <2>1. CASE conf_touch_dep(s)
      BY <1>1, <2>1, TouchShows
    <2>2. CASE ~conf_touch_dep(s)
      <3>1. unnoticed' = unnoticed \cup {s} /\ newer' = newer
        BY <2>2 DEF TouchVanished
      <3>2. ObjectsFit'
        BY <1>1, <3>1, ObjectsFitElsewhere DEF BuildInv
      <3> QED BY <3>1, <3>2 DEF Shown, BuildInv, Types_
    <2> QED BY <2>1, <2>2
  <1>3. Types_' /\ Calculated' /\ InTurn' /\ Agree'
    BY <1>1, <1>2, TouchingStep
  <1>4. Lines' = Lines /\ Known' = Known /\ OldValues' = OldValues
    BY <1>1 DEF Lines, Known, OldValues
  <1>5. Retyped' = Retyped
    BY <1>1, <1>4 DEF Retyped
  <1>6. ChangesShown'
    BY <1>1, <1>2, <1>4, <1>5 DEF BuildInv, ChangesShown
  <1> QED BY <1>2, <1>3, <1>6 DEF BuildInv

\* conf_touch_deps() touches each symbol whose line will change, but those whose
\* old line could not be read or is printed in another way, and those that are
\* gone.
LEMMA ToTouchIsEnough ==
    ASSUME BuildInv, pc = "vanished", todo = {}, NEW new, Proper(kconfig, new),
           NEW s \in Reprinted(Lines, AutoConf(kconfig, new))
    PROVE  s \in ToTouch(new) \/ Shown(s)
  <1> DEFINE A == AutoConf(kconfig, new)
  <1>1. /\ DOMAIN A = {t \in DOMAIN new : ~(IsBool(kconfig, t) /\ new[t] = "n")}
        /\ \A t \in DOMAIN A : A[t] = new[t]
    BY DEF AutoConf, Only, Restrict
  <1>2. DOMAIN new \subseteq Known
    BY DEF Proper, Known
  <1>3. /\ DOMAIN OldValues \subseteq Known \intersect DOMAIN Lines
        /\ \A t \in DOMAIN OldValues : OldValues[t] = Lines[t]
    BY DEF OldValues, Only, Restrict
  <1>4. /\ \A t \in DOMAIN Lines : ~(IsBool(version, t) /\ Lines[t] = "n")
        /\ \A t \in DOMAIN Lines \ Known : Shown(t)
        /\ \A t \in (Known \intersect DOMAIN Lines) \ DOMAIN OldValues : Shown(t)
        /\ \A t \in Retyped : Shown(t)
    BY DEF BuildInv, ChangesShown
  <1>5. CASE s \notin DOMAIN Lines
    <2>1. s \in DOMAIN A
      BY <1>5 DEF Reprinted, Changed
    <2> QED BY <1>1, <1>2, <1>3, <1>5, <2>1 DEF ToTouch
  <1>6. CASE s \in DOMAIN OldValues /\ ~PrintedAlike(s, Lines[s])
    BY <1>4, <1>6 DEF Retyped, PrintedAlike
  <1>7. CASE s \in DOMAIN OldValues /\ s \in DOMAIN new /\ PrintedAlike(s, Lines[s])
    <2>1. ASSUME new[s] = Lines[s] PROVE FALSE
      <3>1. s \in DOMAIN Lines /\ s \in Changed(Lines, A)
        BY <1>3, <1>7 DEF Reprinted
      <3>2. s \notin DOMAIN A
        BY <1>1, <2>1, <3>1 DEF Changed
      <3>3. IsBool(kconfig, s) /\ Lines[s] = "n"
        BY <1>1, <1>7, <2>1, <3>2
      <3>4. ~IsBool(version, s)
        BY <1>4, <3>1, <3>3
      <3>5. Macro(kconfig, s, "n")[2] = <<"", "1">>
        BY <3>3 DEF Macro
      <3>6. \E prefix : Macro(version, s, "n")[2] = <<prefix, "n">>
        BY <3>4 DEF Macro, Text
      <3>7. Macro(version, s, "n") = Macro(kconfig, s, "n")
        BY <1>7, <3>3 DEF PrintedAlike
      <3>8. PICK prefix : <<prefix, "n">> = <<"", "1">>
        BY <3>5, <3>6, <3>7
      <3> QED BY <3>8
    <2> QED BY <1>3, <1>7, <2>1 DEF ToTouch
  <1>8. CASE s \in DOMAIN OldValues /\ s \notin DOMAIN new
    BY <1>3, <1>8 DEF ToTouch
  <1> QED BY <1>4, <1>5, <1>6, <1>7, <1>8

\* The values are calculated again: the strayed symbols are what that changes.
LEMMA VanishedTouchedBuild == ASSUME BuildInv, VanishedTouched PROVE BuildInv'
  <1>1. /\ pc = "vanished" /\ pc' = "touch" /\ todo = {} /\ todo' = ToTouch(calculated')
        /\ order' \in Orders(kconfig) /\ calculated' = CalcValues(kconfig, user, order')
        /\ strayed' = {s \in DOMAIN calculated \cup DOMAIN calculated' :
                          Only(calculated, {s}) # Only(calculated', {s})}
        /\ UNCHANGED <<kconfig, disk, outdated, damage, newer, compiled, unnoticed, version,
                       tool, user>>
    BY DEF VanishedTouched, Then
  <1>2. Types_'
    BY <1>1 DEF BuildInv, Types_
  <1>3. Calculated'
    BY <1>1 DEF BuildInv, Calculated
  <1>4. Proper(kconfig, calculated) /\ Proper(kconfig, calculated')
    <2>1. kconfig \in Kconfigs /\ user \in Configurations
      BY <1>1 DEF BuildInv, Types_, Calculated
    <2>2. Proper(kconfig, CalcValues(kconfig, user, order'))
      BY <1>1, <2>1, CalcAssumption
    <2> QED BY <1>1, <2>2, CalculatedProper
  <1>5. Stale /\ Stale'
    BY <1>1 DEF BuildInv, InTurn, Writing, Stale
  <1>6. InTurn'
    BY <1>1, <1>5 DEF BuildInv, InTurn, Writing
  <1>7. Changed(AutoConf(kconfig, calculated'), AutoConf(kconfig, calculated)) \subseteq strayed'
    <2> SUFFICES ASSUME NEW s \in Changed(AutoConf(kconfig, calculated'),
                                          AutoConf(kconfig, calculated)),
                        s \notin strayed'
                 PROVE  FALSE
      OBVIOUS
    <2>1. s \in DOMAIN calculated \cup DOMAIN calculated'
      BY DEF Changed, AutoConf, Only, Restrict
    <2>2. Only(calculated, {s}) = Only(calculated', {s})
      BY <1>1, <2>1
    <2>3. s \in DOMAIN calculated <=> s \in DOMAIN calculated'
      BY <2>2 DEF Only, Restrict
    <2>4. calculated[s] = calculated'[s]
      <3>1. Only(calculated, {s})[s] = calculated[s] /\ Only(calculated', {s})[s] = calculated'[s]
        BY <2>1, <2>3 DEF Only, Restrict
      <3> QED BY <2>2, <3>1
    <2> QED BY <2>1, <2>3, <2>4 DEF Changed, AutoConf, Only, Restrict
  <1>8. Agree'
    <2>1. damage = 0 => disk[".config"] = calculated
      BY <1>1 DEF BuildInv, Agree
    <2> QED BY <1>1, <1>4, <1>5, <1>7, <2>1 DEF Agree, NewLines
  <1>9. ObjectsFit'
    BY <1>1, ObjectsFitElsewhere DEF BuildInv
  <1>10. ChangesShown'
    <2>1. Lines' = Lines
      BY <1>1 DEF Lines
    <2>2. \A s \in Reprinted(Lines, AutoConf(kconfig, calculated')) :
            s \in ToTouch(calculated') \/ Shown(s)
      BY <1>1, <1>4, ToTouchIsEnough
    <2>3. Reprinted(Lines, NewLines)' = Reprinted(Lines, AutoConf(kconfig, calculated'))
      BY <1>1, <2>1 DEF Reprinted, Changed, PrintedAlike, NewLines
    <2>4. \A s : Shown(s)' = Shown(s)
      BY <1>1 DEF Shown
    <2> QED BY <1>1, <2>1, <2>2, <2>3, <2>4 DEF BuildInv, ChangesShown
  <1> QED BY <1>2, <1>3, <1>6, <1>8, <1>9, <1>10 DEF BuildInv

LEMMA TouchBuild == ASSUME BuildInv, NEW s, Touch(s) PROVE BuildInv'
  <1>1. /\ pc = "touch" /\ pc' = "touch" /\ todo' = todo \ {s} /\ conf_touch_dep(s)
        /\ UNCHANGED <<kconfig, disk, outdated, damage, compiled, version, tool>>
        /\ UNCHANGED <<user, order, calculated, strayed>>
    BY DEF Touch, conf_touch_dep
  <1>2. /\ newer' = [o \in Objects |-> newer'[o]]
        /\ Shown(s)'
        /\ \A t : Shown(t) => Shown(t)'
        /\ ObjectsFit'
    BY <1>1, TouchShows
  <1>3. Types_' /\ Calculated' /\ InTurn' /\ Agree'
    BY <1>1, <1>2, TouchingStep
  <1>4. Lines' = Lines /\ Reprinted(Lines, NewLines)' = Reprinted(Lines, NewLines)
    BY <1>1 DEF Lines, Reprinted, Changed, PrintedAlike, NewLines
  <1>5. ChangesShown'
    BY <1>1, <1>2, <1>4 DEF BuildInv, ChangesShown
  <1> QED BY <1>2, <1>3, <1>5 DEF BuildInv

LEMMA TouchedBuild == ASSUME BuildInv, Touched PROVE BuildInv'
  <1>1. /\ pc = "touch" /\ pc' = "header" /\ todo = {}
        /\ UNCHANGED <<kconfig, disk, outdated, damage, newer, compiled, unnoticed, version,
                       tool, user, order, calculated, strayed>>
    BY DEF Touched, ExitTo, Then, build
  <1>2. newer' = [o \in Objects |-> newer'[o]]
    BY <1>1 DEF BuildInv, Types_
  <1>3. Types_' /\ Calculated' /\ InTurn' /\ Agree'
    BY <1>1, <1>2, TouchingStep
  <1>4. ObjectsFit'
    BY <1>1, ObjectsFitElsewhere DEF BuildInv
  <1>5. Lines' = Lines /\ Reprinted(Lines, NewLines)' = Reprinted(Lines, NewLines)
    BY <1>1 DEF Lines, Reprinted, Changed, PrintedAlike, NewLines
  <1>6. \A s : Shown(s)' = Shown(s)
    BY <1>1 DEF Shown
  <1>7. ChangesShown'
    BY <1>1, <1>5, <1>6 DEF BuildInv, ChangesShown
  <1> QED BY <1>3, <1>4, <1>7 DEF BuildInv

\* The last step: an object that differs from the new lines and not from the old
\* ones differs in a change, and every change is shown.
LEMMA WriteAutoConfBuild == ASSUME BuildInv, WriteAutoConf PROVE BuildInv'
  <1> DEFINE A == AutoConf(kconfig, calculated)
  <1>1. /\ pc = "auto" /\ Put("auto.conf", A) /\ "auto.conf" \in Generated
        /\ version' = kconfig
    BY DEF WriteAutoConf, Generated
  <1>2. Then[pc] = "shell" /\ pc \in Writing
    BY <1>1 DEF Then, Writing
  <1>3. /\ pc' = "shell" /\ tool' = "gui"
        /\ UNCHANGED <<kconfig, newer, compiled, unnoticed, strayed, damage>>
        /\ disk'["auto.conf"] = A
        /\ \A g \in Places \ {"auto.conf"} : disk'[g] = disk[g]
        /\ outdated' = outdated \ {"auto.conf"}
        /\ Types_' /\ Calculated'
    BY <1>1, <1>2, PutBuild
  <1>4. UNCHANGED <<disk[".config"], disk["auto.conf.cmd"], disk["autoconf.h"], disk["rustc_cfg"]>>
    BY <1>3 DEF Places, Generated
  <1>5. Proper(kconfig, calculated)
    BY <1>1, CalculatedProper
  <1>6. A # Nothing
    <2>1. PICK S \in SUBSET Symbols : calculated \in [S -> Values]
      BY <1>5 DEF Proper, Configurations
    <2>2. A \in [DOMAIN calculated \cap {s \in DOMAIN calculated : ~(IsBool(kconfig, s) /\ calculated[s] = "n")} -> Values]
      BY <2>1 DEF AutoConf, Only, Restrict
    <2>3. A \in Configurations
      BY <2>1, <2>2 DEF Configurations
    <2> QED BY <2>3, NothingAssumption
  <1>7. \A s \in DOMAIN A : ~(IsBool(kconfig, s) /\ A[s] = "n")
    BY DEF AutoConf, Only, Restrict
  <1>8. A = NewLines
    BY DEF NewLines
  <1> HIDE DEF A
  <1>9. InTurn'
    <2>1. outdated' = {} /\ disk["auto.conf.cmd"] # Nothing
      BY <1>1, <1>3 DEF BuildInv, InTurn, Writing, Types_, Generated
    <2> QED BY <1>1, <1>3, <1>4, <2>1 DEF InTurn, Writing
  <1>10. Agree'
    <2>1. disk["autoconf.h"] = Header(kconfig, A) /\ disk["rustc_cfg"] = RustCfg(kconfig, A)
      BY <1>1, <1>8 DEF BuildInv, InTurn
    <2>2. damage = 0 => /\ Proper(kconfig, disk[".config"])
                        /\ Changed(A, AutoConf(kconfig, disk[".config"])) \subseteq strayed
      BY <1>1, <1>8 DEF BuildInv, Agree
    <2> QED BY <1>1, <1>3, <1>4, <2>1, <2>2 DEF Agree
  <1>11. Lines' = A
    BY <1>3, <1>6 DEF Lines
  <1>12. ASSUME NEW o \in Objects, compiled[o] # Nothing, NEW p \in Differ(o, SeesIn(o, kconfig, A))
         PROVE  p[1].sym \in unnoticed \cup newer[o]
    <2>1. CASE p \in Differ(o, SeesIn(o, version, Lines))
      BY <1>12, <2>1 DEF BuildInv, ObjectsFit
    <2>2. CASE p \notin Differ(o, SeesIn(o, version, Lines))
      <3>1. p \in SymDiff(SeesIn(o, version, Lines), SeesIn(o, kconfig, A))
        BY <1>12, <2>2 DEF Differ, SymDiff
      <3>2. p[1].sym \in Reprinted(Lines, A)
        BY <3>1, SeesDiffer
      <3>3. Shown(p[1].sym)
        BY <1>1, <1>8, <3>2 DEF BuildInv, ChangesShown
      <3>4. p \in SeesIn(o, version, Lines) \/ p \in SeesIn(o, kconfig, A)
        BY <3>1 DEF SymDiff
      <3>5. p[1].sym \in parse_dep_file(o)
        BY <3>4, SeesReads, ReadsAreParsed DEF SeesIn
      <3> QED BY <1>12, <3>3, <3>5 DEF Shown
    <2> QED BY <2>1, <2>2
  <1>13. ObjectsFit'
    <2>1. \A o : (Differ(o, SeesIn(o, version, Lines)))' = Differ(o, SeesIn(o, kconfig, A))
      BY <1>1, <1>3, <1>11 DEF Differ, SeesIn
    <2> QED BY <1>3, <1>12, <2>1 DEF BuildInv, ObjectsFit
  <1>14. ChangesShown'
    BY <1>1, <1>3, <1>7, <1>11 DEF ChangesShown
  <1> QED BY <1>3, <1>9, <1>10, <1>13, <1>14 DEF BuildInv

\* When make compiles, the headers are those of auto.conf.
LEMMA UpToDate == ASSUME BuildInv, ~NeedSync PROVE ~Stale /\ Lines = disk["auto.conf"]
  BY DEF NeedSync, Stale, Lines

LEMMA CompileBuild == ASSUME BuildInv, NEW o \in Objects, Compile(o) PROVE BuildInv'
  <1>1. /\ pc = "shell" /\ ~NeedSync
        /\ compiled' = [compiled EXCEPT ![o] = Sees(o, disk["autoconf.h"], disk["rustc_cfg"])]
        /\ newer' = [newer EXCEPT ![o] = {}]
        /\ UNCHANGED <<kconfig, disk, outdated, pc, tool, user, order, calculated, damage,
                       unnoticed, strayed, version>>
    BY DEF Compile, process
  <1>2. ~Stale /\ Lines = disk["auto.conf"]
    BY <1>1, UpToDate
  <1>3. Types_'
    BY <1>1 DEF BuildInv, Types_
  <1>4. Calculated' /\ InTurn' /\ Agree'
    BY <1>1 DEF BuildInv, Calculated, InTurn, Agree, Stale, NewLines
  <1>5. Sees(o, disk["autoconf.h"], disk["rustc_cfg"]) = SeesIn(o, version, Lines)
    BY <1>2 DEF BuildInv, Agree, SeesIn
  <1>6. /\ compiled = [q \in Objects |-> compiled[q]] /\ newer = [q \in Objects |-> newer[q]]
    BY DEF BuildInv, Types_
  <1>7. compiled'[o] = SeesIn(o, version, Lines)
    BY <1>1, <1>5, <1>6
  <1>8. Lines' = Lines
    BY <1>1 DEF Lines
  <1>9. ObjectsFit'
    <2>1. ASSUME NEW q \in Objects, (compiled[q] # Nothing)'
          PROVE  /\ \A p \in compiled'[q] : p[1] \in Reads(q)
                 /\ \A p \in (Differ(q, SeesIn(q, version, Lines)))' : p[1].sym \in unnoticed' \cup newer'[q]
      <3>1. CASE q = o
        <4>1. (Differ(o, SeesIn(o, version, Lines)))' = {}
          BY <1>1, <1>7, <1>8 DEF Differ, SeesIn, SymDiff
        <4> QED BY <3>1, <4>1, <1>7, SeesReads DEF SeesIn
      <3>2. CASE q # o
        <4>1. compiled'[q] = compiled[q] /\ newer'[q] = newer[q]
          BY <1>1, <1>6, <3>2
        <4>2. (Differ(q, SeesIn(q, version, Lines)))' = Differ(q, SeesIn(q, version, Lines))
          BY <1>1, <1>8, <4>1 DEF Differ, SeesIn
        <4> QED BY <1>1, <2>1, <4>1, <4>2 DEF BuildInv, ObjectsFit
      <3> QED BY <3>1, <3>2
    <2> QED BY <2>1 DEF ObjectsFit
  <1>10. ChangesShown'
    BY <1>1, <1>8 DEF BuildInv, ChangesShown
  <1> QED BY <1>3, <1>4, <1>9, <1>10 DEF BuildInv

LEMMA InitBuild == Init => BuildInv
  <1> SUFFICES ASSUME Init PROVE BuildInv
    OBVIOUS
  <1>1. Types_
    BY DEF Init, Types_, Places
  <1>2. Stale
    BY DEF Init, Stale, Generated
  <1>3. Calculated /\ InTurn /\ Agree
    BY <1>2 DEF Init, Calculated, InTurn, Agree, Writing
  <1>4. \A o \in Objects : compiled[o] = Nothing
    BY DEF Init
  <1>5. ObjectsFit
    BY <1>4 DEF ObjectsFit
  <1>6. DOMAIN Lines = {}
    BY DEF Init, Lines, Empty, Generated
  <1>7. ChangesShown
    BY <1>6 DEF Init, ChangesShown
  <1> QED BY <1>1, <1>3, <1>5, <1>7 DEF BuildInv

LEMMA NextBuild == ASSUME BuildInv, [Next]_vars PROVE BuildInv'
  <1>1. CASE UNCHANGED vars
    <2>1. UNCHANGED <<kconfig, disk, outdated, newer, compiled, pc, tool, user, order,
                      calculated, todo, damage, unnoticed, strayed, version>>
      BY <1>1 DEF vars
    <2>2. Types_' /\ Calculated'
      BY <2>1 DEF BuildInv, Types_, Calculated
    <2>3. NewLines' = NewLines /\ Lines' = Lines /\ Known' = Known /\ OldValues' = OldValues
      BY <2>1 DEF NewLines, Lines, Known, OldValues
    <2>4. InTurn' /\ Agree'
      BY <2>1, <2>3 DEF BuildInv, InTurn, Agree, Stale
    <2>5. ObjectsFit'
      BY <2>1, ObjectsFitElsewhere DEF BuildInv
    <2>6. /\ Reprinted(Lines, NewLines)' = Reprinted(Lines, NewLines)
          /\ Retyped' = Retyped
          /\ \A s : Shown(s)' = Shown(s)
      BY <2>1, <2>3 DEF Reprinted, Changed, PrintedAlike, Retyped, Shown
    <2>7. ChangesShown'
      BY <2>1, <2>3, <2>6 DEF BuildInv, ChangesShown
    <2> QED BY <2>2, <2>4, <2>5, <2>7 DEF BuildInv
  <1>2. ASSUME NEW k \in Kconfigs, EditKconfig(k) PROVE BuildInv'
    BY <1>2, EditInv
  <1>3. ASSUME NEW t \in {"conf", "gui"}, NEW answers \in Entered, Configure(t, answers)
        PROVE  BuildInv'
    BY <1>3, RunInv DEF Configure
  <1>4. ASSUME NEW answers \in Entered, syncconfig(answers) PROVE BuildInv'
    BY <1>4, RunInv DEF syncconfig
  <1>5. CASE NoSilentUpdate BY <1>5, NoSilentUpdateBuild
  <1>6. CASE WriteTmp BY <1>6, WriteTmpBuild
  <1>7. CASE Compare BY <1>7, CompareBuild
  <1>8. CASE KeepOld BY <1>8, KeepOldBuild
  <1>9. CASE PutNew BY <1>9, PutNewBuild
  <1>10. CASE conf_write_autoconf_cmd BY <1>10, WriteCmdBuild
  <1>11. CASE ReadAutoConf BY <1>11, ReadAutoConfBuild
  <1>12. ASSUME NEW s \in Symbols, TouchVanished(s) \/ Touch(s) PROVE BuildInv'
    BY <1>12, TouchVanishedBuild, TouchBuild
  <1>13. CASE VanishedTouched BY <1>13, VanishedTouchedBuild
  <1>14. CASE Touched BY <1>14, TouchedBuild
  <1>15. CASE WriteHeader BY <1>15, WriteHeaderBuild
  <1>16. CASE WriteRustCfg BY <1>16, WriteRustCfgBuild
  <1>17. CASE WriteAutoConf BY <1>17, WriteAutoConfBuild
  <1>18. CASE Die BY <1>18, DieBuild
  <1>19. ASSUME NEW o \in Objects, Compile(o) PROVE BuildInv'
    BY <1>19, CompileBuild
  <1> QED
    BY <1>1, <1>2, <1>3, <1>4, <1>5, <1>6, <1>7, <1>8, <1>9, <1>10, <1>11, <1>12,
       <1>13, <1>14, <1>15, <1>16, <1>17, <1>18, <1>19
    DEF Next

LEMMA BuildRebuilt == ASSUME BuildInv PROVE Rebuilt
  <1> SUFFICES ASSUME Made PROVE Rebuilt
    BY DEF Rebuilt
  <1>1. /\ pc = "shell" /\ disk[".config"] # Nothing /\ ~NeedSync
        /\ \A o \in Objects : compiled[o] # Nothing /\ newer[o] = {}
    BY DEF Made, ToCompile
  <1>2. ~Stale /\ Lines = disk["auto.conf"]
    BY <1>1, UpToDate
  <1>3. /\ version = kconfig
        /\ disk["autoconf.h"] = Header(kconfig, Lines)
        /\ disk["rustc_cfg"] = RustCfg(kconfig, Lines)
    BY <1>2 DEF BuildInv, InTurn, Agree
  <1>4. ASSUME NEW o \in Objects,
               NEW p \in SymDiff(compiled[o], Sees(o, disk["autoconf.h"], disk["rustc_cfg"]))
        PROVE  p[1].sym \in unnoticed
    <2>1. p \in Differ(o, SeesIn(o, version, Lines))
      BY <1>3, <1>4 DEF Differ, SeesIn
    <2> QED BY <1>1, <2>1 DEF BuildInv, ObjectsFit
  <1>5. ASSUME damage = 0, NEW o \in Orders(kconfig)
        PROVE  LET lines == AutoConf(kconfig, CalcValues(kconfig, conf_read, o))
               IN  \A p \in SymDiff(disk["autoconf.h"], Header(kconfig, lines))
                              \cup SymDiff(disk["rustc_cfg"], RustCfg(kconfig, lines)) :
                      p[1].sym \in strayed
    <2> DEFINE lines == AutoConf(kconfig, CalcValues(kconfig, conf_read, o))
    <2>1. /\ Proper(kconfig, disk[".config"])
          /\ Changed(Lines, AutoConf(kconfig, disk[".config"])) \subseteq strayed
      BY <1>1, <1>2, <1>5 DEF BuildInv, Agree
    <2>2. CalcValues(kconfig, conf_read, o) = disk[".config"]
      <3>1. PICK S \in SUBSET Symbols : disk[".config"] \in [S -> Values]
        BY <2>1 DEF Proper, Configurations
      <3>2. DOMAIN disk[".config"] \cap Known = DOMAIN disk[".config"]
        BY <2>1 DEF Proper, Known
      <3>3. conf_read = disk[".config"]
        BY <1>1, <3>1, <3>2 DEF conf_read, Only, Restrict
      <3> QED BY <2>1, <3>3 DEF Proper
    <2>3. Changed(Lines, lines) \subseteq strayed
      BY <2>1, <2>2
    <2> HIDE DEF lines
    <2>4. ASSUME NEW p \in SymDiff(Header(kconfig, Lines), Header(kconfig, lines))
                           \cup SymDiff(RustCfg(kconfig, Lines), RustCfg(kconfig, lines))
          PROVE  p[1].sym \in strayed
      <3>1. p[1].sym \in Changed(Lines, lines) \/ p[1].sym \in Changed(lines, Lines)
        BY <2>4, PrintsDiffer DEF SymDiff
      <3> QED BY <2>3, <3>1, ChangedSymmetric
    <2> USE DEF lines
    <2> QED BY <1>3, <2>4
  <1> QED BY <1>4, <1>5 DEF Rebuilt

\* When make has nothing left to do, every object is what the compiler would make
\* of the headers now, and these say what .config says, but for the changes that
\* the code does not look at (conf_write_autoconf, confdata.c:1061-1115).
THEOREM IsRebuilt == Spec => []Rebuilt
  <1>1. Init => BuildInv
    BY InitBuild
  <1>2. BuildInv /\ [Next]_vars => BuildInv'
    BY NextBuild
  <1>3. BuildInv => Rebuilt
    BY BuildRebuilt
  <1> QED BY <1>1, <1>2, <1>3, PTL DEF Spec

\* A program that calculates again what it has written comes to other values only
\* if there is a choice, and only if what was entered is not what it has written:
\* once .config is one of the Kconfig files as they are, auto.conf and the headers
\* follow it (conf_touch_deps, confdata.c:969-973).
THEOREM StraysOnlyInChoices ==
    Spec => [][strayed' \subseteq strayed \/ (Members[kconfig] # {} /\ user # calculated)]_vars
  <1> DEFINE Caused == strayed' \subseteq strayed \/ (Members[kconfig] # {} /\ user # calculated)
  <1>1. Init => BuildInv
    BY InitBuild
  <1>2. BuildInv /\ [Next]_vars => BuildInv'
    BY NextBuild
  <1>3. ASSUME BuildInv, VanishedTouched PROVE Caused
    <2>1. /\ pc = "vanished" /\ order' \in Orders(kconfig)
          /\ calculated' = CalcValues(kconfig, user, order')
          /\ strayed' = {s \in DOMAIN calculated \cup DOMAIN calculated' :
                            Only(calculated, {s}) # Only(calculated', {s})}
      BY <1>3 DEF VanishedTouched
    <2>2. calculated' = calculated => strayed' = {}
      BY <2>1
    <2>3. CASE user = calculated
      <3>1. Proper(kconfig, calculated)
        BY <1>3, <2>1, CalculatedProper
      <3> QED BY <2>1, <2>2, <2>3, <3>1 DEF Proper
    <2>4. CASE Members[kconfig] = {}
      <3>1. \A o \in Orders(kconfig) : o = {}
        BY <2>4 DEF Orders
      <3>2. order \in Orders(kconfig) /\ calculated = CalcValues(kconfig, user, order)
        BY <1>3, <2>1 DEF BuildInv, Calculated
      <3>3. order' = order
        BY <2>1, <3>1, <3>2
      <3> QED BY <2>1, <2>2, <3>2, <3>3
    <2> QED BY <2>3, <2>4
  <1>4. ASSUME [Next]_vars, ~VanishedTouched PROVE strayed' = strayed
    BY <1>4
    DEF Next, vars, build, process, EditKconfig, Configure, syncconfig, Run, NoSilentUpdate,
        WriteTmp, Compare, KeepOld, PutNew, conf_write_autoconf_cmd, ReadAutoConf, TouchVanished,
        Touch, Touched, WriteHeader, WriteRustCfg, WriteAutoConf, Put, Die, Compile
  <1>5. BuildInv /\ [Next]_vars => [Caused]_vars
    BY <1>3, <1>4
  <1> QED BY <1>1, <1>2, <1>5, PTL DEF Spec
=============================================================================
