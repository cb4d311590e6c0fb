------------------------------ MODULE Flashing ------------------------------
(***************************************************************************)
(* What one flash does, of the operations that Bench has as one write      *)
(* (src/src/hardware.rs, flash; src/src/flash_backend.rs): which program   *)
(* writes the image, what is refused, and what is erased and written in    *)
(* which order.                                                            *)
(*                                                                         *)
(* A flash is the sequence of its steps.  It ends at a refusal, which is   *)
(* always the last, or at whichever step fails.  Memory is a set of        *)
(* addresses; chips are families, and debug probes their serial numbers.   *)
(* probe-rs, nrfutil, J-Link Commander and embarch_topology's choice of a  *)
(* probe are not in the repository.                                        *)
(***************************************************************************)
EXTENDS Integers, Sequences, FiniteSets, SequencesExt

None == "none"
Refused == "refused"
Tool == {"nrfutil", "jlink"}
Place == {"env", "path", "known"}   \* its variable, PATH, and where installers put it

-----------------------------------------------------------------------------
(* Which program                                                           *)

\* The first in this order that will do.
FirstOf(order, good) ==
    LET at == {i \in DOMAIN order : order[i] \in good}
    IN  IF at = {} THEN None ELSE order[CHOOSE i \in at : \A j \in at : i <= j]

RequiresVendorTool(chip) == chip \in {"nrf54l", "nrf54h"}
PreferredFor(chip) == IF chip \in {"nrf52", "nrf54l", "nrf54h"} THEN <<"nrfutil", "jlink">> ELSE <<>>

\* locate: the first place with a file that this system can execute.
Locate(installed, tool) ==
    FirstOf(<<"env", "path", "known">>, {p \in Place : installed[tool][p] = "usable"})

ToolIsHere(installed, tool) == Locate(installed, tool) # None

\* discover
Discover(chip, forced, installed) ==
    LET found == FirstOf(PreferredFor(chip), {t \in Tool : ToolIsHere(installed, t)})
    IN  CASE forced = "probe-rs" -> "probe-rs"
          [] forced \in Tool -> IF ToolIsHere(installed, forced) THEN forced ELSE Refused
          [] forced \notin Tool \cup {None, "probe-rs"} -> Refused
          [] forced = None /\ ~RequiresVendorTool(chip) -> "probe-rs"
          [] OTHER -> IF found = None THEN Refused ELSE found

-----------------------------------------------------------------------------
(* What is erased                                                          *)

Addresses(range) == range.from .. range.to - 1
Erasable(regions) == {r \in regions : ~r.alias /\ r.writable}
WholeChip(target) == UNION {Addresses(r) : r \in target.regions}

\* plan_erase's rule for a region, which is probe-rs's own
HasOneAlgorithm(region, algorithms) ==
    LET fits == {a \in algorithms : /\ a.from <= region.from /\ region.to <= a.to
                                    /\ a.cores = {} \/ region.core \in a.cores}
    IN  /\ region.core # None
        /\ \/ Cardinality(fits) = 1
           \/ Cardinality({a \in fits : a.default}) = 1 /\ Cardinality(fits) > 1

Do(do, arg) == [do |-> do, arg |-> arg]
RefuseIt == <<Do("refuse", {})>>
Erase(regions) == SetToSeq({Do("erase", Addresses(r)) : r \in regions})

\* Mutant: each region is looked at when its turn comes.
EraseOneByOne(regions, algorithms) ==
    LET good == {r \in Erasable(regions) : HasOneAlgorithm(r, algorithms)}
    IN  Erase(good) \o IF good = Erasable(regions) /\ good # {} THEN <<>> ELSE RefuseIt

\* plan_erase, and the erases that it allows
EraseAll(regions, algorithms) ==
    LET kept == Erasable(regions)
    IN  IF kept # {} /\ \A r \in kept : HasOneAlgorithm(r, algorithms)
        THEN Erase(kept) ELSE RefuseIt

-----------------------------------------------------------------------------
(* A flash: the format and base address of its image, and the probe it     *)
(* names.  Probes may be plugged in and out while it goes on.              *)

\* parse_format; stage_with_extension
Parses(format) == format \in {"elf", "hex", "bin", "uf2", "idf"}
Stages(format) == format \in {"elf", "hex", "ihex", "bin"}

\* resolve_probe: the one that is named, or the only one
ResolveProbe(attached, named) ==
    IF named # None
    THEN IF named \in attached THEN named ELSE Refused
    ELSE IF Cardinality(attached) = 1 THEN CHOOSE p \in attached : TRUE ELSE Refused

Then(step, rest) == IF step.arg = Refused THEN RefuseIt ELSE <<step>> \o rest

\* jlink_script: J-Link Commander's "erase" is of the whole chip; nrfutil erases
\* what it writes.
ToolRuns(tool, f, target) ==
    IF tool = "nrfutil" THEN <<Do("write", {})>>
    ELSE IF f.format = "bin" /\ ~f.based THEN RefuseIt
    ELSE (IF f.erase THEN <<Do("erase", WholeChip(target))>> ELSE <<>>) \o <<Do("write", {}), Do("reset", {})>>

\* run: staging and the script come before the tool is started.
RunTool(tool, f, target) ==
    LET runs == ToolRuns(tool, f, target)
    IN  IF ~Stages(f.format) \/ runs = RefuseIt THEN RefuseIt
        ELSE <<Do("spawn", f.named)>> \o runs

WithProbeRs(f, target) ==
    (IF f.erase THEN EraseAll(target.regions, target.algorithms) ELSE <<>>)
        \o <<Do("write", {}), Do("reset", {})>>

\* A refusal is the last step.
UpToRefusal(steps) ==
    LET refusals == {i \in DOMAIN steps : steps[i].do = "refuse"}
    IN  IF refusals = {} THEN steps
        ELSE SubSeq(steps, 1, CHOOSE i \in refusals : \A j \in refusals : i <= j)

\* flash, with the probes there are at its gate and when it opens one
FlashOf(f, backend, atGate, atOpen, target) ==
    LET opened == Do("open", ResolveProbe(atOpen, f.named))
        vendor == Then(opened, <<Do("close", {})>> \o RunTool(backend, f, target))
        probeRs == IF Parses(f.format) THEN Then(opened, WithProbeRs(f, target)) ELSE RefuseIt
    IN  UpToRefusal(
            Then(Do("gate", ResolveProbe(atGate, f.named)),
                 CASE backend = Refused -> RefuseIt
                   [] backend \in Tool -> vendor
                   [] OTHER -> probeRs))

-----------------------------------------------------------------------------
(* Flashes of two probes, on targets of two banks and option bytes         *)

Probes == {"mine", "other"}
Flashes == [format : {"elf", "hex", "ihex", "bin", "uf2", "idf", "other"}, based : BOOLEAN,
            erase : BOOLEAN, named : Probes \cup {None}]
Installs == [Tool -> [Place -> {"none", "foreign", "usable"}]]

Bank(from, to) ==
    {{}} \cup {{[from |-> from, to |-> to, alias |-> a, writable |-> w, core |-> c]} :
                    a \in BOOLEAN, w \in BOOLEAN, c \in {None, "core"}}
Regions == {low \cup high : low \in Bank(0, 2), high \in Bank(2, 3)}
Algorithms == SUBSET ([from : {0}, to : {2, 3}, cores : {{}, {"core"}}, default : BOOLEAN]
                        \cup {[from |-> 2, to |-> 3, cores |-> {"another"}, default |-> TRUE]})
ATarget == [regions |-> {}, algorithms |-> {}]
OptionBytes ==
    {[from |-> 0, to |-> 2, alias |-> FALSE, writable |-> TRUE, core |-> "core"],
     [from |-> 2, to |-> 3, alias |-> FALSE, writable |-> FALSE, core |-> "core"]}

Doing(steps, what) == {i \in DOMAIN steps : steps[i].do = what}
ErasedBy(steps) == UNION {steps[i].arg : i \in Doing(steps, "erase")}

\* One flash with probe-rs, which any of its checks may refuse
ErasesWhatItMay(f, target) ==
    LET steps == FlashOf(f, "probe-rs", {"mine"}, {"mine"}, target)
        may == UNION {Addresses(r) : r \in Erasable(target.regions)}
    IN  IF Doing(steps, "refuse") # {} THEN ErasedBy(steps) = {} /\ Doing(steps, "write") = {}
        ELSE /\ ErasedBy(steps) = IF f.erase THEN may ELSE {}
             /\ \A e \in Doing(steps, "erase"), w \in Doing(steps, "write") : e < w

\* Any flash: the DUT is left alone if it is refused, the board that was gated is
\* the one that is opened if the request names its probe, Core's own connection is
\* closed before a tool has the probe.
TouchesWhatItGated(f, backend, atGate, atOpen, target) ==
    LET steps == FlashOf(f, backend, atGate, atOpen, target)
    IN  /\ Doing(steps, "refuse") # {} =>
              Doing(steps, "erase") \cup Doing(steps, "write") \cup Doing(steps, "spawn") = {}
        /\ \A i \in Doing(steps, "open") :
              steps[1].do = "gate" /\ (f.named # None => steps[i].arg = steps[1].arg)
        /\ \A i \in Doing(steps, "spawn") :
              Cardinality(Doing(SubSeq(steps, 1, i), "open"))
                = Cardinality(Doing(SubSeq(steps, 1, i), "close"))

\* A family that probe-rs is not safe for is not written with it unless that is
\* forced, and a file of another system is never started.
ProgramIsRight(chip, forced, installed) ==
    LET backend == Discover(chip, forced, installed)
    IN  /\ RequiresVendorTool(chip) /\ backend = "probe-rs" => forced = "probe-rs"
        /\ backend \in Tool => installed[backend][Locate(installed, backend)] = "usable"

\* "erase must never become a chip erase in any backend" (a test of
\* flash_backend): what the target does not give up for erasing is not erased.
OptionBytesAreLeft ==
    \A f \in Flashes, backend \in Tool \cup {"probe-rs"} :
        LET target == [regions |-> OptionBytes,
                       algorithms |-> {[from |-> 0, to |-> 3, cores |-> {}, default |-> TRUE]}]
        IN  ErasedBy(FlashOf(f, backend, {"mine"}, {"mine"}, target))
                \subseteq UNION {Addresses(r) : r \in Erasable(target.regions)}

\* Whatever a request, the machine and the target alone refuse is refused before
\* anything is erased: probe-rs erases all that it may and nothing else, once every
\* region can be erased, and before it writes; a vendor's tool is started when
\* nothing is left to refuse and the probe is free (flash, plan_erase, run).
FlashesAreWellPlanned ==
    /\ \A f \in {g \in Flashes : g.named = None /\ g.format \in {"bin", "other"}} :
          \A regions \in Regions, algorithms \in Algorithms :
              ErasesWhatItMay(f, [regions |-> regions, algorithms |-> algorithms])
    /\ \A f \in Flashes, backend \in Tool \cup {"probe-rs", Refused} :
          \A atGate, atOpen \in SUBSET Probes :
              TouchesWhatItGated(f, backend, atGate, atOpen, ATarget)
    /\ \A chip \in {"nrf52", "nrf54l", "nrf54h", "stm32"}, installed \in Installs :
          \A forced \in Tool \cup {None, "probe-rs", "typo"} : ProgramIsRight(chip, forced, installed)
=============================================================================
