--------------------------------- MODULE Build ---------------------------------
(***************************************************************************)
(* The Makefile and the tools it runs: make compares times, runs the tools *)
(* of bootstrap/ on what is out of date, several at a time, and believes   *)
(* their exit status.  Every system call of a tool may fail; make may be   *)
(* interrupted; sources are edited between and during makes.               *)
(*                                                                         *)
(* A file is <<name, kind>>.  In place of times a target has the fact make *)
(* derives from them (stale: something it depends on was written after     *)
(* it), in place of contents whether it is what the tool should make of    *)
(* its inputs ("whole"), a beginning of that ("partial") or something else *)
(* ("wrong"), and whether an input has changed since it was read (old).    *)
(***************************************************************************)
EXTENDS Integers, Sequences, FiniteSets

CONSTANTS OwnUnits,   \* the .c files of each program, without the runtime
          Headers,    \* the headers, among them those that #include others
          Editable,   \* sources and headers that are edited
          Faults,     \* <<tool, fault>>: what may go wrong in a tool
          Seeds,      \* the programs update-bootstrap copies, in order
          EditInputs, \* whether an input is edited while a tool works on it
          MaxJobs, MaxMakes, MaxEdits

ASSUME SeedsAssumption == /\ "tld" \in DOMAIN OwnUnits
                          /\ Seeds \in Seq(DOMAIN OwnUnits) /\ Len(Seeds) > 0

VARIABLES disk,     \* what each target holds
          stale,    \* targets older than something they depend on
          old,      \* files made of something that has changed since
          job,      \* how far the tool that makes a target is
          loads,    \* what a running tool is to write
          late,     \* targets whose running tool has read what has changed since
          phase,    \* "idle", "making", "copying", "ok", "failed"
          goal, done, failing, copied,
          trusted,  \* no incomplete file was on disk when make started
          edited,   \* a file has been edited since make started
          makes, edits
vars == <<disk, stale, old, job, loads, late, phase, goal, done, failing, copied,
          trusted, edited, makes, edits>>

-----------------------------------------------------------------------------
(* The rules of the Makefile.                                              *)
Runtime  == {"tcc_rt", "tcc_rt_start"}
Programs == DOMAIN OwnUnits
Units    == Runtime \cup UNION {OwnUnits[p] : p \in Programs}
Src(u)   == <<u, "source">>
Hdr(h)   == <<h, "header">>
Obj(u)   == <<u, "object">>
Exe(p)   == <<p, "program">>
Seed(p)  == <<p, "seed">>
Objects  == {Obj(u) : u \in Units}
Exes     == {Exe(p) : p \in Programs}
Copies   == {Seed(Seeds[i]) : i \in DOMAIN Seeds}
Targets  == Objects \cup Exes

(* HEADERS, the headers a unit is said to depend on; -MD, which would list *)
(* all of them, is among the flags tcc ignores.                            *)
Listed(u) == CASE u = "tcc_rt_start" -> {}
               [] u = "tcc_rt"       -> Headers \cap {"tcc_need"}
               [] OTHER              -> Headers \cap {"tcc_need", "elf", "elf_write"}
(* The headers a unit includes, itself or through another header.          *)
Includes(u) == CASE u = "tcc_rt_start"           -> {}
                 [] u = "tcc_rt"                 -> Headers \cap {"tcc_need"}
                 [] u = "tld"                    -> Headers \cap {"tcc_need", "elf"}
                 [] u \in {"tas", "elf_write"}   -> Headers \cap {"tcc_need", "elf", "elf_write"}
                 [] OTHER                        -> Headers

Inputs(u)  == {Src(u)} \cup {Hdr(h) : h \in Includes(u)}
ObjectRule(u) == {Src(u)} \cup {Hdr(h) : h \in Listed(u)}
Parts(p)   == {Obj(u) : u \in OwnUnits[p] \cup Runtime}
(* Mutant: a program depends on its own objects, not on the runtime's.     *)
LinkRuleOwn(p) == {Obj(u) : u \in OwnUnits[p]} \cup IF p = "tld" THEN {} ELSE {Exe("tld")}
LinkRule(p) == Parts(p) \cup IF p = "tld" THEN {} ELSE {Exe("tld")}

Prereqs(t) == IF t \in Objects THEN ObjectRule(t[1]) ELSE LinkRule(t[1])
Goals      == IF goal = "all" THEN Exes ELSE {Exe(Seeds[i]) : i \in DOMAIN Seeds}
Needed     == Goals \cup (UNION {Prereqs(t) \cap Targets : t \in Goals})
              \cup (UNION {Parts("tld") : t \in Goals \ {Exe("tld")}})

(* The tool that makes a target: AS for the start file, CC, LD.            *)
Tool(t) == IF t = Obj("tcc_rt_start") THEN "tas" ELSE IF t \in Objects THEN "tcc" ELSE "tld"

-----------------------------------------------------------------------------
(* The tools.  tlibc_malloc compares with -1 while the kernel answers with *)
(* another negative number: the process is killed at the first write.      *)
Killed     == 139
MallocFails == Killed
(* What main returns, tcc_rt_start.S hands to the kernel: a byte of it.    *)
Exited(status) == status % 256

(* read_file, preprocess, parse_program: every failure ends the compiler,  *)
(* but an included file that cannot be read is only reported.              *)
ReadFile == [f \in {"open", "size", "memory", "read"} |->
               IF f = "memory" THEN MallocFails ELSE 1]
TccReads == [f \in DOMAIN ReadFile \cup {"mistake", "header"} |->
               CASE f \in DOMAIN ReadFile -> ReadFile[f]
                 [] f = "mistake"         -> 1
                 [] f = "header"          -> 0]
(* A read error is the end of the file to tas, and whatever it cannot      *)
(* assemble it reports and leaves out.                                     *)
TasReads == [f \in {"open", "read", "mistake"} |-> IF f = "open" THEN 1 ELSE 0]
(* Every failure of tld ends in error, which exits.                        *)
TldReads == [f \in {"open", "seek", "memory", "read", "mistake"} |->
               IF f = "memory" THEN MallocFails ELSE 1]

ReadsOf(tool) == CASE tool = "tcc" -> TccReads [] tool = "tas" -> TasReads [] tool = "tld" -> TldReads
(* elf_write_object and write_output: the file is created, or emptied, and *)
(* written at once; a short write is reported.                             *)
Written(tool, fault) == 1

Happens(t, fault) == <<Tool(t), fault>> \in Faults
(* Whether an input of t is incomplete or wrong; tld may then fail or not. *)
BadInput(t) == t \in Exes /\ \E o \in Parts(t[1]) : disk[o] # "whole"
Contents(t) ==
  IF BadInput(t) THEN {"wrong"}
  ELSE {"whole"} \cup {"wrong" : f \in {g \in DOMAIN ReadsOf(Tool(t)) :
                                   ReadsOf(Tool(t))[g] = 0 /\ Happens(t, g)}}
OldInput(t) == t \in Exes /\ \E o \in Parts(t[1]) : o \in old
Usable(t)   == Seed(Tool(t)) \in Copies => disk[Seed(Tool(t))] = "whole"

-----------------------------------------------------------------------------
(* A file is written: its time is now, so whatever depends on it is older. *)
Dependents(f) == {t \in Targets : f \in Prereqs(t)}
Touch(f, holds) ==
  /\ disk' = [disk EXCEPT ![f] = holds]
  /\ stale' = (stale \ {f}) \cup {t \in Dependents(f) : disk[t] # "absent"}

Init ==
  /\ disk = [t \in Targets \cup Copies |-> IF t \in Copies THEN "whole" ELSE "absent"]
  /\ stale = {} /\ old = {} /\ late = {}
  /\ job = [t \in Targets |-> "none"]
  /\ loads = [t \in Targets |-> "whole"]
  /\ phase = "idle" /\ goal = "all" /\ done = {} /\ failing = FALSE /\ copied = 0
  /\ trusted = TRUE /\ edited = FALSE /\ makes = 0 /\ edits = 0

Running == {t \in Targets : job[t] # "none"}
AtRest  == phase \in {"idle", "ok", "failed"}

StartMake(g) ==
  /\ AtRest /\ makes < MaxMakes
  /\ makes' = makes + 1
  /\ goal' = g /\ phase' = "making"
  /\ done' = {} /\ failing' = FALSE /\ copied' = 0 /\ edited' = FALSE
  /\ trusted' = /\ \A t \in Targets : disk[t] \in {"absent", "whole"}
                /\ \A s \in Copies : disk[s] = "whole"
  /\ UNCHANGED <<disk, stale, old, job, loads, late, edits>>

(* make looks at a target when all it depends on is done: it is kept, or   *)
(* its recipe is started.                                                  *)
Considered(t) ==
  /\ phase = "making" /\ ~failing
  /\ t \in Needed \ done /\ job[t] = "none"
  /\ Prereqs(t) \cap Targets \subseteq done
UpToDate(t) == disk[t] # "absent" /\ t \notin stale

Keep(t) ==
  /\ Considered(t) /\ UpToDate(t)
  /\ done' = done \cup {t}
  /\ UNCHANGED <<disk, stale, old, job, loads, late, phase, goal, failing, copied,
                 trusted, edited, makes, edits>>

StartJob(t) ==
  /\ Considered(t) /\ ~UpToDate(t)
  /\ Cardinality(Running) < MaxJobs
  /\ job' = [job EXCEPT ![t] = "started"]
  /\ UNCHANGED <<disk, stale, old, loads, late, phase, goal, done, failing, copied,
                 trusted, edited, makes, edits>>

(* The end of a tool: make goes on, or starts nothing more.                *)
Ends(t, status) ==
  /\ job' = [job EXCEPT ![t] = "none"]
  /\ loads' = [loads EXCEPT ![t] = "whole"]
  /\ late' = late \ {t}
  /\ IF Exited(status) = 0 THEN done' = done \cup {t} /\ UNCHANGED failing
     ELSE failing' = TRUE /\ UNCHANGED done

(* The tool has read and worked out everything, and written nothing.       *)
Reads(t) ==
  /\ job[t] = "started" /\ Usable(t)
  /\ \E holds \in Contents(t) : loads' = [loads EXCEPT ![t] = holds]
  /\ late' = late \cup {s \in {t} : OldInput(s)}
  /\ job' = [job EXCEPT ![t] = "read"]
  /\ UNCHANGED <<disk, stale, old, phase, goal, done, failing, copied, trusted, edited, makes, edits>>

FailsToRead(t) ==
  /\ job[t] = "started"
  /\ \E f \in DOMAIN ReadsOf(Tool(t)) :
       /\ ReadsOf(Tool(t))[f] # 0
       /\ Happens(t, f) \/ BadInput(t) \/ ~Usable(t)
       /\ Ends(t, ReadsOf(Tool(t))[f])
  /\ UNCHANGED <<disk, stale, old, phase, goal, copied, trusted, edited, makes, edits>>

Creates(t) ==
  /\ job[t] = "read"
  /\ Touch(t, "partial")
  /\ old' = old \ {t}
  /\ job' = [job EXCEPT ![t] = "created"]
  /\ UNCHANGED <<loads, late, phase, goal, done, failing, copied, trusted, edited, makes, edits>>

FailsToCreate(t) ==
  /\ job[t] = "read" /\ Happens(t, "create")
  /\ Ends(t, Written(Tool(t), "create"))
  /\ UNCHANGED <<disk, stale, old, phase, goal, copied, trusted, edited, makes, edits>>

Writes(t) ==
  /\ job[t] = "created"
  /\ Touch(t, loads[t])
  /\ old' = (old \ {t}) \cup ({t} \cap late)
  /\ Ends(t, 0)
  /\ UNCHANGED <<phase, goal, copied, trusted, edited, makes, edits>>

WritesShort(t) ==
  /\ job[t] = "created" /\ Happens(t, "write")
  /\ Touch(t, "partial")
  /\ Ends(t, Written(Tool(t), "write"))
  /\ UNCHANGED <<old, phase, goal, copied, trusted, edited, makes, edits>>

-----------------------------------------------------------------------------
(* All that was needed is done; or a recipe failed, and make has waited    *)
(* for the others.  Nothing deletes what a failed recipe leaves.           *)
MakeEnds ==
  /\ phase = "making" /\ Running = {}
  /\ failing \/ Goals \subseteq done
  /\ phase' = IF failing THEN "failed" ELSE IF goal = "all" THEN "ok" ELSE "copying"
  /\ UNCHANGED <<disk, stale, old, job, loads, late, goal, done, failing, copied, trusted, edited, makes, edits>>

(* cp, for one program after the other.                                    *)
Source == Exe(Seeds[copied + 1])
Copy   == Seed(Seeds[copied + 1])
CopySeed ==
  /\ phase = "copying"
  /\ disk' = [disk EXCEPT ![Copy] = disk[Source]]
  /\ old' = IF Source \in old THEN old \cup {Copy} ELSE old \ {Copy}
  /\ copied' = copied + 1
  /\ phase' = IF copied' = Len(Seeds) THEN "ok" ELSE phase
  /\ UNCHANGED <<stale, job, loads, late, goal, done, failing, trusted, edited, makes, edits>>

CopyFails ==
  /\ phase = "copying" /\ <<"cp", "write">> \in Faults
  /\ disk' = [disk EXCEPT ![Copy] = "partial"]
  /\ old' = old \ {Copy}
  /\ phase' = "failed"
  /\ UNCHANGED <<stale, job, loads, late, goal, done, failing, copied, trusted, edited, makes, edits>>

(* ^C: make deletes the targets that its recipes have touched.             *)
Interrupt ==
  /\ phase = "making" /\ <<"make", "signal">> \in Faults
  /\ LET Touched == {t \in Targets : job[t] = "created"}
     IN  /\ disk' = [t \in DOMAIN disk |-> IF t \in Touched THEN "absent" ELSE disk[t]]
         /\ stale' = stale \ Touched
  /\ job' = [t \in Targets |-> "none"]
  /\ loads' = [t \in Targets |-> "whole"] /\ late' = {}
  /\ phase' = "failed"
  /\ UNCHANGED <<old, goal, done, failing, copied, trusted, edited, makes, edits>>

Clean ==
  /\ AtRest /\ \E t \in Targets : disk[t] # "absent"
  /\ disk' = [t \in DOMAIN disk |-> IF t \in Targets THEN "absent" ELSE disk[t]]
  /\ stale' = {} /\ old' = old \ Targets
  /\ phase' = "idle"
  /\ UNCHANGED <<job, loads, late, goal, done, failing, copied, trusted, edited, makes, edits>>

(* Somebody edits f.                                                       *)
MadeOf(t, f) == IF t \in Objects THEN f \in Inputs(t[1])
                ELSE \E o \in Parts(t[1]) : f \in Inputs(o[1])
Edit(f) ==
  /\ edits < MaxEdits
  /\ EditInputs \/ \A t \in Running : ~MadeOf(t, f)
  /\ edits' = edits + 1 /\ edited' = TRUE
  /\ stale' = stale \cup {t \in Dependents(f) : disk[t] # "absent"}
  /\ old' = old \cup {t \in Targets : disk[t] = "whole" /\ MadeOf(t, f)}
                 \cup {s \in Copies : disk[s] = "whole" /\ MadeOf(Exe(s[1]), f)}
  /\ late' = late \cup {t \in Targets : job[t] \in {"read", "created"} /\ MadeOf(t, f)}
  /\ UNCHANGED <<disk, job, loads, phase, goal, done, failing, copied, trusted, makes>>

-----------------------------------------------------------------------------
Next ==
  \/ \E g \in {"all", "update-bootstrap"} : StartMake(g)
  \/ \E t \in Targets : \/ Keep(t) \/ StartJob(t) \/ Reads(t) \/ FailsToRead(t)
                        \/ Creates(t) \/ FailsToCreate(t) \/ Writes(t) \/ WritesShort(t)
  \/ MakeEnds \/ CopySeed \/ CopyFails \/ Interrupt \/ Clean
  \/ \E f \in Editable : Edit(f)

Spec == Init /\ [][Next]_vars

-----------------------------------------------------------------------------
(* make that starts with no incomplete file about and says all is well has *)
(* made the programs, and update-bootstrap the seeds, of the sources as    *)
(* they are: whatever was edited, interrupted, failed or removed in makes  *)
(* before, and in whatever order the recipes ran and failed.               *)
(* It needs that make knows what a unit includes, that tools report what   *)
(* fails, and that no input changes under a tool at work.                  *)
EveryInputListed == \A u \in Units : Editable \cap Inputs(u) \subseteq ObjectRule(u)
EveryFaultReported ==
  \A tool \in {"tcc", "tas", "tld"} : \A f \in DOMAIN ReadsOf(tool) :
    <<tool, f>> \in Faults => ReadsOf(tool)[f] # 0
Orderly == EveryInputListed /\ EveryFaultReported /\ ~EditInputs

Good(t) == disk[t] = "whole" /\ t \notin old
BuiltFromSources ==
  phase = "ok" /\ trusted /\ ~edited =>
    /\ \A t \in Goals : Good(t)
    /\ goal = "update-bootstrap" => \A s \in Copies : Good(s)
=============================================================================
