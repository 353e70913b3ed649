------------------------------ MODULE BuildProofs ------------------------------
(***************************************************************************)
(* make believes times and exit statuses.  For every set of programs,      *)
(* headers, faults and jobs that the Makefile describes rightly, and tools *)
(* that report their failures, that is enough: a make from whole files     *)
(* that succeeds has built everything from the sources as they are.        *)
(***************************************************************************)
EXTENDS Build, TLAPS

---------------------------------------------------------------------------
(* The inductive invariant. *)

Files     == Targets \cup Copies
Before(t) == Prereqs(t) \cap Targets
InMake    == phase \in {"making", "copying", "ok"}

Typed ==
  /\ disk \in [Files -> {"absent", "whole", "partial", "wrong"}]
  /\ job \in [Targets -> {"none", "started", "read", "created"}]
  /\ loads \in [Targets -> {"whole", "wrong"}]
  /\ stale \subseteq Targets /\ old \subseteq Files /\ late \subseteq Targets
  /\ done \subseteq Targets
  /\ phase \in {"idle", "making", "copying", "ok", "failed"}
  /\ goal \in {"all", "update-bootstrap"}
  /\ copied \in Nat

(* A recipe runs only when all before it is done, and what is done is not  *)
(* made again in the same make.                                            *)
Jobs ==
  /\ phase # "making" => \A t \in Targets : job[t] = "none"
  /\ \A t \in done : Before(t) \subseteq done
  /\ \A t \in Targets : job[t] # "none" => t \notin done /\ Before(t) \subseteq done

(* What is being written, or is not there, is made of nothing. *)
Unmade ==
  /\ \A t \in Targets : job[t] = "created" \/ disk[t] = "absent" => t \notin old
  /\ \A t \in late : job[t] # "none"

(* An object made of something that has changed is stale; a program made   *)
(* of old objects is, or is so as soon as these are made again.            *)
Dated ==
  /\ \A t \in Objects : t \notin late /\ (t \in old => t \in stale)
  /\ \A t \in Exes : /\ t \in old => \/ t \in stale
                                     \/ \E o \in Parts(t[1]) : ~UpToDate(o)
                     /\ t \in late => \E o \in Parts(t[1]) : ~UpToDate(o)

(* A make that began with whole files has, until a recipe fails, only      *)
(* whole files and those being written.                                    *)
Whole ==
  trusted =>
    /\ InMake => \A t \in done : disk[t] = "whole"
    /\ \A t \in Targets : job[t] \in {"read", "created"} => loads[t] = "whole"
    /\ phase = "making" /\ ~failing =>
         \A t \in Targets : disk[t] \in {"absent", "whole"} \/ job[t] = "created"

Fresh == InMake /\ ~edited => \A t \in done : UpToDate(t) /\ t \notin old

Ended ==
  /\ phase = "making" => copied = 0
  /\ phase = "copying" => goal = "update-bootstrap" /\ copied < Len(Seeds)
  /\ phase = "ok" /\ goal = "update-bootstrap" => copied = Len(Seeds)
  /\ phase \in {"copying", "ok"} => Goals \subseteq done
  /\ phase \in {"copying", "ok"} /\ trusted /\ ~edited =>
       \A j \in 1 .. copied : Good(Seed(Seeds[j]))

IInv == Typed /\ Jobs /\ Unmade /\ Dated /\ Whole /\ Fresh /\ Ended

---------------------------------------------------------------------------
(* The files and the rules. *)

LEMMA Kinds ==
  /\ Objects \cap Exes = {} /\ Objects \cap Copies = {} /\ Exes \cap Copies = {}
  /\ Targets \subseteq Files
  /\ \A t \in Objects : t[1] \in Units /\ t = Obj(t[1])
  /\ \A t \in Exes : t[1] \in Programs /\ t = Exe(t[1])
  /\ \A s \in Copies : s \notin Targets
BY DEF Objects, Exes, Copies, Targets, Files, Obj, Exe, Seed

(* Seeds are programs, and at least one. *)
LEMMA SeedsArePrograms ==
  /\ \A j \in 1 .. Len(Seeds) : Seeds[j] \in Programs
  /\ \A j \in 1 .. Len(Seeds) : Exe(Seeds[j]) \in Exes
  /\ \A j \in 1 .. Len(Seeds) : Seed(Seeds[j]) \in Copies
  /\ DOMAIN Seeds = 1 .. Len(Seeds) /\ Len(Seeds) \in Nat \ {0}
<1>1. Seeds \in Seq(Programs) /\ Len(Seeds) > 0
  BY SeedsAssumption DEF Programs
<1>2. DOMAIN Seeds = 1 .. Len(Seeds) /\ Len(Seeds) \in Nat \ {0}
  BY <1>1
<1>3. \A j \in 1 .. Len(Seeds) : Seeds[j] \in Programs
  BY <1>1
<1>4. \A j \in 1 .. Len(Seeds) : Exe(Seeds[j]) \in Exes
  BY <1>3 DEF Exes
<1>5. \A j \in 1 .. Len(Seeds) : Seed(Seeds[j]) \in Copies
  BY <1>2 DEF Copies
<1>6. QED
  BY <1>2, <1>3, <1>4, <1>5

(* What make is asked for are programs. *)
LEMMA GoalsArePrograms == Goals \subseteq Exes
BY SeedsArePrograms DEF Goals

(* A program depends on the objects it is linked of. *)
LEMMA PartsOfPrograms ==
  ASSUME NEW t \in Exes
  PROVE  Parts(t[1]) \subseteq Objects /\ Parts(t[1]) \subseteq Before(t)
<1>1. t[1] \in Programs /\ t \notin Objects
  BY Kinds
<1>2. OwnUnits[t[1]] \cup Runtime \subseteq Units
  BY <1>1 DEF Units
<1>3. Parts(t[1]) \subseteq Objects
  BY <1>2 DEF Parts, Objects
<1>4. QED
  BY <1>1, <1>3 DEF Before, Prereqs, LinkRule, Targets

(* Nothing is made of itself. *)
LEMMA NotOwnPrereq ==
  ASSUME NEW t \in Targets
  PROVE  t \notin Prereqs(t)
<1>1. CASE t \in Objects
  BY <1>1 DEF Prereqs, ObjectRule, Objects, Src, Hdr, Obj
<1>2. CASE t \in Exes
  <2>1. t \notin Objects /\ t = Exe(t[1])
    BY <1>2, Kinds
  <2>2. t \notin Parts(t[1])
    BY <1>2, <2>1, PartsOfPrograms
  <2>3. t[1] # "tld" => t # Exe("tld")
    BY <2>1 DEF Exe
  <2>4. QED
    BY <2>1, <2>2, <2>3 DEF Prereqs, LinkRule
<1>3. QED
  BY <1>1, <1>2 DEF Targets

---------------------------------------------------------------------------
(* The tools. *)

(* No failure a tool reports is taken for success by make. *)
LEMMA Statuses ==
  /\ \A t \in Targets : \A f \in DOMAIN ReadsOf(Tool(t)) :
       ReadsOf(Tool(t))[f] # 0 => Exited(ReadsOf(Tool(t))[f]) # 0
  /\ \A t, f : Exited(Written(Tool(t), f)) # 0
  /\ Exited(0) = 0
<1>1. Exited(1) # 0 /\ Exited(139) # 0 /\ Exited(0) = 0
  BY DEF Exited
<1>2. \A f \in DOMAIN TccReads : TccReads[f] \in {0, 1, 139}
  BY DEF TccReads, ReadFile, MallocFails, Killed
<1>3. \A f \in DOMAIN TasReads : TasReads[f] \in {0, 1, 139}
  BY DEF TasReads
<1>4. \A f \in DOMAIN TldReads : TldReads[f] \in {0, 1, 139}
  BY DEF TldReads, MallocFails, Killed
<1>5. \A t \in Targets : ReadsOf(Tool(t)) \in {TccReads, TasReads, TldReads}
  BY DEF ReadsOf, Tool
<1>6. \A t \in Targets : \A f \in DOMAIN ReadsOf(Tool(t)) :
        ReadsOf(Tool(t))[f] \in {0, 1, 139}
  BY <1>2, <1>3, <1>4, <1>5
<1>7. QED
  BY <1>1, <1>6 DEF Written

(* A tool makes something whole or something wrong, and nothing wrong      *)
(* unnoticed.                                                              *)
LEMMA WhatIsMade ==
  ASSUME NEW t \in Targets
  PROVE  /\ Contents(t) \subseteq {"whole", "wrong"}
         /\ EveryFaultReported /\ ~BadInput(t) => Contents(t) = {"whole"}
<1>1. Tool(t) \in {"tcc", "tas", "tld"}
  BY DEF Tool
<1>2. QED
  BY <1>1 DEF Contents, EveryFaultReported, Happens

(* Writing a file makes stale what depends on it, and only that. *)
LEMMA TouchStep ==
  ASSUME Typed, NEW t \in Targets, NEW h, Touch(t, h)
  PROVE  /\ disk'[t] = h /\ t \notin stale'
         /\ \A s \in Files : s # t => disk'[s] = disk[s]
         /\ \A s \in Targets : s # t =>
              (s \in stale' <=> s \in stale \/ (t \in Prereqs(s) /\ disk[s] # "absent"))
<1>1. t \in Files /\ t \notin Prereqs(t)
  BY Kinds, NotOwnPrereq
<1>2. QED
  BY <1>1 DEF Touch, Typed, Dependents

(* cp copies one of the goals to its seed. *)
LEMMA CopyIsSeed ==
  ASSUME IInv, CopySeed \/ CopyFails
  PROVE  /\ copied + 1 \in 1 .. Len(Seeds)
         /\ Source \in Exes /\ Source \in Goals /\ Copy \in Copies
<1>1. phase = "copying"
  BY DEF CopySeed, CopyFails
<1>2. copied \in Nat /\ copied < Len(Seeds) /\ goal = "update-bootstrap"
  BY <1>1 DEF IInv, Ended, Typed
<1>3. copied + 1 \in 1 .. Len(Seeds)
  BY <1>2, SeedsArePrograms
<1>4. Source \in Exes /\ Copy \in Copies
  BY <1>3, SeedsArePrograms DEF Source, Copy
<1>5. Source \in Goals
  BY <1>2, <1>3, SeedsArePrograms DEF Source, Goals
<1>6. QED
  BY <1>3, <1>4, <1>5

---------------------------------------------------------------------------
(* Each conjunct of the invariant is kept. *)

LEMMA TypedNext == ASSUME IInv, [Next]_vars PROVE Typed'
<1>1. Typed /\ Targets \subseteq Files /\ Copies \subseteq Files
  BY Kinds DEF IInv, Files
<1>2. ASSUME NEW g \in {"all", "update-bootstrap"}, StartMake(g) PROVE Typed'
  BY <1>1, <1>2 DEF Typed, StartMake
<1>3. ASSUME NEW t \in Targets, Keep(t) \/ StartJob(t) PROVE Typed'
  BY <1>1, <1>3 DEF Typed, Keep, StartJob
<1>4. ASSUME NEW t \in Targets, Reads(t) PROVE Typed'
  BY <1>1, <1>4, WhatIsMade DEF Typed, Reads
<1>5. ASSUME NEW t \in Targets, FailsToRead(t) \/ FailsToCreate(t) PROVE Typed'
  BY <1>1, <1>5 DEF Typed, FailsToRead, FailsToCreate, Ends
<1>6. ASSUME NEW t \in Targets, NEW h \in {"whole", "partial", "wrong"}, Touch(t, h)
      PROVE  /\ disk' \in [Files -> {"absent", "whole", "partial", "wrong"}]
             /\ stale' \subseteq Targets
  BY <1>1, <1>6 DEF Typed, Touch, Dependents
<1>7. ASSUME NEW t \in Targets, Creates(t) PROVE Typed'
  BY <1>1, <1>6, <1>7 DEF Typed, Creates
<1>8. ASSUME NEW t \in Targets, Writes(t) \/ WritesShort(t) PROVE Typed'
  <2>1. \E h \in {"whole", "partial", "wrong"} : Touch(t, h)
    BY <1>1, <1>8 DEF Typed, Writes, WritesShort
  <2>2. /\ disk' \in [Files -> {"absent", "whole", "partial", "wrong"}]
        /\ stale' \subseteq Targets
    BY <1>6, <2>1
  <2>3. old' \subseteq Files
    BY <1>1, <1>8 DEF Typed, Writes, WritesShort
  <2>4. QED
    BY <1>1, <1>8, <2>2, <2>3 DEF Typed, Writes, WritesShort, Ends
<1>9. CASE MakeEnds
  BY <1>1, <1>9 DEF Typed, MakeEnds
<1>10. CASE CopySeed \/ CopyFails
  <2>2. Source \in Files /\ Copy \in Files
    BY <1>1, <1>10, CopyIsSeed DEF Targets
  <2>3. disk' \in [Files -> {"absent", "whole", "partial", "wrong"}] /\ old' \subseteq Files
    BY <1>1, <1>10, <2>2 DEF Typed, CopySeed, CopyFails
  <2>4. phase' \in {"idle", "making", "copying", "ok", "failed"} /\ copied' \in Nat
    BY <1>1, <1>10 DEF Typed, CopySeed, CopyFails
  <2>5. QED
    BY <1>1, <1>10, <2>3, <2>4 DEF Typed, CopySeed, CopyFails
<1>11. CASE Interrupt
  BY <1>1, <1>11 DEF Typed, Interrupt
<1>12. CASE Clean
  BY <1>1, <1>12 DEF Typed, Clean
<1>13. ASSUME NEW f \in Editable, Edit(f) PROVE Typed'
  BY <1>1, <1>13 DEF Typed, Edit, Dependents
<1>14. CASE UNCHANGED vars
  BY <1>1, <1>14 DEF Typed, vars
<1>15. QED
  BY <1>2, <1>3, <1>4, <1>5, <1>7, <1>8, <1>9, <1>10, <1>11, <1>12, <1>13, <1>14 DEF Next

(* A recipe still runs only after what it depends on. *)
LEMMA JobsNext == ASSUME IInv, [Next]_vars PROVE Jobs'
<1>1. Typed /\ Jobs
  BY DEF IInv
<1>2. ASSUME NEW g \in {"all", "update-bootstrap"}, StartMake(g) PROVE Jobs'
  BY <1>1, <1>2 DEF Jobs, StartMake, AtRest
<1>3. ASSUME NEW t \in Targets, Keep(t) PROVE Jobs'
  BY <1>1, <1>3 DEF Jobs, Keep, Considered, Before
<1>4. ASSUME NEW t \in Targets, StartJob(t) PROVE Jobs'
  BY <1>1, <1>4 DEF Jobs, StartJob, Considered, Before, Typed
<1>5. ASSUME NEW t \in Targets, Reads(t) \/ Creates(t) PROVE Jobs'
  <2>1. /\ job[t] # "none" /\ UNCHANGED <<phase, done>>
        /\ \E n \in {"read", "created"} : job' = [job EXCEPT ![t] = n]
    BY <1>5 DEF Reads, Creates
  <2>2. \A s \in Targets : job'[s] # "none" => job[s] # "none"
    BY <1>1, <2>1 DEF Typed
  <2>3. phase # "making" => \A s \in Targets : job'[s] = "none"
    BY <1>1, <2>1 DEF Jobs
  <2>4. QED
    BY <1>1, <2>1, <2>2, <2>3 DEF Jobs
<1>6. ASSUME NEW t \in Targets, NEW status, Ends(t, status), job[t] # "none", phase' = phase
      PROVE  Jobs'
  <2>1. job'[t] = "none" /\ \A s \in Targets : s # t => job'[s] = job[s]
    BY <1>1, <1>6 DEF Ends, Typed
  <2>2. done' = done \/ done' = done \cup {t}
    BY <1>6 DEF Ends
  <2>3. QED
    BY <1>1, <1>6, <2>1, <2>2 DEF Jobs
<1>7. ASSUME NEW t \in Targets, FailsToRead(t) \/ FailsToCreate(t) \/ Writes(t) \/ WritesShort(t)
      PROVE  Jobs'
  <2>1. \E status : Ends(t, status) /\ job[t] # "none" /\ phase' = phase
    BY <1>7 DEF FailsToRead, FailsToCreate, Writes, WritesShort
  <2>2. QED
    BY <1>6, <2>1
<1>8. CASE MakeEnds
  BY <1>1, <1>8 DEF Jobs, MakeEnds, Running
<1>9. CASE CopySeed \/ CopyFails
  BY <1>1, <1>9 DEF Jobs, CopySeed, CopyFails
<1>10. CASE Interrupt
  BY <1>1, <1>10 DEF Jobs, Interrupt
<1>11. CASE Clean
  BY <1>1, <1>11 DEF Jobs, Clean, AtRest
<1>12. ASSUME NEW f \in Editable, Edit(f) PROVE Jobs'
  BY <1>1, <1>12 DEF Jobs, Edit
<1>13. CASE UNCHANGED vars
  BY <1>1, <1>13 DEF Jobs, vars
<1>14. QED
  BY <1>2, <1>3, <1>4, <1>5, <1>7, <1>8, <1>9, <1>10, <1>11, <1>12, <1>13 DEF Next

(* The files of a target that is being made are not edited. *)
LEMMA EditStep ==
  ASSUME Orderly, Typed, NEW f \in Editable, Edit(f)
  PROVE  /\ \A t \in Targets : job[t] # "none" => ~MadeOf(t, f)
         /\ UNCHANGED <<disk, job, loads, late, phase, goal, done, failing, copied, trusted>>
         /\ edited'
         /\ stale' = stale \cup {t \in Dependents(f) : disk[t] # "absent"}
         /\ \A t \in Targets : t \in old' <=> t \in old \/ (disk[t] = "whole" /\ MadeOf(t, f))
<1>1. \A t \in Targets : job[t] # "none" => ~MadeOf(t, f)
  BY DEF Orderly, Edit, Running
<1>2. late' = late
  BY <1>1 DEF Edit
<1>3. \A t \in Targets : t \in old' <=> t \in old \/ (disk[t] = "whole" /\ MadeOf(t, f))
  BY Kinds DEF Edit
<1>4. QED
  BY <1>1, <1>2, <1>3 DEF Edit

(* What is not there or half written is still made of nothing. *)
LEMMA UnmadeNext == ASSUME Orderly, IInv, [Next]_vars PROVE Unmade'
<1>1. Typed /\ Unmade /\ Jobs
  BY DEF IInv
<1>2. ASSUME NEW g \in {"all", "update-bootstrap"}, StartMake(g) PROVE Unmade'
  BY <1>1, <1>2 DEF Unmade, StartMake
<1>3. ASSUME NEW t \in Targets, Keep(t) \/ StartJob(t) PROVE Unmade'
  BY <1>1, <1>3 DEF Unmade, Keep, StartJob, Typed
<1>4. ASSUME NEW t \in Targets, Reads(t) PROVE Unmade'
  BY <1>1, <1>4 DEF Unmade, Reads, Typed
<1>5. ASSUME NEW t \in Targets, FailsToRead(t) \/ FailsToCreate(t) PROVE Unmade'
  BY <1>1, <1>5 DEF Unmade, FailsToRead, FailsToCreate, Ends, Typed
<1>6. ASSUME NEW t \in Targets, Creates(t) PROVE Unmade'
  BY <1>1, <1>6, TouchStep, Kinds DEF Unmade, Creates, Typed
<1>7. ASSUME NEW t \in Targets, Writes(t) \/ WritesShort(t) PROVE Unmade'
  <2>1. PICK h \in {"whole", "partial", "wrong"} : Touch(t, h)
    BY <1>1, <1>7 DEF Typed, Writes, WritesShort
  <2>2. disk'[t] # "absent" /\ \A s \in Targets : s # t => disk'[s] = disk[s]
    BY <1>1, <2>1, TouchStep, Kinds
  <2>3. /\ job' = [job EXCEPT ![t] = "none"] /\ late' = late \ {t}
        /\ \A s \in Targets : s # t => (s \in old' <=> s \in old)
    BY <1>7 DEF Writes, WritesShort, Ends
  <2>4. QED
    BY <1>1, <2>2, <2>3 DEF Unmade, Typed
<1>8. CASE MakeEnds
  BY <1>1, <1>8 DEF Unmade, MakeEnds
<1>9. CASE CopySeed \/ CopyFails
  <2>1. Copy \notin Targets
    BY <1>9, CopyIsSeed, Kinds
  <2>2. \A t \in Targets : disk'[t] = disk[t] /\ (t \in old' <=> t \in old)
    BY <1>1, <1>9, <2>1, Kinds DEF CopySeed, CopyFails, Typed
  <2>3. QED
    BY <1>1, <1>9, <2>2 DEF Unmade, CopySeed, CopyFails
<1>10. CASE Interrupt
  BY <1>1, <1>10, Kinds DEF Unmade, Interrupt, Typed
<1>11. CASE Clean
  BY <1>1, <1>11 DEF Unmade, Clean
<1>12. ASSUME NEW f \in Editable, Edit(f) PROVE Unmade'
  <2>1. \A t \in Targets : job[t] = "created" \/ disk[t] = "absent" => t \notin old'
    BY <1>1, <1>12, EditStep DEF Unmade
  <2>2. QED
    BY <1>1, <1>12, <2>1, EditStep DEF Unmade
<1>13. CASE UNCHANGED vars
  BY <1>1, <1>13 DEF Unmade, vars
<1>14. QED
  BY <1>2, <1>3, <1>4, <1>5, <1>6, <1>7, <1>8, <1>9, <1>10, <1>11, <1>12, <1>13 DEF Next

(* Writing a target makes what is made of it stale; nothing that is being  *)
(* made is made of it.                                                     *)
LEMMA TouchDated ==
  ASSUME Typed, Jobs, Unmade, Dated, NEW t \in Targets, NEW h, Touch(t, h),
         job[t] # "none", late' \subseteq late,
         \A s \in Targets : s # t => (s \in old' <=> s \in old),
         t \in old' => t \in Exes /\ t \in late
  PROVE  Dated'
<1>1. /\ t \notin stale' /\ \A s \in Targets : s # t => disk'[s] = disk[s]
      /\ \A s \in Targets : s # t =>
           (s \in stale' <=> s \in stale \/ (t \in Prereqs(s) /\ disk[s] # "absent"))
  BY TouchStep, Kinds
<1>2. \A s \in Targets : s # t /\ ~UpToDate(s) => ~UpToDate(s)'
  BY <1>1 DEF UpToDate
<1>3. ASSUME NEW s \in Objects PROVE s \notin late' /\ (s \in old' => s \in stale')
  <2>1. s \in Targets /\ s \notin Exes
    BY Kinds DEF Targets
  <2>2. s \notin late /\ (s \in old => s \in stale)
    BY DEF Dated
  <2>3. QED
    BY <1>1, <2>1, <2>2
<1>4. ASSUME NEW s \in Exes
      PROVE  /\ s \in old' => s \in stale' \/ \E o \in Parts(s[1]) : ~UpToDate(o)'
             /\ s \in late' => \E o \in Parts(s[1]) : ~UpToDate(o)'
  <2>1. /\ s \in Targets /\ \A o \in Parts(s[1]) : o \in Targets /\ o \in Prereqs(s) /\ o \notin Exes
        /\ Parts(s[1]) \subseteq Before(s)
    BY Kinds, PartsOfPrograms DEF Targets, Before
  <2>2. s \in late => t \notin Parts(s[1])
    BY <2>1 DEF Unmade, Jobs
  <2>3. s \in late => \E o \in Parts(s[1]) : ~UpToDate(o)'
    BY <1>2, <2>1, <2>2 DEF Dated
  <2>4. ASSUME s \in old, s # t
        PROVE  s \in stale' \/ \E o \in Parts(s[1]) : ~UpToDate(o)'
    <3>1. disk[s] # "absent"
      BY <2>1, <2>4 DEF Unmade
    <3>2. CASE t \in Parts(s[1])
      BY <1>1, <2>1, <2>4, <3>1, <3>2
    <3>3. CASE t \notin Parts(s[1])
      BY <1>1, <1>2, <2>1, <2>4, <3>3 DEF Dated
    <3>4. QED
      BY <3>2, <3>3
  <2>5. QED
    BY <2>1, <2>3, <2>4
<1>5. QED
  BY <1>3, <1>4 DEF Dated

(* An edit makes stale what it makes old: here the rules must list what is *)
(* included.                                                               *)
LEMMA DatedNext == ASSUME Orderly, IInv, [Next]_vars PROVE Dated'
<1>1. Typed /\ Jobs /\ Unmade /\ Dated
  BY DEF IInv
<1>2. \A t \in Exes : Parts(t[1]) \subseteq Objects
  BY PartsOfPrograms
<1>3. ASSUME NEW g \in {"all", "update-bootstrap"}, StartMake(g) PROVE Dated'
  BY <1>1, <1>3 DEF Dated, StartMake, UpToDate
<1>4. ASSUME NEW t \in Targets, Keep(t) \/ StartJob(t) PROVE Dated'
  BY <1>1, <1>4 DEF Dated, Keep, StartJob, UpToDate
<1>5. ASSUME NEW t \in Targets, Reads(t) PROVE Dated'
  <2>1. UNCHANGED <<disk, stale, old>> /\ late' = late \cup {s \in {t} : OldInput(s)}
    BY <1>5 DEF Reads
  <2>2. \A s \in Targets : UpToDate(s)' <=> UpToDate(s)
    BY <2>1 DEF UpToDate
  <2>3. OldInput(t) => t \in Exes /\ \E o \in Parts(t[1]) : ~UpToDate(o)
    BY <1>1, <1>2 DEF OldInput, Dated, UpToDate
  <2>4. \A s \in Objects : s \notin late'
    BY <1>1, <2>1, <2>3, Kinds DEF Dated
  <2>5. \A s \in Exes : s \in late' => \E o \in Parts(s[1]) : ~UpToDate(o)
    BY <1>1, <2>1, <2>3 DEF Dated
  <2>6. QED
    BY <1>1, <2>1, <2>4, <2>5 DEF Dated, UpToDate
<1>6. ASSUME NEW t \in Targets, FailsToRead(t) \/ FailsToCreate(t) PROVE Dated'
  BY <1>1, <1>6 DEF Dated, FailsToRead, FailsToCreate, Ends, UpToDate
<1>7. ASSUME NEW t \in Targets, Creates(t) PROVE Dated'
  BY <1>1, <1>7, TouchDated DEF Creates
<1>8. ASSUME NEW t \in Targets, Writes(t) PROVE Dated'
  <2>1. /\ Touch(t, loads[t]) /\ job[t] # "none" /\ late' \subseteq late
        /\ old' = (old \ {t}) \cup ({t} \cap late)
    BY <1>8 DEF Writes, Ends
  <2>2. t \in late => t \in Exes
    BY <1>1 DEF Dated, Targets
  <2>3. QED
    BY <1>1, <2>1, <2>2, TouchDated
<1>9. ASSUME NEW t \in Targets, WritesShort(t) PROVE Dated'
  <2>1. /\ Touch(t, "partial") /\ job[t] # "none" /\ late' \subseteq late
        /\ old' = old /\ t \notin old
    BY <1>1, <1>9 DEF WritesShort, Ends, Unmade
  <2>2. QED
    BY <1>1, <2>1, TouchDated
<1>10. CASE MakeEnds
  BY <1>1, <1>10 DEF Dated, MakeEnds, UpToDate
<1>11. CASE CopySeed \/ CopyFails
  <2>1. Copy \notin Targets
    BY <1>11, CopyIsSeed, Kinds
  <2>2. \A t \in Targets : disk'[t] = disk[t] /\ (t \in old' <=> t \in old)
    BY <1>1, <1>11, <2>1, Kinds DEF CopySeed, CopyFails, Typed
  <2>3. stale' = stale /\ late' = late
    BY <1>11 DEF CopySeed, CopyFails
  <2>4. \A t \in Targets : UpToDate(t)' <=> UpToDate(t)
    BY <2>2, <2>3 DEF UpToDate
  <2>5. Objects \subseteq Targets /\ Exes \subseteq Targets
    BY DEF Targets
  <2>6. QED
    BY <1>1, <1>2, <2>2, <2>3, <2>4, <2>5 DEF Dated
<1>12. CASE Interrupt
  <2>1. late' = {} /\ old' = old
    BY <1>12 DEF Interrupt
  <2>2. \A t \in Targets : job[t] = "created" => t \notin old /\ disk'[t] = "absent"
    BY <1>1, <1>12, Kinds DEF Interrupt, Unmade, Typed
  <2>3. \A t \in Targets : job[t] # "created" =>
          disk'[t] = disk[t] /\ (t \in stale' <=> t \in stale)
    BY <1>1, <1>12, Kinds DEF Interrupt, Typed
  <2>4. \A t \in Targets : ~UpToDate(t) => ~UpToDate(t)'
    BY <2>2, <2>3 DEF UpToDate
  <2>5. Objects \subseteq Targets /\ Exes \subseteq Targets
    BY DEF Targets
  <2>6. QED
    BY <1>1, <1>2, <2>1, <2>2, <2>3, <2>4, <2>5 DEF Dated
<1>13. CASE Clean
  <2>1. late' = late /\ late = {} /\ old' = old \ Targets
    BY <1>1, <1>13 DEF Clean, AtRest, Jobs, Unmade, Typed
  <2>2. QED
    BY <2>1 DEF Dated, Targets
<1>14. ASSUME NEW f \in Editable, Edit(f) PROVE Dated'
  <2>1. /\ UNCHANGED <<disk, late>> /\ stale' = stale \cup {t \in Dependents(f) : disk[t] # "absent"}
        /\ \A t \in Targets : t \in old' <=> t \in old \/ (disk[t] = "whole" /\ MadeOf(t, f))
    BY <1>1, <1>14, EditStep
  <2>2. \A o \in Objects : f \in Inputs(o[1]) => o \in Dependents(f)
    BY Kinds DEF Orderly, EveryInputListed, Dependents, Prereqs, Targets
  <2>3. \A o \in Objects : f \in Inputs(o[1]) => ~UpToDate(o)'
    BY <2>1, <2>2 DEF UpToDate
  <2>4. \A t \in Targets : ~UpToDate(t) => ~UpToDate(t)'
    BY <2>1 DEF UpToDate
  <2>5. ASSUME NEW o \in Objects PROVE o \notin late' /\ (o \in old' => o \in stale')
    BY <1>1, <2>1, <2>2 DEF Dated, MadeOf, Targets
  <2>6. ASSUME NEW t \in Exes
        PROVE  /\ t \in old' => t \in stale' \/ \E o \in Parts(t[1]) : ~UpToDate(o)'
               /\ t \in late' => \E o \in Parts(t[1]) : ~UpToDate(o)'
    <3>1. t \in Targets /\ t \notin Objects /\ Parts(t[1]) \subseteq Targets
      BY <1>2, Kinds DEF Targets
    <3>2. MadeOf(t, f) => \E o \in Parts(t[1]) : ~UpToDate(o)'
      BY <1>2, <2>3, <3>1 DEF MadeOf
    <3>3. QED
      BY <1>1, <2>1, <2>4, <3>1, <3>2 DEF Dated
  <2>7. QED
    BY <2>5, <2>6 DEF Dated
<1>15. CASE UNCHANGED vars
  BY <1>1, <1>15 DEF Dated, vars, UpToDate
<1>16. QED
  BY <1>3, <1>4, <1>5, <1>6, <1>7, <1>8, <1>9, <1>10, <1>11, <1>12, <1>13, <1>14, <1>15 DEF Next

(* The objects of a program that is being linked are done. *)
LEMMA PartsDone ==
  ASSUME Jobs, NEW t \in Exes, job[t] # "none"
  PROVE  phase = "making" /\ t \notin done /\ Parts(t[1]) \subseteq done
BY PartsOfPrograms DEF Jobs, Targets

(* Nothing wrong or partial comes from a make that began with whole files: *)
(* here failures must be reported.                                         *)
LEMMA WholeNext == ASSUME Orderly, IInv, [Next]_vars PROVE Whole'
<1>1. Typed /\ Jobs /\ Whole
  BY DEF IInv
<1>2. ASSUME NEW g \in {"all", "update-bootstrap"}, StartMake(g) PROVE Whole'
  BY <1>1, <1>2 DEF Whole, StartMake, AtRest, Jobs
<1>3. ASSUME NEW t \in Targets, Keep(t) PROVE Whole'
  BY <1>1, <1>3 DEF Whole, Keep, Considered, UpToDate, InMake
<1>4. ASSUME NEW t \in Targets, StartJob(t) PROVE Whole'
  BY <1>1, <1>4 DEF Whole, StartJob, Considered, InMake, Typed
<1>5. ASSUME NEW t \in Targets, Reads(t) PROVE Whole'
  <2>1. trusted => ~BadInput(t)
    BY <1>1, <1>5, PartsDone DEF Reads, BadInput, Whole, InMake
  <2>2. trusted => loads' = [loads EXCEPT ![t] = "whole"]
    BY <1>5, <2>1, WhatIsMade DEF Reads, Orderly
  <2>3. QED
    BY <1>1, <1>5, <2>2 DEF Whole, Reads, InMake, Typed
<1>6. ASSUME NEW t \in Targets, FailsToRead(t) \/ FailsToCreate(t) \/ WritesShort(t) PROVE Whole'
  <2>1. \E status : Ends(t, status) /\ Exited(status) # 0
    BY <1>6, Statuses DEF FailsToRead, FailsToCreate, WritesShort
  <2>2. /\ failing' /\ done' = done /\ job' = [job EXCEPT ![t] = "none"]
        /\ loads' = [loads EXCEPT ![t] = "whole"]
    BY <2>1 DEF Ends
  <2>3. UNCHANGED <<phase, trusted>> /\ job[t] # "none"
    BY <1>6 DEF FailsToRead, FailsToCreate, WritesShort
  <2>4. \A s \in Targets : s # t => disk'[s] = disk[s]
    <3>1. disk' = disk \/ Touch(t, "partial")
      BY <1>6 DEF FailsToRead, FailsToCreate, WritesShort
    <3>2. QED
      BY <1>1, <3>1, TouchStep, Kinds
  <2>5. t \notin done /\ done \subseteq Targets
    BY <1>1, <2>3 DEF Jobs, Typed
  <2>6. QED
    BY <1>1, <2>2, <2>3, <2>4, <2>5 DEF Whole, InMake, Typed
<1>7. ASSUME NEW t \in Targets, Creates(t) PROVE Whole'
  <2>1. /\ Touch(t, "partial") /\ job' = [job EXCEPT ![t] = "created"] /\ job[t] = "read"
        /\ UNCHANGED <<loads, phase, done, failing, trusted>>
    BY <1>7 DEF Creates
  <2>2. \A s \in Targets : s # t => disk'[s] = disk[s]
    BY <1>1, <2>1, TouchStep, Kinds
  <2>3. t \notin done /\ done \subseteq Targets
    BY <1>1, <2>1 DEF Jobs, Typed
  <2>4. QED
    BY <1>1, <2>1, <2>2, <2>3 DEF Whole, InMake, Typed
<1>8. ASSUME NEW t \in Targets, Writes(t) PROVE Whole'
  <2>1. /\ Touch(t, loads[t]) /\ job' = [job EXCEPT ![t] = "none"] /\ job[t] = "created"
        /\ loads' = [loads EXCEPT ![t] = "whole"] /\ done' = done \cup {t}
        /\ UNCHANGED <<phase, failing, trusted>>
    BY <1>8, Statuses DEF Writes, Ends
  <2>2. disk'[t] = loads[t] /\ \A s \in Targets : s # t => disk'[s] = disk[s]
    BY <1>1, <2>1, TouchStep, Kinds
  <2>3. t \notin done /\ done \subseteq Targets
    BY <1>1, <2>1 DEF Jobs, Typed
  <2>4. QED
    BY <1>1, <2>1, <2>2, <2>3 DEF Whole, InMake, Typed
<1>9. CASE MakeEnds
  BY <1>1, <1>9 DEF Whole, MakeEnds, InMake
<1>10. CASE CopySeed \/ CopyFails
  <2>1. Copy \notin Targets
    BY <1>10, CopyIsSeed, Kinds
  <2>2. \A t \in Targets : disk'[t] = disk[t]
    BY <1>1, <1>10, <2>1, Kinds DEF CopySeed, CopyFails, Typed
  <2>3. QED
    BY <1>1, <1>10, <2>2 DEF Whole, CopySeed, CopyFails, InMake, Typed
<1>11. CASE Interrupt
  BY <1>1, <1>11 DEF Whole, Interrupt, InMake
<1>12. CASE Clean
  BY <1>1, <1>12 DEF Whole, Clean, InMake, AtRest, Jobs
<1>13. ASSUME NEW f \in Editable, Edit(f) PROVE Whole'
  BY <1>1, <1>13 DEF Whole, Edit, InMake
<1>14. CASE UNCHANGED vars
  BY <1>1, <1>14 DEF Whole, vars, InMake
<1>15. QED
  BY <1>2, <1>3, <1>4, <1>5, <1>6, <1>7, <1>8, <1>9, <1>10, <1>11, <1>12, <1>13, <1>14 DEF Next

(* What is done is not made stale by what is still being made. *)
LEMMA TouchFresh ==
  ASSUME Typed, Jobs, Fresh, NEW t \in Targets, NEW h, Touch(t, h), job[t] # "none",
         InMake, ~edited, NEW s \in done
  PROVE  s # t /\ UpToDate(s)'
<1>1. s \in Targets /\ s # t /\ t \notin Before(s)
  BY DEF Typed, Jobs
<1>2. t \notin Prereqs(s)
  BY <1>1 DEF Before
<1>3. disk'[s] = disk[s] /\ (s \in stale' <=> s \in stale)
  BY <1>1, <1>2, TouchStep, Kinds
<1>4. QED
  BY <1>1, <1>3 DEF Fresh, UpToDate

(* What is done stays up to date: nothing it depends on is made again. *)
LEMMA FreshNext == ASSUME Orderly, IInv, [Next]_vars PROVE Fresh'
<1>1. Typed /\ Jobs /\ Dated /\ Fresh
  BY DEF IInv
<1>2. ASSUME NEW g \in {"all", "update-bootstrap"}, StartMake(g) PROVE Fresh'
  BY <1>1, <1>2 DEF Fresh, StartMake
<1>3. ASSUME NEW t \in Targets, Keep(t) PROVE Fresh'
  <2>1. /\ phase = "making" /\ Before(t) \subseteq done /\ UpToDate(t) /\ done' = done \cup {t}
        /\ UNCHANGED <<disk, stale, old, phase, edited>>
    BY <1>3 DEF Keep, Considered, Before
  <2>2. ~edited => t \notin old
    <3>1. CASE t \in Objects
      BY <1>1, <2>1, <3>1 DEF Dated, UpToDate
    <3>2. CASE t \in Exes
      <4>1. Parts(t[1]) \subseteq done
        BY <2>1, <3>2, PartsOfPrograms
      <4>2. QED
        BY <1>1, <2>1, <3>2, <4>1 DEF Dated, Fresh, InMake, UpToDate
    <3>3. QED
      BY <3>1, <3>2 DEF Targets
  <2>3. QED
    BY <1>1, <2>1, <2>2 DEF Fresh, InMake, UpToDate
<1>4. ASSUME NEW t \in Targets, StartJob(t) \/ Reads(t) PROVE Fresh'
  BY <1>1, <1>4 DEF Fresh, StartJob, Reads, InMake, UpToDate
<1>5. ASSUME NEW t \in Targets, FailsToRead(t) \/ FailsToCreate(t) PROVE Fresh'
  <2>1. \E status : Ends(t, status) /\ Exited(status) # 0
    BY <1>5, Statuses DEF FailsToRead, FailsToCreate
  <2>2. done' = done
    BY <2>1 DEF Ends
  <2>3. UNCHANGED <<disk, stale, old, phase, edited>>
    BY <1>5 DEF FailsToRead, FailsToCreate
  <2>4. QED
    BY <1>1, <2>2, <2>3 DEF Fresh, InMake, UpToDate
<1>6. ASSUME NEW t \in Targets, Creates(t) \/ WritesShort(t) PROVE Fresh'
  <2>1. Touch(t, "partial") /\ job[t] # "none" /\ old' \subseteq old /\ UNCHANGED <<phase, edited>>
    BY <1>6 DEF Creates, WritesShort
  <2>2. done' = done
    BY <1>6, Statuses DEF Creates, WritesShort, Ends
  <2>3. InMake' = InMake
    BY <2>1 DEF InMake
  <2>4. QED
    BY <1>1, <2>1, <2>2, <2>3, TouchFresh DEF Fresh
<1>7. ASSUME NEW t \in Targets, Writes(t) PROVE Fresh'
  <2>1. /\ Touch(t, loads[t]) /\ job[t] # "none" /\ done' = done \cup {t}
        /\ old' = (old \ {t}) \cup ({t} \cap late) /\ UNCHANGED <<phase, edited>>
    BY <1>7, Statuses DEF Writes, Ends
  <2>2. InMake /\ Before(t) \subseteq done
    BY <1>1, <2>1 DEF Jobs, InMake
  <2>3. ~edited => t \notin late
    <3>1. CASE t \in Objects
      BY <1>1, <3>1 DEF Dated
    <3>2. CASE t \in Exes
      <4>1. Parts(t[1]) \subseteq done
        BY <2>2, <3>2, PartsOfPrograms
      <4>2. QED
        BY <1>1, <2>2, <3>2, <4>1 DEF Dated, Fresh
    <3>3. QED
      BY <3>1, <3>2 DEF Targets
  <2>4. UpToDate(t)'
    <3>1. disk'[t] = loads[t] /\ t \notin stale' /\ loads[t] # "absent"
      BY <1>1, <2>1, TouchStep DEF Typed
    <3>2. QED
      BY <3>1 DEF UpToDate
  <2>5. ~edited => \A s \in done : UpToDate(s)' /\ s \notin old'
    BY <1>1, <2>1, <2>2, TouchFresh DEF Fresh
  <2>6. QED
    BY <2>1, <2>3, <2>4, <2>5 DEF Fresh
<1>8. CASE MakeEnds
  BY <1>1, <1>8 DEF Fresh, MakeEnds, InMake, UpToDate
<1>9. CASE CopySeed \/ CopyFails
  <2>1. Copy \notin Targets
    BY <1>9, CopyIsSeed, Kinds
  <2>2. \A t \in Targets : disk'[t] = disk[t] /\ (t \in old' <=> t \in old)
    BY <1>1, <1>9, <2>1, Kinds DEF CopySeed, CopyFails, Typed
  <2>3. InMake' => InMake
    BY <1>9 DEF CopySeed, CopyFails, InMake
  <2>4. QED
    BY <1>1, <1>9, <2>2, <2>3 DEF Fresh, CopySeed, CopyFails, UpToDate, Typed
<1>10. CASE Interrupt
  BY <1>10 DEF Fresh, Interrupt, InMake
<1>11. CASE Clean
  BY <1>11 DEF Fresh, Clean, InMake
<1>12. ASSUME NEW f \in Editable, Edit(f) PROVE Fresh'
  BY <1>12 DEF Fresh, Edit
<1>13. CASE UNCHANGED vars
  BY <1>1, <1>13 DEF Fresh, vars, InMake, UpToDate
<1>14. QED
  BY <1>2, <1>3, <1>4, <1>5, <1>6, <1>7, <1>8, <1>9, <1>10, <1>11, <1>12, <1>13 DEF Next

(* The end of a make, and the copies, are of what is done. *)
LEMMA EndedNext == ASSUME IInv, [Next]_vars PROVE Ended'
<1>1. Typed /\ Jobs /\ Ended
  BY DEF IInv
<1>2. Goals' = Goals \/ goal' # goal
  BY DEF Goals
<1>3. ASSUME NEW g \in {"all", "update-bootstrap"}, StartMake(g) PROVE Ended'
  BY <1>3 DEF Ended, StartMake
<1>4. ASSUME phase = "making", phase' = "making", copied' = copied PROVE Ended'
  BY <1>1, <1>4 DEF Ended
<1>5. ASSUME NEW t \in Targets, \/ Keep(t) \/ StartJob(t) \/ Reads(t) \/ FailsToRead(t)
                                \/ Creates(t) \/ FailsToCreate(t) \/ Writes(t) \/ WritesShort(t)
      PROVE Ended'
  <2>1. phase = "making"
    BY <1>1, <1>5 DEF Jobs, Keep, StartJob, Considered, Reads, FailsToRead, Creates,
                      FailsToCreate, Writes, WritesShort
  <2>2. UNCHANGED <<phase, copied>>
    BY <1>5 DEF Keep, StartJob, Reads, FailsToRead, Creates, FailsToCreate, Writes, WritesShort
  <2>3. QED
    BY <1>4, <2>1, <2>2
<1>6. CASE MakeEnds
  <2>1. /\ copied = 0 /\ UNCHANGED <<goal, copied, done>> /\ (failing \/ Goals \subseteq done)
        /\ phase' = IF failing THEN "failed" ELSE IF goal = "all" THEN "ok" ELSE "copying"
    BY <1>1, <1>6 DEF Ended, MakeEnds
  <2>2. goal # "all" => goal = "update-bootstrap"
    BY <1>1 DEF Typed
  <2>3. 0 < Len(Seeds)
    BY SeedsArePrograms
  <2>4. \A j \in 1 .. copied' : FALSE
    BY <2>1
  <2>5. QED
    BY <1>2, <2>1, <2>2, <2>3, <2>4 DEF Ended
<1>7. CASE CopySeed
  <2>1. /\ phase = "copying" /\ goal = "update-bootstrap" /\ copied \in Nat /\ copied < Len(Seeds)
        /\ Goals \subseteq done /\ Len(Seeds) \in Nat
        /\ UNCHANGED <<goal, done, trusted, edited>> /\ copied' = copied + 1
        /\ phase' = IF copied' = Len(Seeds) THEN "ok" ELSE phase
    BY <1>1, <1>7, SeedsArePrograms DEF Ended, CopySeed, Typed
  <2>2. ASSUME trusted, ~edited, NEW j \in 1 .. copied' PROVE Good(Seed(Seeds[j]))'
    <3>1. /\ Source \in done /\ Source \in Exes /\ Copy \in Copies
          /\ disk' = [disk EXCEPT ![Copy] = disk[Source]]
          /\ old' = IF Source \in old THEN old \cup {Copy} ELSE old \ {Copy}
      BY <1>7, <2>1, CopyIsSeed DEF CopySeed
    <3>2. disk[Source] = "whole" /\ Source \notin old
      BY <2>1, <2>2, <3>1 DEF IInv, Whole, Fresh, InMake
    <3>3. disk'[Copy] = "whole" /\ Copy \notin old'
      BY <1>1, <3>1, <3>2 DEF Typed, Files
    <3>4. CASE Seed(Seeds[j]) = Copy
      BY <3>3, <3>4 DEF Good
    <3>5. CASE Seed(Seeds[j]) # Copy
      <4>1. j \in 1 .. copied
        BY <2>1, <3>5 DEF Copy
      <4>2. Good(Seed(Seeds[j]))
        BY <1>1, <2>1, <2>2, <4>1 DEF Ended
      <4>3. Seed(Seeds[j]) \in Copies
        <5>1. j \in 1 .. Len(Seeds)
          BY <2>1, <4>1
        <5>2. QED
          BY <5>1, SeedsArePrograms
      <4>4. QED
        BY <1>1, <3>1, <3>2, <3>5, <4>2, <4>3 DEF Good, Typed, Files
    <3>6. QED
      BY <3>4, <3>5
  <2>3. copied' # Len(Seeds) => copied' < Len(Seeds)
    BY <2>1
  <2>4. Goals' = Goals
    BY <1>2, <2>1
  <2>5. QED
    BY <2>1, <2>2, <2>3, <2>4 DEF Ended
<1>8. CASE CopyFails \/ Interrupt \/ Clean
  BY <1>8 DEF Ended, CopyFails, Interrupt, Clean
<1>9. ASSUME NEW f \in Editable, Edit(f) PROVE Ended'
  BY <1>1, <1>2, <1>9 DEF Ended, Edit
<1>10. CASE UNCHANGED vars
  BY <1>1, <1>2, <1>10 DEF Ended, vars, Good
<1>11. QED
  BY <1>3, <1>5, <1>6, <1>7, <1>8, <1>9, <1>10 DEF Next

---------------------------------------------------------------------------
(* The invariant holds at first, *)
LEMMA InitInv == Init => IInv
<1> SUFFICES ASSUME Init PROVE IInv
  OBVIOUS
<1>1. Typed
  BY DEF Init, Typed, Files
<1>2. Jobs /\ Fresh
  BY DEF Init, Jobs, Fresh, InMake
<1>3. Unmade /\ Dated
  BY Kinds DEF Init, Unmade, Dated
<1>4. Whole
  BY Kinds DEF Init, Whole, InMake
<1>5. Ended
  BY DEF Init, Ended
<1>6. QED
  BY <1>1, <1>2, <1>3, <1>4, <1>5 DEF IInv

(* every step keeps it, *)
LEMMA NextInv == ASSUME Orderly, IInv, [Next]_vars PROVE IInv'
BY TypedNext, JobsNext, UnmadeNext, DatedNext, WholeNext, FreshNext, EndedNext DEF IInv

(* and it says what the property does. *)
LEMMA InvIsEnough == IInv => BuiltFromSources
<1> SUFFICES ASSUME IInv, phase = "ok", trusted, ~edited
             PROVE  /\ \A t \in Goals : Good(t)
                    /\ goal = "update-bootstrap" => \A s \in Copies : Good(s)
  BY DEF BuiltFromSources
<1>1. Goals \subseteq done /\ \A j \in 1 .. copied : Good(Seed(Seeds[j]))
  BY DEF IInv, Ended
<1>2. \A t \in Goals : Good(t)
  BY <1>1 DEF IInv, Whole, Fresh, InMake, Good
<1>3. ASSUME goal = "update-bootstrap", NEW s \in Copies PROVE Good(s)
  <2>1. copied = Len(Seeds)
    BY <1>3 DEF IInv, Ended
  <2>2. PICK j \in 1 .. Len(Seeds) : s = Seed(Seeds[j])
    BY SeedsArePrograms DEF Copies
  <2>3. QED
    BY <1>1, <2>1, <2>2
<1>4. QED
  BY <1>2, <1>3

(* make that began with no incomplete file about and says all is well has  *)
(* made every program, and update-bootstrap every seed, of the sources as  *)
(* they are: for any programs and headers, any number of jobs and of makes *)
(* before, any failure, interruption or edit between, if only the Makefile *)
(* lists what a unit includes, tools report what fails and no input is     *)
(* edited under a tool at work.                                            *)
THEOREM BuildIsCurrent == ASSUME Orderly PROVE Spec => []BuiltFromSources
<1>1. Init => IInv
  BY InitInv
<1>2. IInv /\ [Next]_vars => IInv'
  BY NextInv
<1>3. IInv => BuiltFromSources
  BY InvIsEnough
<1>4. QED
  BY <1>1, <1>2, <1>3, PTL DEF Spec
=============================================================================
