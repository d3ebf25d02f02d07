--------------------------- MODULE PluginsProofs ---------------------------
(***************************************************************************)
(* The plugin installer for every set of files, versions and user          *)
(* contents: types, and the user's content that no sequence of operations, *)
(* crashes and edits loses, and what is true of drifted files.             *)
(***************************************************************************)
EXTENDS Plugins, TLAPS

(* The phases of a cleanup, and those at a file                              *)
Cleaning == {"check", "restore", "unlink"}
AtFile == {"copy", "write"} \cup Cleaning

(* What the phase says about the operation under way                         *)
Running ==
  phase # "idle" =>
    /\ op \in Operation
    /\ phase \in AtFile => op.next \in 1..Len(Paths(op.version))
    /\ phase \in {"copy", "write"} => op.kind = "apply"
    /\ phase \in Cleaning => op.kind \in {"uninstall", "rollback"}
    /\ op.kind # "apply" => op.loaded # None

(* Hashes are recorded of the plugin's own configs only.                     *)
OwnHashes(h) == \A f \in File : h[f] \in Configs \cup {None}
HashesOfConfigs ==
  /\ inventory # None => OwnHashes(inventory.hashes)
  /\ phase # "idle" => OwnHashes(op.hashes) /\ (op.loaded # None => OwnHashes(op.loaded.hashes))

(* A content of the user in a file is the last one, if that is not deleted.  *)
Latest ==
  \A f \in File \ raced :
    target[f] \in UserContent /\ lastUser[f] \in UserContent => target[f] = lastUser[f]

(* Between the backup and the write the backup alone suffices.               *)
BackedUp ==
  phase = "write" =>
    (Current \notin raced /\ lastUser[Current] \in UserContent =>
       lastUser[Current] = backup[Current] \/ backup[Current] \in Configs \cup {Torn})

(* Between the hash check and the change the file holds nothing of the user, *)
(* unless the user has written it in the meantime.                           *)
Checked ==
  phase \in {"restore", "unlink"} /\ Current \notin raced => target[Current] \notin UserContent

ContentInv == Running /\ HashesOfConfigs /\ Latest /\ BackedUp /\ Checked /\ UserContentSurvives

(* Every version has a path, all of its paths are files, and the config it   *)
(* writes is neither the user's nor a mark.                                  *)
LEMMA VersionTyped ==
  ASSUME NEW v \in Version
  PROVE  /\ Len(Paths(v)) \in Nat /\ 1 \in 1..Len(Paths(v))
         /\ \A n \in 1..Len(Paths(v)) : Paths(v)[n] \in File
         /\ Config(v) \in Configs /\ Config(v) \in Content /\ Config(v) \notin UserContent
BY PluginAssumption DEF Paths, Configs, Content

(* The path that the operation is at                                         *)
LEMMA CurrentTyped ==
  ASSUME TypeOK, Running, phase \in AtFile
  PROVE  /\ op \in Operation /\ op.version \in Version /\ Current \in File
         /\ op.next \in 1..Len(Paths(op.version)) /\ Len(Paths(op.version)) \in Nat
         /\ target[Current] \in Content \cup {Absent} /\ backup[Current] \in Content \cup {Absent}
<1>1. op \in Operation /\ op.version \in Version /\ op.next \in 1..Len(Paths(op.version))
  BY DEF Running, Operation, AtFile, Cleaning
<1>2. Current \in File /\ Len(Paths(op.version)) \in Nat
  BY <1>1, VersionTyped DEF Current
<1> QED
  BY <1>1, <1>2 DEF TypeOK

(* Nothing is installed.                                                     *)
LEMMA InitContent == Init => TypeOK /\ ContentInv
<1> SUFFICES ASSUME Init PROVE TypeOK /\ ContentInv
  OBVIOUS
<1>1. 0 \in 0..MaxOps /\ 0 \in 0..MaxEdits
  BY PluginAssumption
<1>2. \A f \in File : lastUser[f] = IF target[f] = Absent THEN None ELSE target[f]
  BY DEF Init
<1>3. \A f \in File : target[f] \in UserContent \cup {Absent} /\ Absent \notin UserContent
  BY PluginAssumption DEF Init, Content
<1>4. TypeOK
  BY <1>1, <1>2, <1>3 DEF Init, TypeOK, Content
<1>5. Running /\ HashesOfConfigs /\ BackedUp /\ Checked
  BY DEF Init, Running, HashesOfConfigs, BackedUp, Checked, AtFile, Cleaning
<1>6. \A f \in File : lastUser[f] \in UserContent => target[f] = lastUser[f]
  BY <1>2, <1>3, PluginAssumption DEF Content
<1> QED
  BY <1>4, <1>5, <1>6 DEF ContentInv, Latest, UserContentSurvives

-----------------------------------------------------------------------------
(* One lemma per step *)

(* The operation that starts has copied and written nothing.                 *)
LEMMA BeginContent ==
  ASSUME TypeOK, ContentInv, NEW kind \in {"apply", "uninstall", "rollback"}, NEW v \in Version,
         NEW loaded \in Inventory \cup {None}, NEW approved,
         loaded \in {None, inventory}, kind # "apply" => loaded # None,
         Begin(kind, v, loaded, approved, IF kind = "apply" THEN "copy" ELSE "check")
  PROVE  TypeOK' /\ ContentInv'
<1> DEFINE first == IF kind = "apply" THEN "copy" ELSE "check"
           o == [kind |-> kind, version |-> v, next |-> 1, hashes |-> NoHashes,
                 loaded |-> loaded, touched |-> {}, found |-> target]
<1>1. /\ phase = "idle" /\ phase' = first /\ op' = o /\ ops' \in 0..MaxOps
      /\ UNCHANGED <<target, backup, inventory, edits, before, lastUser, raced, doubt>>
  BY PluginAssumption DEF Begin, TypeOK
<1>2. NoHashes \in Hashes /\ OwnHashes(NoHashes)
  BY DEF NoHashes, Hashes, OwnHashes
<1>3. o \in Operation
  BY <1>2 DEF Operation, TypeOK
<1>4. o.next = 1 /\ o.version = v /\ o.kind = kind /\ o.loaded = loaded /\ o.hashes = NoHashes
  OBVIOUS
<1> HIDE DEF o
<1>5. TypeOK'
  BY <1>1, <1>3 DEF TypeOK
<1>6. Running'
  BY <1>1, <1>3, <1>4, VersionTyped DEF Running, Paths, AtFile, Cleaning
<1>7. HashesOfConfigs'
  BY <1>1, <1>2, <1>4 DEF ContentInv, HashesOfConfigs, OwnHashes
<1>8. Latest' /\ BackedUp' /\ Checked' /\ UserContentSurvives'
  BY <1>1 DEF ContentInv, Latest, BackedUp, Checked, UserContentSurvives
<1> QED
  BY <1>5, <1>6, <1>7, <1>8 DEF ContentInv

(* A backup is taken of a file that has not been written.                    *)
LEMMA CopyContent == ASSUME TypeOK, ContentInv, Copy PROVE TypeOK' /\ ContentInv'
<1> DEFINE f == Current
<1>1. phase = "copy" /\ phase' = "write" /\ op' = op
      /\ UNCHANGED <<target, inventory, ops, edits, lastUser, raced, doubt>>
  BY DEF Copy
<1>2. f \in File /\ op \in Operation /\ op.next \in 1..Len(Paths(op.version)) /\ target[f] \in Content \cup {Absent}
  BY <1>1, CurrentTyped DEF ContentInv, AtFile
<1>3. /\ backup' \in [File -> Content \cup {Absent}] /\ before' \in [File -> Content \cup {Absent}]
      /\ backup'[f] = IF target[f] = Absent THEN backup[f] ELSE target[f]
      /\ \A g \in File \ {f} : backup'[g] = backup[g]
  BY <1>2 DEF Copy, TypeOK
<1>4. f' = f
  BY <1>1 DEF Current, Paths
<1> HIDE DEF f
<1>5. TypeOK' /\ Running' /\ HashesOfConfigs' /\ Latest' /\ Checked'
  BY <1>1, <1>3 DEF TypeOK, ContentInv, Running, HashesOfConfigs, OwnHashes, Latest, Checked, Paths,
                    AtFile, Cleaning
<1>6. f \notin raced /\ lastUser[f] \in UserContent =>
        lastUser[f] = backup'[f] \/ backup'[f] \in Configs \cup {Torn}
  <2>1. CASE target[f] = Absent
    BY <1>2, <1>3, <2>1, PluginAssumption DEF ContentInv, UserContentSurvives, Content
  <2>2. CASE target[f] # Absent
    <3>1. target[f] \in UserContent \cup Configs \cup {Torn} /\ backup'[f] = target[f]
      BY <1>2, <1>3, <2>2 DEF Content
    <3> QED
      BY <1>2, <3>1 DEF ContentInv, Latest
  <2> QED
    BY <2>1, <2>2
<1>7. BackedUp'
  BY <1>1, <1>4, <1>6 DEF BackedUp, f
<1>8. UserContentSurvives'
  <2> SUFFICES ASSUME NEW g \in File \ raced, lastUser[g] \in UserContent
               PROVE  \/ lastUser[g] \in {target[g], backup'[g]}
                      \/ backup'[g] \in Configs \cup {Torn}
    BY <1>1 DEF UserContentSurvives
  <2> QED
    BY <1>3, <1>6 DEF ContentInv, UserContentSurvives
<1> QED
  BY <1>5, <1>7, <1>8 DEF ContentInv

(* A file is written after its backup.                                       *)
LEMMA WriteContent == ASSUME TypeOK, ContentInv, Write PROVE TypeOK' /\ ContentInv'
<1> DEFINE f == Current
           c == Config(op.version)
           o == [op EXCEPT !.hashes[f] = c, !.next = @ + 1, !.touched = @ \cup {f}]
<1>1. phase = "write" /\ phase' = (IF Last THEN "save" ELSE "copy") /\ op' = o
      /\ target' = [target EXCEPT ![f] = c]
      /\ UNCHANGED <<backup, inventory, ops, edits, before, lastUser, raced, doubt>>
  BY DEF Write
<1>2. /\ f \in File /\ op \in Operation /\ op.version \in Version
      /\ op.next \in 1..Len(Paths(op.version)) /\ Len(Paths(op.version)) \in Nat
      /\ op.kind = "apply"
  BY <1>1, CurrentTyped DEF ContentInv, Running, AtFile
<1>3. c \in Configs /\ c \in Content /\ c \notin UserContent
  BY <1>2, VersionTyped
<1> HIDE DEF c, f
<1> DEFINE h == [op.hashes EXCEPT ![f] = c]
           n == op.next + 1
           t == op.touched \cup {f}
<1>h. h \in Hashes /\ n \in Nat /\ t \in SUBSET File
  BY <1>2, <1>3 DEF Operation, Hashes
<1>o. o = [op EXCEPT !.hashes = h, !.next = n, !.touched = t]
  BY <1>2 DEF Operation
<1> HIDE DEF h, n, t, o
<1>4. /\ o \in Operation /\ o.version = op.version /\ o.next = op.next + 1 /\ o.kind = op.kind
      /\ o.loaded = op.loaded /\ o.hashes = [op.hashes EXCEPT ![f] = c]
  <2>1. /\ o \in Operation /\ o.version = op.version /\ o.next = n /\ o.kind = op.kind
        /\ o.loaded = op.loaded /\ o.hashes = h
    BY <1>2, <1>h, <1>o DEF Operation
  <2> QED
    BY <2>1 DEF h, n
<1>5. /\ target' \in [File -> Content \cup {Absent}] /\ target'[f] = c
      /\ \A g \in File \ {f} : target'[g] = target[g]
  BY <1>1, <1>2, <1>3 DEF TypeOK
<1> HIDE DEF o
<1>6. TypeOK'
  BY <1>1, <1>4, <1>5 DEF TypeOK
<1>7. Running'
  <2>1. ~Last => op.next + 1 \in 1..Len(Paths(op.version))
    BY <1>2 DEF Last
  <2> QED
    BY <1>1, <1>2, <1>4, <2>1 DEF Running, Paths, AtFile, Cleaning
<1>8. HashesOfConfigs'
  <2>1. OwnHashes(op.hashes) /\ (op.loaded # None => OwnHashes(op.loaded.hashes)) /\ op.hashes \in Hashes
    BY <1>1, <1>2 DEF ContentInv, HashesOfConfigs, Operation
  <2>2. OwnHashes(o.hashes)
    BY <1>2, <1>3, <1>4, <2>1 DEF OwnHashes, Hashes
  <2> QED
    BY <1>1, <1>4, <2>1, <2>2 DEF ContentInv, HashesOfConfigs, OwnHashes
<1>9. Latest'
  BY <1>1, <1>3, <1>5 DEF ContentInv, Latest
<1>10. UserContentSurvives'
  <2> SUFFICES ASSUME NEW g \in File \ raced, lastUser[g] \in UserContent
               PROVE  \/ lastUser[g] \in {target'[g], backup[g]}
                      \/ backup[g] \in Configs \cup {Torn}
    BY <1>1 DEF UserContentSurvives
  <2>1. CASE g = f
    BY <1>1, <2>1 DEF ContentInv, BackedUp, f
  <2>2. CASE g # f
    BY <1>5, <2>2 DEF ContentInv, UserContentSurvives
  <2> QED
    BY <2>1, <2>2
<1>11. BackedUp' /\ Checked'
  BY <1>1 DEF BackedUp, Checked
<1> QED
  BY <1>6, <1>7, <1>8, <1>9, <1>10, <1>11 DEF ContentInv

(* A cleanup that is done with a file goes on to the next or ends.           *)
LEMMA FileDoneTyped ==
  ASSUME TypeOK, ContentInv, phase \in Cleaning,
         NEW changed \in SUBSET File, FileDone(changed), inventory' = inventory
  PROVE  /\ op' \in Operation /\ phase' \in {"save", "check"}
         /\ op'.version = op.version /\ op'.next = op.next + 1 /\ op'.kind = op.kind
         /\ op'.loaded = op.loaded
         /\ Running' /\ HashesOfConfigs'
<1> DEFINE n == op.next + 1
           t == op.touched \cup changed
<1>1. /\ op \in Operation /\ op.version \in Version
      /\ op.next \in 1..Len(Paths(op.version)) /\ Len(Paths(op.version)) \in Nat
      /\ op.kind \in {"uninstall", "rollback"} /\ op.loaded # None
  BY CurrentTyped DEF ContentInv, Running, AtFile, Cleaning
<1>2. n \in Nat /\ t \in SUBSET File
  BY <1>1 DEF Operation
<1>3. op' = [op EXCEPT !.next = n, !.touched = t]
  BY DEF FileDone
<1> HIDE DEF n, t
<1>4. /\ op' \in Operation /\ op'.version = op.version /\ op'.next = n /\ op'.kind = op.kind
      /\ op'.loaded = op.loaded /\ op'.hashes = op.hashes
  BY <1>1, <1>2, <1>3 DEF Operation
<1>5. ~Last => n \in 1..Len(Paths(op.version))
  BY <1>1 DEF Last, n
<1>6. phase' = IF Last THEN "save" ELSE "check"
  BY DEF FileDone
<1>7. Running'
  BY <1>1, <1>4, <1>5, <1>6 DEF Running, Paths, AtFile, Cleaning
<1>8. HashesOfConfigs'
  BY <1>1, <1>4, <1>6 DEF ContentInv, HashesOfConfigs, OwnHashes, Cleaning
<1> QED
  BY <1>4, <1>6, <1>7, <1>8 DEF n

(* A file whose hash is the recorded one holds nothing of the user.          *)
LEMMA UnblockedNotUsers ==
  ASSUME TypeOK, ContentInv, phase = "check", ~Blocked
  PROVE  op.loaded.hashes[Current] \in Configs /\ target[Current] \notin UserContent
<1>1. Current \in File /\ op.kind # "apply" /\ op.loaded # None
  BY CurrentTyped DEF ContentInv, Running, AtFile, Cleaning
<1>2. op.loaded.hashes[Current] \in Configs
  BY <1>1 DEF ContentInv, HashesOfConfigs, OwnHashes, Blocked, MissingHash, Expected
<1>3. target[Current] = Absent \/ target[Current] = op.loaded.hashes[Current]
  BY DEF Blocked, Drifted, Expected
<1> QED
  BY <1>2, <1>3, PluginAssumption DEF Content

(* A file that passes the check is not changed yet.                          *)
LEMMA CheckContent == ASSUME TypeOK, ContentInv, Check PROVE TypeOK' /\ ContentInv'
<1>1. /\ phase = "check" /\ ~Blocked
      /\ UNCHANGED <<target, backup, inventory, ops, edits, before, lastUser, raced, doubt>>
  BY DEF Check
<1>2. target[Current] \notin UserContent
  BY <1>1, UnblockedNotUsers
<1>3. Latest' /\ UserContentSurvives'
  BY <1>1 DEF ContentInv, Latest, UserContentSurvives
<1>4. CASE FileDone({})
  <2>1. op' \in Operation /\ phase' \in {"save", "check"} /\ Running' /\ HashesOfConfigs'
    BY <1>1, <1>4, FileDoneTyped DEF Cleaning
  <2> QED
    BY <1>1, <1>3, <2>1 DEF TypeOK, ContentInv, BackedUp, Checked
<1>5. CASE phase' \in {"restore", "unlink"} /\ UNCHANGED op
  <2>1. TypeOK' /\ Running' /\ HashesOfConfigs' /\ BackedUp'
    BY <1>1, <1>5 DEF TypeOK, ContentInv, Running, HashesOfConfigs, OwnHashes, BackedUp, Paths,
                      AtFile, Cleaning
  <2>2. Checked'
    BY <1>1, <1>2, <1>5 DEF Checked, Current, Paths
  <2> QED
    BY <1>3, <2>1, <2>2 DEF ContentInv
<1> QED
  BY <1>4, <1>5 DEF Check

(* What a step that restores or removes a file does to it                    *)
LEMMA ChangeEffect ==
  ASSUME TypeOK, ContentInv, Restore \/ Unlink
  PROVE  /\ phase \in {"restore", "unlink"} /\ Current \in File
         /\ target' \in [File -> Content \cup {Absent}]
         /\ target'[Current] \in {Absent, backup[Current], target[Current]}
         /\ \A g \in File \ {Current} : target'[g] = target[g]
         /\ UNCHANGED <<backup, inventory, ops, edits, before, lastUser, raced, doubt>>
         /\ \/ phase' = "unlink" /\ UNCHANGED <<op, target>>
            \/ FileDone({}) \/ FileDone({Current})
<1>1. /\ phase \in {"restore", "unlink"}
      /\ UNCHANGED <<backup, inventory, ops, edits, before, lastUser, raced, doubt>>
      /\ \/ target' = [target EXCEPT ![Current] = backup[Current]]
         \/ target' = [target EXCEPT ![Current] = Absent]
         \/ target' = target
      /\ \/ phase' = "unlink" /\ UNCHANGED <<op, target>>
         \/ FileDone({}) \/ FileDone({Current})
  BY DEF Restore, Unlink
<1>2. Current \in File /\ backup[Current] \in Content \cup {Absent}
  BY <1>1, CurrentTyped DEF ContentInv, AtFile, Cleaning
<1> QED
  BY <1>1, <1>2 DEF TypeOK

(* A file that a cleanup changes holds a config of the plugin, or nothing,   *)
(* or is one that the user has written since the check.                      *)
LEMMA ChangeContent ==
  ASSUME TypeOK, ContentInv, Restore \/ Unlink PROVE TypeOK' /\ ContentInv'
<1> DEFINE f == Current
<1>1. /\ phase \in {"restore", "unlink"} /\ f \in File
      /\ target' \in [File -> Content \cup {Absent}]
      /\ target'[f] \in {Absent, backup[f], target[f]}
      /\ \A g \in File \ {f} : target'[g] = target[g]
      /\ UNCHANGED <<backup, inventory, ops, edits, before, lastUser, raced, doubt>>
  BY ChangeEffect
<1>2. op' \in Operation /\ phase' \in {"save", "check", "unlink"} /\ Running' /\ HashesOfConfigs'
  <2>1. CASE phase' = "unlink" /\ UNCHANGED <<op, target>>
    BY <1>1, <2>1 DEF ContentInv, Running, HashesOfConfigs, OwnHashes, Paths, AtFile, Cleaning
  <2>2. CASE FileDone({}) \/ FileDone({f})
    <3>1. phase \in Cleaning /\ {} \in SUBSET File /\ {f} \in SUBSET File
      BY <1>1 DEF Cleaning
    <3> QED
      BY <1>1, <2>2, <3>1, FileDoneTyped
  <2> QED
    BY <2>1, <2>2, ChangeEffect
<1>3. Checked'
  <2>1. CASE phase' = "unlink" /\ UNCHANGED <<op, target>>
    BY <1>1, <2>1 DEF ContentInv, Checked, Current, Paths
  <2>2. CASE FileDone({}) \/ FileDone({f})
    BY <2>2 DEF FileDone, Checked
  <2> QED
    BY <2>1, <2>2, ChangeEffect
<1>4. f \notin raced /\ lastUser[f] \in UserContent =>
        lastUser[f] = backup[f] \/ backup[f] \in Configs \cup {Torn}
  BY <1>1 DEF ContentInv, Checked, UserContentSurvives
<1>5. f \notin raced => target[f] \notin UserContent
  BY <1>1 DEF ContentInv, Checked
<1> HIDE DEF f
<1>6. TypeOK'
  BY <1>1, <1>2 DEF TypeOK
<1>7. Latest'
  <2> SUFFICES ASSUME NEW g \in File \ raced, target'[g] \in UserContent, lastUser[g] \in UserContent
               PROVE  target'[g] = lastUser[g]
    BY <1>1 DEF Latest
  <2>1. CASE g = f
    BY <1>1, <1>4, <1>5, <2>1, PluginAssumption DEF Content
  <2>2. CASE g # f
    BY <1>1, <2>2 DEF ContentInv, Latest
  <2> QED
    BY <2>1, <2>2
<1>8. UserContentSurvives'
  <2> SUFFICES ASSUME NEW g \in File \ raced, lastUser[g] \in UserContent
               PROVE  \/ lastUser[g] \in {target'[g], backup[g]}
                      \/ backup[g] \in Configs \cup {Torn}
    BY <1>1 DEF UserContentSurvives
  <2> QED
    BY <1>1, <1>4 DEF ContentInv, UserContentSurvives
<1>9. BackedUp'
  BY <1>2 DEF BackedUp
<1> QED
  BY <1>2, <1>3, <1>6, <1>7, <1>8, <1>9 DEF ContentInv

(* An operation that ends, with its inventory or without                     *)
LEMMA EndContent == ASSUME TypeOK, ContentInv, Save \/ CleanFails PROVE TypeOK' /\ ContentInv'
<1>1. /\ phase # "idle" /\ phase' = "idle" /\ op' = None /\ doubt' \in BOOLEAN
      /\ UNCHANGED <<target, backup, ops, edits, before, lastUser, raced>>
  BY DEF Save, CleanFails, TypeOK
<1>2. op \in Operation /\ (op.kind # "apply" => op.loaded # None)
  BY <1>1 DEF ContentInv, Running
<1>3. inventory' \in {inventory, Returned}
  BY DEF Save, CleanFails
<1>4. Returned \in Inventory /\ OwnHashes(Returned.hashes)
  <2>1. NoHashes \in Hashes /\ OwnHashes(NoHashes)
    BY DEF NoHashes, Hashes, OwnHashes
  <2>2. OwnHashes(op.hashes)
    BY <1>1 DEF ContentInv, HashesOfConfigs
  <2>3. op.kind \in {"apply", "uninstall", "rollback"} /\ op.version \in Version /\ op.hashes \in Hashes
        /\ (op.kind # "apply" => op.loaded \in Inventory)
    BY <1>2 DEF Operation
  <2>4. CASE op.kind = "apply"
    BY <2>2, <2>3, <2>4 DEF Returned, Inventory
  <2>5. CASE op.kind = "uninstall"
    BY <2>1, <2>3, <2>5 DEF Returned, Inventory
  <2>6. CASE op.kind = "rollback"
    BY <2>1, <2>3, <2>6 DEF Returned, Inventory
  <2> QED
    BY <2>3, <2>4, <2>5, <2>6
<1>5. TypeOK'
  BY <1>1, <1>3, <1>4 DEF TypeOK
<1>6. HashesOfConfigs'
  BY <1>1, <1>3, <1>4 DEF ContentInv, HashesOfConfigs, OwnHashes
<1>7. Running' /\ Latest' /\ BackedUp' /\ Checked' /\ UserContentSurvives'
  BY <1>1 DEF ContentInv, Running, Latest, BackedUp, Checked, UserContentSurvives, AtFile, Cleaning
<1> QED
  BY <1>5, <1>6, <1>7 DEF ContentInv

(* A crash tears at most the file that is written.                           *)
LEMMA CrashContent == ASSUME TypeOK, ContentInv, Crash PROVE TypeOK' /\ ContentInv'
<1> DEFINE f == Current
<1>1. /\ phase # "idle" /\ phase' = "idle" /\ op' = None /\ doubt' = TRUE
      /\ UNCHANGED <<inventory, ops, edits, before, lastUser, raced>>
  BY DEF Crash
<1>2. Torn \in Content /\ Torn \notin UserContent
  BY PluginAssumption DEF Content
<1>3. Running' /\ HashesOfConfigs' /\ BackedUp' /\ Checked'
  BY <1>1 DEF ContentInv, Running, HashesOfConfigs, OwnHashes, BackedUp, Checked, AtFile, Cleaning
<1>4. CASE UNCHANGED <<target, backup>>
  BY <1>1, <1>3, <1>4 DEF TypeOK, ContentInv, Latest, UserContentSurvives
<1>5. CASE phase = "copy" /\ backup' = [backup EXCEPT ![f] = Torn] /\ UNCHANGED target
  <2>1. f \in File
    BY <1>5, CurrentTyped DEF ContentInv, AtFile
  <2> HIDE DEF f
  <2>2. /\ backup' \in [File -> Content \cup {Absent}] /\ backup'[f] = Torn
        /\ \A g \in File \ {f} : backup'[g] = backup[g]
    BY <1>2, <1>5, <2>1 DEF TypeOK
  <2>3. TypeOK' /\ Latest'
    BY <1>1, <1>5, <2>2 DEF TypeOK, ContentInv, Latest
  <2>4. UserContentSurvives'
    BY <1>1, <1>5, <2>1, <2>2 DEF ContentInv, UserContentSurvives
  <2> QED
    BY <1>3, <2>3, <2>4 DEF ContentInv
<1>6. CASE /\ phase \in {"write", "restore"}
           /\ target' = [target EXCEPT ![f] = Torn] /\ UNCHANGED backup
  <2>1. f \in File /\ op \in Operation
    BY <1>6, CurrentTyped DEF ContentInv, AtFile, Cleaning
  <2>2. f \notin raced /\ lastUser[f] \in UserContent =>
          lastUser[f] = backup[f] \/ backup[f] \in Configs \cup {Torn}
    <3>1. CASE phase = "write"
      BY <3>1 DEF ContentInv, BackedUp
    <3>2. CASE phase = "restore"
      BY <2>1, <3>2 DEF ContentInv, Checked, UserContentSurvives
    <3> QED
      BY <1>6, <3>1, <3>2
  <2> HIDE DEF f
  <2>3. /\ target' \in [File -> Content \cup {Absent}] /\ target'[f] = Torn
        /\ \A g \in File \ {f} : target'[g] = target[g]
    BY <1>2, <1>6, <2>1 DEF TypeOK
  <2>4. TypeOK' /\ Latest'
    BY <1>1, <1>2, <1>6, <2>3 DEF TypeOK, ContentInv, Latest
  <2>5. UserContentSurvives'
    <3> SUFFICES ASSUME NEW g \in File \ raced, lastUser[g] \in UserContent
                 PROVE  \/ lastUser[g] \in {target'[g], backup[g]}
                        \/ backup[g] \in Configs \cup {Torn}
      BY <1>1, <1>6 DEF UserContentSurvives
    <3> QED
      BY <2>2, <2>3 DEF ContentInv, UserContentSurvives
  <2> QED
    BY <1>3, <2>4, <2>5 DEF ContentInv
<1> QED
  BY <1>4, <1>5, <1>6 DEF Crash

(* The user edits a file.                                                    *)
LEMMA EditContent ==
  ASSUME TypeOK, ContentInv, NEW f \in File, NEW c \in UserContent \cup {Absent}, UserEdit(f, c)
  PROVE  TypeOK' /\ ContentInv'
<1>1. /\ UNCHANGED <<backup, inventory, phase, op, ops, before, doubt>> /\ edits' \in 0..MaxEdits
  BY PluginAssumption DEF UserEdit, TypeOK
<1>2. /\ target' \in [File -> Content \cup {Absent}] /\ target'[f] = c
      /\ \A g \in File \ {f} : target'[g] = target[g]
  BY DEF UserEdit, TypeOK, Content
<1>3. /\ lastUser' \in [File -> UserContent \cup {None}]
      /\ lastUser'[f] = IF c = Absent THEN None ELSE c
      /\ \A g \in File \ {f} : lastUser'[g] = lastUser[g]
  BY DEF UserEdit, TypeOK
<1>4. raced' = IF phase \in {"write", "restore", "unlink"} /\ f = Current
                THEN raced \cup {f} ELSE raced \ {f}
  BY DEF UserEdit, Looked
<1>5. None \notin UserContent
  BY PluginAssumption DEF Content
<1>6. TypeOK' /\ Running' /\ HashesOfConfigs'
  BY <1>1, <1>2, <1>3, <1>4 DEF TypeOK, ContentInv, Running, HashesOfConfigs, OwnHashes, Paths,
                                 AtFile, Cleaning
<1>7. \A g \in File \ raced' : g # f => g \in File \ raced
  BY <1>4
<1>8. lastUser'[f] \in UserContent => lastUser'[f] = target'[f]
  BY <1>2, <1>3, <1>5
<1>9. Latest'
  <2> SUFFICES ASSUME NEW g \in File \ raced', target'[g] \in UserContent, lastUser'[g] \in UserContent
               PROVE  target'[g] = lastUser'[g]
    BY DEF Latest
  <2> QED
    BY <1>2, <1>3, <1>7, <1>8 DEF ContentInv, Latest
<1>10. UserContentSurvives'
  <2> SUFFICES ASSUME NEW g \in File \ raced', lastUser'[g] \in UserContent
               PROVE  \/ lastUser'[g] \in {target'[g], backup[g]}
                      \/ backup[g] \in Configs \cup {Torn}
    BY <1>1 DEF UserContentSurvives
  <2> QED
    BY <1>2, <1>3, <1>7, <1>8 DEF ContentInv, UserContentSurvives
<1>11. BackedUp'
  <2> SUFFICES ASSUME phase = "write", Current \notin raced', lastUser'[Current] \in UserContent
               PROVE  lastUser'[Current] = backup[Current] \/ backup[Current] \in Configs \cup {Torn}
    BY <1>1 DEF BackedUp, Current, Paths
  <2>1. Current \in File /\ Current # f /\ Current \notin raced
    BY <1>4, <1>7, CurrentTyped DEF ContentInv, AtFile
  <2> QED
    BY <1>3, <2>1 DEF ContentInv, BackedUp
<1>12. Checked'
  <2> SUFFICES ASSUME phase \in {"restore", "unlink"}, Current \notin raced'
               PROVE  target'[Current] \notin UserContent
    BY <1>1 DEF Checked, Current, Paths
  <2>1. Current \in File /\ Current # f /\ Current \notin raced
    BY <1>4, <1>7, CurrentTyped DEF ContentInv, AtFile, Cleaning
  <2> QED
    BY <1>2, <2>1 DEF ContentInv, Checked
<1> QED
  BY <1>6, <1>9, <1>10, <1>11, <1>12 DEF ContentInv

(* Every step keeps what the user wrote in place or in the backup.           *)
LEMMA StepContent == TypeOK /\ ContentInv /\ [Next]_vars => TypeOK' /\ ContentInv'
<1> SUFFICES ASSUME TypeOK, ContentInv, [Next]_vars PROVE TypeOK' /\ ContentInv'
  OBVIOUS
<1>1. ASSUME NEW v \in Version, NEW approved \in BOOLEAN,
             BeginApply(v, approved) \/ BeginUninstall(v, approved) \/ BeginRollback(v, approved)
      PROVE  TypeOK' /\ ContentInv'
  <2>1. inventory \in Inventory \cup {None}
    BY DEF TypeOK
  <2>2. CASE BeginApply(v, approved)
    BY <2>2, BeginContent DEF BeginApply
  <2>3. CASE BeginUninstall(v, approved)
    BY <2>1, <2>3, BeginContent DEF BeginUninstall, InventoryMatchesPlan
  <2>4. CASE BeginRollback(v, approved)
    BY <2>1, <2>4, BeginContent DEF BeginRollback, InventoryMatchesPlan
  <2> QED
    BY <1>1, <2>2, <2>3, <2>4
<1>2. CASE UNCHANGED vars
  BY <1>2 DEF vars, TypeOK, ContentInv, Running, HashesOfConfigs, OwnHashes, Latest, BackedUp,
              Checked, Current, Paths, UserContentSurvives
<1> QED
  BY <1>1, <1>2, CopyContent, WriteContent, CheckContent, ChangeContent, EndContent, CrashContent, EditContent DEF Next

-----------------------------------------------------------------------------
(* The inductive invariant on files and backups                              *)
LEMMA ContentHolds == Spec => [](TypeOK /\ ContentInv)
BY InitContent, StepContent, PTL DEF Spec

(* Every reachable state of the installer is typed.                          *)
THEOREM PluginsTypeCorrect == Spec => []TypeOK
BY ContentHolds, PTL

(* No sequence of installs, cleanups, retries and crashes loses the content  *)
(* the user last wrote, but through the ways the property names.            *)
THEOREM PluginsKeepUserContent == Spec => []UserContentSurvives
<1>1. ContentInv => UserContentSurvives
  BY DEF ContentInv
<1> QED
  BY <1>1, ContentHolds, PTL

-----------------------------------------------------------------------------
(* What a rollback finds and what a cleanup leaves *)

(* The backup of a file is what the last apply found there, if anything.     *)
Kept(f) == before[f] = Absent \/ backup[f] = before[f]
RestorableInv ==
  /\ ~doubt /\ inventory # None => \A f \in File : inventory.hashes[f] # None => Kept(f)
  /\ phase # "idle" /\ op.kind = "apply" => \A f \in File : op.hashes[f] # None => Kept(f)
  /\ phase = "write" => Kept(Current)
  /\ phase # "idle" /\ op.kind # "apply" => op.loaded = inventory /\ op.version = inventory.version
  /\ phase \in {"restore", "unlink"} => op.loaded.hashes[Current] # None
  /\ phase = "unlink" /\ op.kind = "rollback" => backup[Current] = Absent

(* A file with no config of the plugin, or with one from its backup          *)
Gone(f) == target[f] \in Configs => backup[f] \in Configs
CleanedInv ==
  /\ phase \in Cleaning => \A n \in 1..op.next - 1 : Gone(Paths(op.version)[n])
  /\ phase = "save" /\ op.kind # "apply" => \A n \in 1..Len(Paths(op.version)) : Gone(Paths(op.version)[n])
  /\ inventory # None /\ inventory.dashboard = "available" /\ ~doubt
       /\ (phase = "idle" \/ (phase \in Cleaning /\ op.next = 1)) =>
     \A n \in 1..Len(Paths(inventory.version)) : Gone(Paths(inventory.version)[n])

HistoryInv == RestorableInv /\ CleanedInv

(* No operation has ended.                                                   *)
LEMMA InitHistory == Init => HistoryInv
BY DEF Init, HistoryInv, RestorableInv, CleanedInv, Cleaning

(* The operation that starts has yet to write.                               *)
LEMMA StartHistory ==
  ASSUME TypeOK, ContentInv, HistoryInv, NEW v \in Version, NEW approved \in BOOLEAN,
         BeginApply(v, approved) \/ BeginUninstall(v, approved) \/ BeginRollback(v, approved)
  PROVE  HistoryInv'
<1>1. /\ phase = "idle" /\ phase' \in {"copy", "check"}
      /\ op'.version = v /\ op'.next = 1 /\ op'.hashes = NoHashes
      /\ phase' = "copy" => op'.kind = "apply"
      /\ phase' = "check" => op'.kind # "apply" /\ op'.loaded = inventory /\ v = inventory.version
      /\ UNCHANGED <<target, backup, inventory, before, doubt>>
  BY DEF BeginApply, BeginUninstall, BeginRollback, Begin, InventoryMatchesPlan
<1>2. RestorableInv'
  BY <1>1 DEF HistoryInv, RestorableInv, Kept, NoHashes
<1>3. CleanedInv'
  BY <1>1 DEF HistoryInv, CleanedInv, Gone, Paths, Cleaning
<1> QED
  BY <1>2, <1>3 DEF HistoryInv

(* A backup that is taken while the paths are as the user left them          *)
LEMMA CopyHistory == ASSUME TypeOK, ContentInv, HistoryInv, Copy PROVE HistoryInv'
<1> DEFINE f == Current
<1>1. phase = "copy" /\ phase' = "write" /\ op' = op /\ op.kind = "apply" /\ f \in File
      /\ UNCHANGED <<target, inventory, doubt>>
  BY CurrentTyped DEF Copy, ContentInv, Running, AtFile
<1>2. f' = f
  BY <1>1 DEF Current, Paths
<1>3. /\ before'[f] = target[f] /\ (target[f] # Absent => backup'[f] = target[f])
      /\ \A g \in File \ {f} : backup'[g] = backup[g] /\ before'[g] = before[g]
  BY <1>1 DEF Copy, TypeOK
<1> HIDE DEF f
<1>4. Kept(f)' /\ \A g \in File : Kept(g) => Kept(g)'
  BY <1>1, <1>2, <1>3 DEF Kept
<1>5. RestorableInv'
  <2>1. Kept(Current)'
    BY <1>2, <1>4 DEF Kept, f
  <2> QED
    BY <1>1, <1>4, <2>1 DEF HistoryInv, RestorableInv
<1>6. CleanedInv'
  BY <1>1 DEF CleanedInv, Cleaning
<1> QED
  BY <1>5, <1>6 DEF HistoryInv

(* A path that has been written has its backup.                              *)
LEMMA WriteHistory == ASSUME TypeOK, ContentInv, HistoryInv, Write PROVE HistoryInv'
<1> DEFINE f == Current
<1>1. /\ phase = "write" /\ phase' \in {"copy", "save"} /\ f \in File
      /\ op \in Operation /\ op.kind = "apply" /\ op.hashes \in Hashes
      /\ UNCHANGED <<backup, inventory, before, doubt>>
  BY CurrentTyped DEF Write, ContentInv, Running, Operation, AtFile
<1>2. /\ op'.kind = "apply" /\ \A g \in File \ {f} : op'.hashes[g] = op.hashes[g]
  <2> DEFINE h == [op.hashes EXCEPT ![f] = Config(op.version)]
             n == op.next + 1
             t == op.touched \cup {f}
  <2>1. op' = [op EXCEPT !.hashes = h, !.next = n, !.touched = t]
    BY <1>1 DEF Write, Operation
  <2>2. \A g \in File \ {f} : h[g] = op.hashes[g]
    BY <1>1 DEF Hashes
  <2> HIDE DEF h, n, t
  <2> QED
    BY <1>1, <2>1, <2>2 DEF Operation
<1>3. RestorableInv'
  <2>1. \A g \in File : op'.hashes[g] # None => Kept(g)'
    BY <1>1, <1>2 DEF HistoryInv, RestorableInv, Kept
  <2> QED
    BY <1>1, <1>2, <2>1 DEF HistoryInv, RestorableInv, Kept
<1>4. CleanedInv'
  BY <1>1, <1>2 DEF CleanedInv, Cleaning
<1> QED
  BY <1>3, <1>4 DEF HistoryInv

(* A cleanup that is done with a path leaves it gone or restored.            *)
LEMMA CleanHistory ==
  ASSUME TypeOK, ContentInv, HistoryInv, phase \in Cleaning,
         NEW changed \in SUBSET File, FileDone(changed),
         target'[Current] \in Configs => backup[Current] \in Configs,
         \A g \in File \ {Current} : target'[g] = target[g],
         UNCHANGED <<backup, inventory, before, doubt>>
  PROVE  HistoryInv'
<1> DEFINE f == Current
           paths == Paths(op.version)
<1>1. /\ f \in File /\ op \in Operation /\ op.kind # "apply" /\ op.next \in 1..Len(paths)
      /\ Len(paths) \in Nat /\ op.version \in Version
  BY CurrentTyped DEF ContentInv, Running, AtFile, Cleaning
<1>2. /\ op'.version = op.version /\ op'.next = op.next + 1 /\ op'.kind = op.kind
      /\ op'.loaded = op.loaded /\ phase' = IF Last THEN "save" ELSE "check"
  BY FileDoneTyped DEF FileDone
<1>3. \A n \in 1..op.next : (target'[paths[n]] \in Configs => backup[paths[n]] \in Configs)
  <2> TAKE n \in 1..op.next
  <2>1. n \in 1..Len(paths) /\ paths[n] \in File
    BY <1>1, VersionTyped
  <2>2. CASE paths[n] = f
    BY <2>2
  <2>3. CASE paths[n] # f
    <3>1. n \in 1..op.next - 1
      BY <1>1, <2>1, <2>3 DEF Current
    <3> QED
      BY <1>1, <2>1, <2>3, <3>1 DEF HistoryInv, CleanedInv, Gone
  <2> QED
    BY <2>2, <2>3
<1>4. RestorableInv'
  BY <1>1, <1>2 DEF HistoryInv, RestorableInv, Kept, Cleaning
<1>5. CleanedInv'
  <2>1. op.next + 1 - 1 = op.next /\ op.next + 1 # 1
    BY <1>1
  <2>2. Last => op.next = Len(paths)
    BY DEF Last
  <2> QED
    BY <1>1, <1>2, <1>3, <2>1, <2>2 DEF CleanedInv, Gone, Paths, Cleaning
<1> QED
  BY <1>4, <1>5 DEF HistoryInv

(* A cleanup that stays at its path has changed nothing.                     *)
LEMMA StayHistory ==
  ASSUME HistoryInv, phase \in Cleaning, phase' \in {"restore", "unlink"},
         op.kind \in {"uninstall", "rollback"},
         op.loaded.hashes[Current] # None,
         phase' = "unlink" /\ op.kind = "rollback" => backup[Current] = Absent,
         UNCHANGED <<target, op, backup, inventory, before, doubt>>
  PROVE  HistoryInv'
<1>1. RestorableInv'
  BY DEF HistoryInv, RestorableInv, Kept, Current, Paths, Cleaning
<1>2. CleanedInv'
  BY DEF HistoryInv, CleanedInv, Gone, Paths, Cleaning
<1> QED
  BY <1>1, <1>2 DEF HistoryInv

(* A path that passes the check stays as it is; one that an uninstall finds  *)
(* missing is done with.                                                     *)
LEMMA CheckHistory == ASSUME TypeOK, ContentInv, HistoryInv, Check PROVE HistoryInv'
<1>1. /\ phase = "check" /\ ~Blocked /\ op.kind \in {"uninstall", "rollback"}
      /\ UNCHANGED <<target, backup, inventory, before, doubt>>
  BY DEF Check
<1>2. CASE target[Current] = Absent /\ FileDone({})
  BY <1>1, <1>2, CleanHistory, PluginAssumption DEF Cleaning, Content
<1>3. CASE /\ phase' \in {"restore", "unlink"} /\ UNCHANGED op
           /\ phase' = "unlink" => op.kind = "uninstall"
  BY <1>1, <1>3, StayHistory DEF Blocked, MissingHash, Expected, Cleaning
<1> QED
  BY <1>2, <1>3 DEF Check

(* A path that is restored holds its backup, one that is removed nothing.    *)
LEMMA ChangeHistory ==
  ASSUME TypeOK, ContentInv, HistoryInv, Restore \/ Unlink PROVE HistoryInv'
<1>1. /\ phase \in {"restore", "unlink"} /\ phase \in Cleaning /\ Current \in File
      /\ \A g \in File \ {Current} : target'[g] = target[g]
      /\ UNCHANGED <<backup, inventory, before, doubt>>
  BY ChangeEffect DEF Cleaning
<1>2. CASE /\ FileDone({}) \/ FileDone({Current})
           /\ target'[Current] \in {Absent, backup[Current]}
  <2>1. {} \in SUBSET File /\ {Current} \in SUBSET File
    BY <1>1
  <2>2. target'[Current] \in Configs => backup[Current] \in Configs
    BY <1>2, PluginAssumption DEF Content
  <2> QED
    BY <1>1, <1>2, <2>1, <2>2, CleanHistory
<1>3. CASE phase = "restore" /\ phase' = "unlink" /\ UNCHANGED <<op, target>> /\ backup[Current] = Absent
  <2>1. op.kind \in {"uninstall", "rollback"} /\ op.loaded.hashes[Current] # None
    BY <1>1, <1>3 DEF ContentInv, Running, HistoryInv, RestorableInv
  <2> QED
    BY <1>1, <1>3, <2>1, StayHistory
<1>4. CASE target' = [target EXCEPT ![Current] = backup[Current]] /\ FileDone({Current})
  BY <1>1, <1>2, <1>4 DEF TypeOK
<1>5. CASE target' = [target EXCEPT ![Current] = Absent] /\ FileDone({Current})
  BY <1>1, <1>2, <1>5 DEF TypeOK
<1> QED
  BY <1>2, <1>3, <1>4, <1>5 DEF Restore, Unlink

(* The inventory is saved after the last path.                               *)
LEMMA SaveHistory == ASSUME TypeOK, ContentInv, HistoryInv, Save PROVE HistoryInv'
<1>1. /\ phase = "save" /\ phase' = "idle" /\ inventory' = Returned /\ op \in Operation
      /\ UNCHANGED <<target, backup, before>>
  BY DEF Save, ContentInv, Running
<1>2. op.kind \in {"apply", "uninstall", "rollback"} /\ (op.kind # "apply" => op.loaded \in Inventory)
  BY <1>1 DEF Operation, ContentInv, Running
<1>3. CASE op.kind = "apply"
  <2>1. Returned.hashes = op.hashes /\ Returned.dashboard = "installed"
    BY <1>3 DEF Returned
  <2> QED
    BY <1>1, <1>3, <2>1 DEF HistoryInv, RestorableInv, CleanedInv, Kept, Cleaning
<1>4. CASE op.kind # "apply"
  <2>1. Returned.hashes = NoHashes /\ Returned.version = op.version
    BY <1>1, <1>2, <1>4 DEF Returned, Inventory, HistoryInv, RestorableInv
  <2>2. RestorableInv'
    BY <1>1, <2>1 DEF RestorableInv, NoHashes
  <2>3. CleanedInv'
    BY <1>1, <1>4, <2>1 DEF HistoryInv, CleanedInv, Gone, Paths, Cleaning
  <2> QED
    BY <2>2, <2>3 DEF HistoryInv
<1> QED
  BY <1>3, <1>4

(* An operation that stops leaves the inventory alone.                       *)
LEMMA FailHistory == ASSUME TypeOK, ContentInv, HistoryInv, CleanFails \/ Crash PROVE HistoryInv'
<1>1. CASE Crash
  BY <1>1 DEF Crash, HistoryInv, RestorableInv, CleanedInv, Cleaning
<1>2. CASE CleanFails
  <2>0. phase \in Cleaning /\ op.next \in 1..Len(Paths(op.version)) /\ Len(Paths(op.version)) \in Nat
    BY <1>2, CurrentTyped DEF CleanFails, ContentInv, AtFile, Cleaning
  <2>1. /\ phase \in Cleaning /\ phase' = "idle" /\ doubt' = (doubt \/ op.next > 1)
        /\ UNCHANGED <<target, backup, before, inventory>> /\ op.next \in Nat /\ op.next >= 1
    BY <1>2, <2>0 DEF CleanFails
  <2>3. ~(op.next > 1) => op.next = 1
    BY <2>1
  <2>4. ~doubt' => ~doubt /\ ~(op.next > 1)
    BY <2>1, Zenon
  <2>2. ~doubt' => op.next = 1 /\ ~doubt
    BY <2>3, <2>4, Zenon
  <2> QED
    BY <2>1, <2>2 DEF HistoryInv, RestorableInv, CleanedInv, Kept, Gone, Paths, Cleaning
<1> QED
  BY <1>1, <1>2

(* The user edits a file while an operation is under way.                    *)
LEMMA EditHistory ==
  ASSUME TypeOK, ContentInv, HistoryInv,
         NEW f \in File, NEW c \in UserContent \cup {Absent}, UserEdit(f, c)
  PROVE  HistoryInv'
<1>1. /\ UNCHANGED <<backup, inventory, phase, op, before, doubt>>
      /\ target' = [target EXCEPT ![f] = c] /\ c \notin Configs
  BY PluginAssumption DEF UserEdit, Content
<1>2. RestorableInv'
  BY <1>1 DEF HistoryInv, RestorableInv, Kept, Current, Paths
<1>3. \A g \in File : Gone(g) => Gone(g)'
  BY <1>1 DEF Gone, TypeOK
<1>4. phase # "idle" => op.version \in Version
  BY DEF ContentInv, Running, Operation
<1>5. inventory # None => inventory.version \in Version
  BY DEF TypeOK, Inventory
<1>6. phase \in Cleaning => op.next \in 1..Len(Paths(op.version)) /\ Len(Paths(op.version)) \in Nat
  BY CurrentTyped DEF ContentInv, AtFile
<1>7. CleanedInv'
  <2>1. ASSUME phase \in Cleaning, NEW n \in 1..op.next - 1
        PROVE  Gone(Paths(op.version)[n])'
    <3>1. n \in 1..Len(Paths(op.version)) /\ Paths(op.version)[n] \in File
      BY <1>4, <1>6, <2>1, VersionTyped DEF Cleaning
    <3>2. (Paths(op.version)[n])' = Paths(op.version)[n]
      BY <1>1 DEF Paths
    <3> QED
      BY <1>1, <1>3, <2>1, <3>1, <3>2 DEF HistoryInv, CleanedInv, Gone
  <2>2. ASSUME phase = "save", op.kind # "apply", NEW n \in 1..Len(Paths(op.version))
        PROVE  Gone(Paths(op.version)[n])'
    <3>1. Paths(op.version)[n] \in File
      BY <1>4, <2>2, VersionTyped
    <3>2. (Paths(op.version)[n])' = Paths(op.version)[n]
      BY <1>1 DEF Paths
    <3> QED
      BY <1>1, <1>3, <2>2, <3>1, <3>2 DEF HistoryInv, CleanedInv, Gone
  <2>3. ASSUME inventory # None, NEW n \in 1..Len(Paths(inventory.version)),
               Gone(Paths(inventory.version)[n])
        PROVE  Gone(Paths(inventory.version)[n])'
    <3>1. Paths(inventory.version)[n] \in File
      BY <1>5, <2>3, VersionTyped
    <3>2. (Paths(inventory.version)[n])' = Paths(inventory.version)[n]
      BY <1>1 DEF Paths
    <3> QED
      BY <1>1, <1>3, <2>3, <3>1, <3>2 DEF Gone
  <2> QED
    BY <1>1, <2>1, <2>2, <2>3 DEF HistoryInv, CleanedInv, Paths
<1> QED
  BY <1>2, <1>7 DEF HistoryInv

(* Every step keeps what the inventory says of the files.                    *)
LEMMA StepHistory == TypeOK /\ ContentInv /\ HistoryInv /\ [Next]_vars => HistoryInv'
<1> SUFFICES ASSUME TypeOK, ContentInv, HistoryInv, [Next]_vars PROVE HistoryInv'
  OBVIOUS
<1>1. CASE UNCHANGED vars
  BY <1>1 DEF vars, HistoryInv, RestorableInv, CleanedInv, Kept, Gone, Current, Paths
<1> QED
  BY <1>1, StartHistory, CopyHistory, WriteHistory, CheckHistory, ChangeHistory, SaveHistory, FailHistory,
     EditHistory DEF Next

(* The inductive invariant on files, backups and inventory                   *)
LEMMA HistoryHolds == Spec => [](TypeOK /\ ContentInv /\ HistoryInv)
BY InitContent, InitHistory, StepContent, StepHistory, PTL DEF Spec

(* An inventory that says the plugin is gone is right, whatever was cut      *)
(* short before the operation that wrote it.                                 *)
THEOREM PluginsInventoryTruthful == Spec => []InventoryTruthful
<1>1. TypeOK /\ HistoryInv => InventoryTruthful
  <2> SUFFICES ASSUME TypeOK, CleanedInv, inventory # None, inventory.dashboard = "available",
                      phase = "idle", ~doubt, NEW k \in DOMAIN Paths(inventory.version)
               PROVE  Gone(Paths(inventory.version)[k])
    BY DEF HistoryInv, InventoryTruthful, Gone
  <2>1. inventory.version \in Version
    BY DEF TypeOK, Inventory
  <2>2. k \in 1..Len(Paths(inventory.version))
    BY <2>1, PluginAssumption DEF Paths
  <2> QED
    BY <2>2 DEF CleanedInv
<1> QED
  BY <1>1, HistoryHolds, PTL

(* A rollback puts back what the last apply found, or an older backup where  *)
(* that found nothing.                                                       *)
THEOREM PluginsRollbackRestores == Spec => RollbackRestores
<1> DEFINE A == ~doubt /\ phase \in {"restore", "unlink"} /\ RolledBack =>
                  \/ target'[Current] = before[Current]
                  \/ before[Current] = Absent /\ target'[Current] = backup[Current]
<1>1. TypeOK /\ ContentInv /\ HistoryInv => A
  <2> SUFFICES ASSUME TypeOK, ContentInv, HistoryInv, ~doubt, phase \in {"restore", "unlink"}, RolledBack
               PROVE  \/ target'[Current] = before[Current]
                      \/ before[Current] = Absent /\ target'[Current] = backup[Current]
    OBVIOUS
  <2>1. Current \in File /\ op.kind = "rollback" /\ op' # op
    BY CurrentTyped DEF RolledBack, ContentInv, AtFile, Cleaning
  <2>2. target'[Current] = backup[Current]
    <3>1. CASE Restore
      BY <2>1, <3>1 DEF Restore, TypeOK
    <3>2. CASE Unlink
      BY <2>1, <3>2 DEF Unlink, TypeOK, HistoryInv, RestorableInv
    <3> QED
      BY <3>1, <3>2 DEF RolledBack
  <2>3. inventory # None /\ inventory.hashes[Current] # None
    BY <2>1 DEF HistoryInv, RestorableInv, ContentInv, Running
  <2>4. Kept(Current)
    BY <2>1, <2>3 DEF HistoryInv, RestorableInv
  <2> QED
    BY <2>2, <2>4 DEF Kept
<1>2. [](TypeOK /\ ContentInv /\ HistoryInv) => [][A]_vars
  BY <1>1, PTL
<1> QED
  BY <1>2, HistoryHolds, PTL DEF RollbackRestores

-----------------------------------------------------------------------------
(* What is left of "drift blocks a cleanup" *)

(* Refuted as a property of every cleanup, since the files before a drifted  *)
(* one are gone by the time it is looked at, this much holds of all: neither *)
(* an uninstall nor a rollback, completed, failed or cut short, changes a    *)
(* file that holds the user's own content, but the one file whose hash it    *)
(* has just compared, when the user writes that before it is changed.        *)
CleanupsSpareUser ==
  [][(phase \in Cleaning /\ (Check \/ Restore \/ Unlink \/ CleanFails \/ Crash)) =>
       \A f \in File : target[f] \in UserContent =>
         \/ target'[f] = target[f]
         \/ f = Current /\ f \in raced /\ phase # "check"]_vars

(* The hashes of an inventory are of the plugin's configs, hence a file with *)
(* the user's content has drifted, and the check lets none such through.     *)
THEOREM PluginsCleanupsSpareUser == Spec => CleanupsSpareUser
<1> DEFINE A == phase \in Cleaning /\ (Check \/ Restore \/ Unlink \/ CleanFails \/ Crash) =>
                  \A f \in File : target[f] \in UserContent =>
                    \/ target'[f] = target[f]
                    \/ f = Current /\ f \in raced /\ phase # "check"
<1>1. TypeOK /\ ContentInv => A
  <2> SUFFICES ASSUME TypeOK, ContentInv, phase \in Cleaning,
                      Check \/ Restore \/ Unlink \/ CleanFails \/ Crash,
                      NEW f \in File, target[f] \in UserContent
               PROVE  \/ target'[f] = target[f]
                      \/ f = Current /\ f \in raced /\ phase # "check"
    OBVIOUS
  <2>1. CASE target' = target
    BY <2>1
  <2>2. CASE /\ phase \in {"restore", "unlink"}
             /\ \A g \in File \ {Current} : target'[g] = target[g]
    BY <2>2 DEF ContentInv, Checked
  <2>3. CASE Restore \/ Unlink
    BY <2>2, <2>3, ChangeEffect
  <2>4. CASE Check \/ CleanFails
    BY <2>1, <2>4 DEF Check, CleanFails
  <2>5. CASE Crash
    BY <2>1, <2>2, <2>5 DEF Crash, Cleaning, TypeOK
  <2> QED
    BY <2>3, <2>4, <2>5
<1>2. [](TypeOK /\ ContentInv) => [][A]_vars
  BY <1>1, PTL
<1> QED
  BY <1>2, ContentHolds, PTL DEF CleanupsSpareUser

(* A cleanup that is at its first file has touched none.                     *)
Untouched == phase \in Cleaning => op.next > 1 \/ op.touched = {}

(* The refuted statement itself is true of plugins with a single file: what  *)
(* refutes it is the loop that checks and changes file by file.              *)
THEOREM PluginsSingleFileBlocks ==
  ASSUME \A v \in Version : Len(Paths(v)) = 1
  PROVE  Spec => DriftBlocksCleanup
<1>1. Init => Untouched
  BY DEF Init, Untouched, Cleaning
<1>2. TypeOK /\ ContentInv /\ Untouched /\ [Next]_vars => Untouched'
  <2> SUFFICES ASSUME TypeOK, ContentInv, Untouched, [Next]_vars, phase' \in Cleaning
               PROVE  op'.next > 1 \/ op'.touched = {}
    BY DEF Untouched
  <2>1. ASSUME NEW kind, NEW v, NEW loaded, NEW approved, NEW first,
               Begin(kind, v, loaded, approved, first)
        PROVE  op'.touched = {}
    BY <2>1 DEF Begin
  <2>2. ASSUME phase \in Cleaning, NEW changed \in SUBSET File, FileDone(changed),
               inventory' = inventory
        PROVE  op'.next > 1
    <3>1. op'.next = op.next + 1 /\ op.next \in Nat /\ op.next >= 1
      BY <2>2, FileDoneTyped, CurrentTyped DEF ContentInv, AtFile
    <3> QED
      BY <3>1
  <2>3. CASE phase \in Cleaning /\ op' = op
    BY <2>3 DEF Untouched
  <2>4. CASE Check
    BY <2>2, <2>3, <2>4 DEF Check, Cleaning
  <2>5. CASE Restore \/ Unlink
    <3>1. {} \in SUBSET File /\ {Current} \in SUBSET File
      BY <2>5, ChangeEffect
    <3> QED
      BY <2>2, <2>3, <2>5, <3>1, ChangeEffect DEF Cleaning
  <2>6. CASE Copy \/ Write \/ CleanFails \/ Save \/ Crash
    BY <2>6 DEF Copy, Write, CleanFails, Save, Crash, Cleaning
  <2>7. CASE (\E f \in File, c \in UserContent \cup {Absent} : UserEdit(f, c)) \/ UNCHANGED vars
    BY <2>3, <2>7 DEF UserEdit, vars
  <2>8. CASE \E v \in Version, approved \in BOOLEAN :
               BeginApply(v, approved) \/ BeginUninstall(v, approved) \/ BeginRollback(v, approved)
    BY <2>1, <2>8 DEF BeginApply, BeginUninstall, BeginRollback
  <2> QED
    BY <2>4, <2>5, <2>6, <2>7, <2>8 DEF Next
<1> DEFINE A == (phase = "check" /\ Drifted /\ target[Current] = op.found[Current] /\ CleanFails) =>
                  op.touched = {}
<1>3. TypeOK /\ ContentInv /\ Untouched => A
  <2> SUFFICES ASSUME TypeOK, ContentInv, Untouched, phase = "check"
               PROVE  op.touched = {}
    OBVIOUS
  <2>1. op.version \in Version /\ op.next \in 1..Len(Paths(op.version))
    BY CurrentTyped DEF ContentInv, AtFile, Cleaning
  <2>2. Len(Paths(op.version)) = 1
    BY <2>1
  <2>3. op.next = 1
    BY <2>1, <2>2
  <2> QED
    BY <2>3 DEF Untouched, Cleaning
<1>4. [](TypeOK /\ ContentInv) /\ []Untouched => [][A]_vars
  BY <1>3, PTL
<1> QED
  BY <1>1, <1>2, <1>4, ContentHolds, PTL DEF Spec, DriftBlocksCleanup
=============================================================================
