-------------------------------- MODULE SeenDb --------------------------------
(***************************************************************************)
(* The seen database of Decisis (bseen1.4.2.tcl): one record per nick, in  *)
(* memory while the bot runs, written to a file every hour and read back   *)
(* when the bot starts.                                                    *)
(*                                                                         *)
(* A save copies the data file to its backup, truncates the data file and  *)
(* writes it record by record.  Eggdrop runs no other handler meanwhile,   *)
(* but the bot or its host can die between any two of these steps, and any *)
(* of them can fail, on a full disk for one.  A record is a channel and a  *)
(* time: that is what unseen, bs_trim and the properties tell apart.       *)
(***************************************************************************)
EXTENDS Integers, FiniteSets

CONSTANTS Nicks,    \* nicks, in lower case: the keys of bs_list
          Chans,
          Limit,    \* bs(limit)
          MaxTime,  \* bound on the clock
          NoFile,   \* a file that does not exist
          Cut       \* a line of a file that ends without its newline

VARIABLES
    now,        \* unixtime
    stage,      \* "down", "up", or inside bs_save: "copied", "writing"
    list,       \* bs_list: the records in memory
    main,       \* bs_data.<bot>
    bak,        \* bs_data.<bot>.bak
    left,       \* inside bs_save, the records still to be written
    saved,      \* ghost: the database last loaded, or last saved to the end ...
    failed,     \* ghost: ... unless a file operation has failed since: Empty then
    forgotten   \* ghost: per channel, how far its removal by unseen has got

vars == <<now, stage, list, main, bak, left, saved, failed, forgotten>>
clock == <<now>>
memory == <<list, forgotten>>
disk == <<main, bak, saved, failed>>

Records == [chan : Chans, at : 0 .. MaxTime]
Databases == UNION {[D -> Records] : D \in SUBSET Nicks}
FileContents == UNION {[D -> Records \cup {Cut}] : D \in SUBSET Nicks}
Empty == [n \in {} |-> Cut]
Removal == {"no", "memory", "skipped", "disk"}

ASSUME SeenAssumption ==
    /\ IsFiniteSet(Nicks)
    /\ Limit \in Nat
    /\ MaxTime \in Nat \ {0}
    /\ Cut \notin Records
    /\ NoFile \notin FileContents

\* Records laid over others, and over others one line.
Over(a, b) ==
    [n \in DOMAIN a \cup DOMAIN b |-> IF n \in DOMAIN a THEN a[n] ELSE b[n]]
With(db, n, r) == Over([m \in {n} |-> r], db)
Keep(db, S) == [m \in DOMAIN db \cap S |-> db[m]]

\* What bs_read makes of a file: a line cut off by a crash is its end.
Readable(file) ==
    IF file = NoFile THEN Empty ELSE [n \in {m \in DOMAIN file : file[m] # Cut} |-> file[n]]

Init ==
    /\ now = 1
    /\ stage = "down"
    /\ list = Empty
    /\ main = NoFile
    /\ bak = NoFile
    /\ left = {}
    /\ saved = Empty
    /\ failed = FALSE
    /\ forgotten = [c \in Chans |-> "no"]

-----------------------------------------------------------------------------
(* What the bot sees and is told.                                           *)

Seen(c) == [forgotten EXCEPT ![c] = "no"]

\* A join, part, quit, kick or any other event with a nick and a channel.
Log(n, c) ==
    /\ stage = "up"
    /\ list' = With(list, n, [chan |-> c, at |-> now])
    /\ forgotten' = Seen(c)
    /\ UNCHANGED <<clock, stage, disk, left>>

\* A nick change: the old nick is seen a second before the new one.  The two
\* are the same key when only the case changes.
Rename(n, m, c) ==
    /\ stage = "up"
    /\ list' = With(With(list, n, [chan |-> c, at |-> now - 1]),
                    m, [chan |-> c, at |-> now])
    /\ forgotten' = Seen(c)
    /\ UNCHANGED <<clock, stage, disk, left>>

On(c) == {n \in DOMAIN list : list[n].chan = c}

\* The partyline command that drops a channel from the database.
Unseen(c) ==
    /\ stage = "up"
    /\ list' = Keep(list, Nicks \ On(c))
    /\ forgotten' = [forgotten EXCEPT ![c] = "memory"]
    /\ UNCHANGED <<clock, stage, disk, left>>

\* The keys in the order of their times, ties in any order.
Sorted(s) ==
    /\ \A i, j \in DOMAIN s : i # j => s[i] # s[j]
    /\ \A i, j \in DOMAIN s : i < j => list[s[i]].at <= list[s[j]].at
Orders == {s \in [1 .. Cardinality(DOMAIN list) -> DOMAIN list] : Sorted(s)}

\* The newest records are taken for the oldest.
NewestOf(s, excess) ==
    {s[i] : i \in Cardinality(DOMAIN list) + 1 - excess .. Cardinality(DOMAIN list)}

OldestOf(s, excess) == {s[i] : i \in 1 .. excess}

\* The timer that keeps the database at its limit.
Trim ==
    /\ stage = "up"
    /\ Cardinality(DOMAIN list) > Limit
    /\ \E s \in Orders :
          list' = Keep(list, Nicks \ OldestOf(s, Cardinality(DOMAIN list) - Limit))
    /\ UNCHANGED <<clock, stage, disk, left, forgotten>>

-----------------------------------------------------------------------------
(* bs_save.                                                                 *)

\* With nothing in memory the save returns at once.
SaveSkipped ==
    /\ stage = "up"
    /\ DOMAIN list = {}
    /\ forgotten' = [c \in Chans |-> IF forgotten[c] = "memory" THEN "skipped"
                                     ELSE forgotten[c]]
    /\ UNCHANGED <<clock, stage, list, disk, left>>

SaveDue == stage = "up" /\ DOMAIN list # {}

\* The old contents are not kept before they are overwritten.
NoCopy ==
    /\ SaveDue
    /\ stage' = "copied"
    /\ UNCHANGED <<clock, memory, disk, left>>

Copy ==
    /\ SaveDue
    /\ stage' = "copied"
    /\ bak' = IF main = NoFile THEN bak ELSE main
    /\ UNCHANGED <<clock, memory, main, left, saved, failed>>

\* cp fails, at its start or part-way.  That is caught, and the save goes on.
CopyFails ==
    /\ SaveDue
    /\ main # NoFile
    /\ stage' = "copied"
    /\ bak' \in {bak} \cup {Keep(main, S) : S \in SUBSET DOMAIN main}
    /\ failed' = TRUE
    /\ saved' = Empty
    /\ UNCHANGED <<clock, memory, main, left>>

\* The host dies while cp runs.
CopyCut ==
    /\ SaveDue
    /\ main # NoFile
    /\ stage' = "down"
    /\ bak' \in {Keep(main, S) : S \in SUBSET DOMAIN main}
    /\ list' = Empty
    /\ UNCHANGED <<clock, main, left, saved, failed, forgotten>>

Truncate ==
    /\ stage = "copied"
    /\ stage' = "writing"
    /\ main' = Empty
    /\ left' = DOMAIN list
    /\ UNCHANGED <<clock, memory, bak, saved, failed>>

\* The data file cannot be opened: the save ends in an error.
OpenFails ==
    /\ stage = "copied"
    /\ stage' = "up"
    /\ failed' = TRUE
    /\ saved' = Empty
    /\ UNCHANGED <<clock, memory, main, bak, left>>

\* A line reaches the disk in two parts, of which the last may never come.
WriteHalf(n) ==
    /\ stage = "writing"
    /\ \A m \in DOMAIN main : main[m] # Cut
    /\ n \in left
    /\ main' = With(main, n, Cut)
    /\ UNCHANGED <<clock, stage, memory, bak, left, saved, failed>>

WriteRest(n) ==
    /\ stage = "writing"
    /\ n \in left \cap DOMAIN main
    /\ main[n] = Cut
    /\ main' = With(main, n, list[n])
    /\ left' = left \ {n}
    /\ UNCHANGED <<clock, stage, memory, bak, saved, failed>>

\* The disk is full: the save ends in an error, the file stays as it is.
WriteFails ==
    /\ stage = "writing"
    /\ stage' = "up"
    /\ left' = {}
    /\ failed' = TRUE
    /\ saved' = Empty
    /\ UNCHANGED <<clock, memory, main, bak>>

Close ==
    /\ stage = "writing"
    /\ left = {}
    /\ stage' = "up"
    /\ saved' = list
    /\ failed' = FALSE
    /\ forgotten' = [c \in Chans |-> IF forgotten[c] = "no" \/ On(c) # {} THEN "no"
                                     ELSE "disk"]
    /\ UNCHANGED <<clock, list, main, bak, left>>

-----------------------------------------------------------------------------
(* The process.                                                             *)

\* The bot dies or is stopped.  Nothing is saved on the way out.
Stop ==
    /\ stage # "down"
    /\ stage' = "down"
    /\ list' = Empty
    /\ left' = {}
    /\ UNCHANGED <<clock, disk, forgotten>>

\* The lines are read as they are, whole or not.
ReadTorn ==
    /\ main' = IF main = NoFile THEN bak ELSE main
    /\ list' = IF main' = NoFile THEN Empty ELSE main'
    /\ saved' = list'
    /\ failed' = FALSE
    /\ UNCHANGED <<clock, bak, left, forgotten>>

\* The backup is used whenever there is one.
ReadBackup ==
    /\ main' = IF bak # NoFile THEN bak ELSE main
    /\ list' = Over(Readable(main'), list)
    /\ saved' = Readable(main')
    /\ failed' = FALSE
    /\ UNCHANGED <<clock, bak, left, forgotten>>

\* bs_read: the data file, or the backup, copied to its place, if there is no
\* data file.  Its records replace those of the same nicks in memory.
Read ==
    /\ main' = IF main = NoFile THEN bak ELSE main
    /\ list' = Over(Readable(main'), list)
    /\ saved' = Readable(main')
    /\ failed' = FALSE
    /\ UNCHANGED <<clock, bak, left, forgotten>>

Start ==
    /\ stage = "down"
    /\ stage' = "up"
    /\ Read

\* A rehash reads the file, whatever there is in memory.
RehashRereads ==
    /\ stage = "up"
    /\ Read
    /\ UNCHANGED stage

\* A rehash reads the file only if there is nothing in memory.
Rehash ==
    /\ stage = "up"
    /\ DOMAIN list = {}
    /\ Read
    /\ UNCHANGED stage

\* The cp that restores the data file from its backup fails, which nothing
\* catches and eggdrop takes for a fatal error of its configuration, or the host
\* dies while it runs: the bot is down, the data file what was copied so far.
\* From then on it is there, and the next start will not ask for the backup.
RestoreBreaksOff ==
    /\ stage = "down" \/ (stage = "up" /\ DOMAIN list = {})
    /\ main = NoFile
    /\ bak # NoFile
    /\ stage' = "down"
    /\ list' = Empty
    /\ main' \in {NoFile} \cup {Keep(bak, S) : S \in SUBSET DOMAIN bak}
    /\ failed' = TRUE
    /\ saved' = Empty
    /\ UNCHANGED <<clock, bak, left, forgotten>>

\* The data file is lost or removed while the bot is down.
LoseMain ==
    /\ stage = "down"
    /\ main # NoFile
    /\ main' = NoFile
    /\ failed' = TRUE
    /\ saved' = Empty
    /\ forgotten' = [c \in Chans |-> IF forgotten[c] = "disk" THEN "memory"
                                     ELSE forgotten[c]]
    /\ UNCHANGED <<clock, stage, list, bak, left>>

Tick ==
    /\ stage = "up"
    /\ now < MaxTime
    /\ now' = now + 1
    /\ UNCHANGED <<stage, memory, disk, left>>

Events ==
    \/ \E n \in Nicks, c \in Chans : Log(n, c)
    \/ \E n, m \in Nicks, c \in Chans : Rename(n, m, c)
    \/ \E c \in Chans : Unseen(c)
    \/ Trim

Save ==
    \/ SaveSkipped
    \/ Copy
    \/ CopyFails
    \/ CopyCut
    \/ Truncate
    \/ OpenFails
    \/ \E n \in Nicks : WriteHalf(n) \/ WriteRest(n)
    \/ WriteFails
    \/ Close

Next == Events \/ Save \/ Stop \/ Start \/ Rehash \/ RestoreBreaksOff \/ LoseMain \/ Tick

Spec == Init /\ [][Next]_vars

-----------------------------------------------------------------------------
TypeOK ==
    /\ now \in 1 .. MaxTime
    /\ stage \in {"down", "up", "copied", "writing"}
    /\ list \in Databases
    /\ main \in FileContents \cup {NoFile}
    /\ bak \in FileContents \cup {NoFile}
    /\ left \subseteq DOMAIN list
    /\ saved \in Databases
    /\ failed \in BOOLEAN
    /\ forgotten \in [Chans -> Removal]

\* Wherever a save is cut off, one of the two files holds the whole database
\* that was last saved to the end or loaded, as long as no file operation has
\* failed since.  (bs_read does not look for it in the backup, and the save
\* after the next start overwrites the backup: the operator has an hour.)
OneCopyIsWhole == ~failed => saved \in {Readable(main), Readable(bak)}

\* Through saves, rehashes and nick changes, what the running bot knows of a
\* nick never gets older, except for the second that a nick change takes off.
NeverGoesBack ==
    [][ stage' # "down" =>
          \A n \in DOMAIN list \cap DOMAIN list' : list'[n].at >= list[n].at - 1 ]_vars

\* A channel that unseen removed stays removed once a save has come to its
\* end, through crashes in later saves and restarts, until it is seen again.
UnseenSticks ==
    \A c \in Chans : forgotten[c] = "disk" =>
        \A db \in {list, Readable(main)} : \A n \in DOMAIN db : db[n].chan # c

\* While the bot runs it forgets a nick only if an operator removes its channel
\* or if it knows Limit nicks seen as recently.
ForgetsTheOldest ==
    [][ stage' # "down" =>
          \A n \in DOMAIN list \ DOMAIN list' :
              \/ LET c == list[n].chan
                 IN  forgotten'[c] = "memory" /\ list' = Keep(list, Nicks \ On(c))
              \/ Cardinality({m \in DOMAIN list \ {n} : list[m].at >= list[n].at})
                     >= Limit ]_vars

\* What outlives the bot, as its next start makes of it: the data file, or the
\* backup if there is no data file.
Store == INSTANCE SeenStore
           WITH phase <- IF stage \in {"copied", "writing"} THEN "saving" ELSE stage,
                known <- list,
                kept  <- Readable(IF main = NoFile THEN bak ELSE main),
                older <- Readable(bak),
                hurt  <- failed

\* Whatever is cut off or fails, in a save or in a restore, a start brings back a
\* part of what the bot knew at one moment, and a rehash adds nothing to what it
\* knows already.  A save puts by all that is kept before it overwrites any of
\* it, unless the copy fails, and has kept all that is known when it ends
\* without an error (bs_save, bs_read).
KeepsAsStored == Store!Spec

\* "entries deleted from the bseen database": a removal that the hourly save
\* has seen is not undone by a restart.
UnseenIsDeleted == \A c \in Chans : forgotten[c] = "skipped" => On(c) = {}

=============================================================================
