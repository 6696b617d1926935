---------------------------- MODULE SeenDb_proofs ----------------------------
(***************************************************************************)
(* That bseen's saves, crashes and restarts keep the promises of SeenDb,   *)
(* for any nicks, channels and limit.                                      *)
(*                                                                         *)
(* OneCopyIsWhole alone does not say which file is the whole one.  The     *)
(* invariant does, by stage: the data file while the bot runs, both while  *)
(* the save has copied it, the backup while it writes.  It also says how   *)
(* much of the database a save has written, that a channel removed for     *)
(* good is in neither memory nor data file, and that nothing is newer than *)
(* the clock.                                                              *)
(***************************************************************************)
EXTENDS SeenDb, FiniteSetTheorems, TLAPS

Partial(V) == UNION {[D -> V] : D \in SUBSET Nicks}
Files == FileContents \cup {NoFile}

\* A file says nothing of a channel, or nothing newer than t.
Lines(file) == {n \in DOMAIN file : file[n] # Cut}
FreeOf(file, c) == file # NoFile => \A n \in Lines(file) : file[n].chan # c
UpTo(file, t) == file # NoFile => \A n \in Lines(file) : file[n].at <= t

StageInv ==
    /\ stage # "writing" => left = {}
    /\ stage = "down" => list = Empty
    /\ stage \in {"up", "copied"} /\ main = NoFile => bak = NoFile

PartWritten ==
    stage = "writing" =>
        /\ main # NoFile
        /\ DOMAIN list \ left \subseteq DOMAIN main
        /\ DOMAIN main \subseteq DOMAIN list
        /\ \A n \in DOMAIN main : main[n] = IF n \in left THEN Cut ELSE list[n]

WholeCopies ==
    ~failed =>
        /\ stage \in {"up", "copied"} => saved = Readable(main)
        /\ stage \in {"copied", "writing"} => saved = Readable(bak)
        /\ saved \in {Readable(main), Readable(bak)}

StaysRemoved ==
    \A c \in Chans : forgotten[c] = "disk" =>
        main # NoFile /\ FreeOf(list, c) /\ FreeOf(main, c)

NothingNewer == UpTo(list, now) /\ UpTo(main, now) /\ UpTo(bak, now)

IInv == TypeOK /\ StageInv /\ PartWritten /\ WholeCopies /\ StaysRemoved /\ NothingNewer

-----------------------------------------------------------------------------
(* Partial functions: what Over, With and Keep make of them.                *)

\* A partial function is one on its own domain, with values in V.
LEMMA PartialIs ==
  ASSUME NEW V, NEW f
  PROVE  f \in Partial(V) <=> /\ f = [n \in DOMAIN f |-> f[n]]
                              /\ DOMAIN f \subseteq Nicks
                              /\ \A n \in DOMAIN f : f[n] \in V
<1>1. ASSUME f \in Partial(V)
      PROVE  /\ f = [n \in DOMAIN f |-> f[n]]
             /\ DOMAIN f \subseteq Nicks
             /\ \A n \in DOMAIN f : f[n] \in V
  <2>1. PICK D \in SUBSET Nicks : f \in [D -> V]
    BY <1>1 DEF Partial
  <2> QED
    BY <2>1
<1>2. ASSUME f = [n \in DOMAIN f |-> f[n]], DOMAIN f \subseteq Nicks,
             \A n \in DOMAIN f : f[n] \in V
      PROVE  f \in Partial(V)
  <2>1. f \in [DOMAIN f -> V]
    BY <1>2
  <2> QED
    BY <1>2, <2>1 DEF Partial
<1> QED
  BY <1>1, <1>2

\* The empty database is one of any kind of records.
LEMMA EmptyPartial == ASSUME NEW V PROVE Empty \in Partial(V) /\ DOMAIN Empty = {}
<1>1. Empty = [n \in DOMAIN Empty |-> Empty[n]] /\ DOMAIN Empty = {}
  BY DEF Empty
<1> QED
  BY <1>1, PartialIs

\* Records that are kept are the records they were.
LEMMA KeepPartial ==
  ASSUME NEW V, NEW f \in Partial(V), NEW S
  PROVE  /\ Keep(f, S) \in Partial(V)
         /\ DOMAIN Keep(f, S) = DOMAIN f \cap S
         /\ \A n \in DOMAIN f \cap S : Keep(f, S)[n] = f[n]
<1>1. /\ DOMAIN Keep(f, S) = DOMAIN f \cap S
      /\ \A n \in DOMAIN f \cap S : Keep(f, S)[n] = f[n]
      /\ Keep(f, S) = [n \in DOMAIN Keep(f, S) |-> Keep(f, S)[n]]
  BY DEF Keep
<1>2. DOMAIN f \subseteq Nicks /\ \A n \in DOMAIN f : f[n] \in V
  BY PartialIs
<1>3. Keep(f, S) \in Partial(V)
  BY <1>1, <1>2, PartialIs
<1> QED
  BY <1>1, <1>3

\* A database laid over another one has the records of both.
LEMMA OverPartial ==
  ASSUME NEW V, NEW a \in Partial(V), NEW b \in Partial(V)
  PROVE  /\ Over(a, b) \in Partial(V)
         /\ DOMAIN Over(a, b) = DOMAIN a \cup DOMAIN b
         /\ \A n \in DOMAIN a : Over(a, b)[n] = a[n]
         /\ \A n \in DOMAIN b \ DOMAIN a : Over(a, b)[n] = b[n]
<1>1. /\ DOMAIN Over(a, b) = DOMAIN a \cup DOMAIN b
      /\ \A n \in DOMAIN a : Over(a, b)[n] = a[n]
      /\ \A n \in DOMAIN b \ DOMAIN a : Over(a, b)[n] = b[n]
      /\ Over(a, b) = [n \in DOMAIN Over(a, b) |-> Over(a, b)[n]]
  BY DEF Over
<1>2. /\ DOMAIN a \subseteq Nicks /\ \A n \in DOMAIN a : a[n] \in V
      /\ DOMAIN b \subseteq Nicks /\ \A n \in DOMAIN b : b[n] \in V
  BY PartialIs
<1>3. Over(a, b) \in Partial(V)
  BY <1>1, <1>2, PartialIs
<1> QED
  BY <1>1, <1>3

\* A record laid over a database, line by line.
LEMMA WithIs ==
  ASSUME NEW f, NEW n, NEW r
  PROVE  With(f, n, r) = [m \in DOMAIN f \cup {n} |-> IF m = n THEN r ELSE f[m]]
<1>1. {n} \cup DOMAIN f = DOMAIN f \cup {n}
  OBVIOUS
<1> QED
  BY <1>1 DEF With, Over

\* One more record makes a database of one.
LEMMA WithPartial ==
  ASSUME NEW V, NEW f \in Partial(V), NEW n \in Nicks, NEW r \in V
  PROVE  /\ With(f, n, r) \in Partial(V)
         /\ DOMAIN With(f, n, r) = DOMAIN f \cup {n}
         /\ With(f, n, r)[n] = r
         /\ \A m \in DOMAIN f \ {n} : With(f, n, r)[m] = f[m]
<1> DEFINE w == With(f, n, r)
<1>1. w = [m \in DOMAIN f \cup {n} |-> IF m = n THEN r ELSE f[m]]
  BY WithIs
<1> HIDE DEF w
<1>2. /\ DOMAIN w = DOMAIN f \cup {n} /\ w[n] = r
      /\ \A m \in DOMAIN f \ {n} : w[m] = f[m]
      /\ w = [m \in DOMAIN w |-> w[m]]
  BY <1>1
<1>3. DOMAIN f \subseteq Nicks /\ \A m \in DOMAIN f : f[m] \in V
  BY PartialIs
<1>4. DOMAIN w \subseteq Nicks /\ \A m \in DOMAIN w : w[m] \in V
  BY <1>2, <1>3
<1>5. w \in Partial(V)
  BY <1>2, <1>4, PartialIs
<1> QED
  BY <1>2, <1>5 DEF w

\* Databases have whole records, files whole or torn ones.
LEMMA DatabasesArePartial ==
  /\ Databases = Partial(Records)
  /\ FileContents = Partial(Records \cup {Cut})
  BY DEF Databases, FileContents, Partial

\* One line of a file is written.
LEMMA WithLine ==
  ASSUME NEW file \in FileContents, NEW n \in Nicks, NEW line \in Records \cup {Cut}
  PROVE  /\ With(file, n, line) \in FileContents
         /\ DOMAIN With(file, n, line) = DOMAIN file \cup {n}
         /\ With(file, n, line)[n] = line
         /\ \A m \in DOMAIN file \ {n} : With(file, n, line)[m] = file[m]
<1> DEFINE w == With(file, n, line)
<1>1. w = [m \in DOMAIN file \cup {n} |-> IF m = n THEN line ELSE file[m]]
  BY WithIs
<1> HIDE DEF w
<1>2. /\ DOMAIN w = DOMAIN file \cup {n}
      /\ w = [m \in DOMAIN w |-> w[m]]
  BY <1>1
<1>3. w[n] = line /\ \A m \in DOMAIN file \ {n} : w[m] = file[m]
  BY <1>1
<1>4. DOMAIN file \subseteq Nicks /\ \A m \in DOMAIN file : file[m] \in Records \cup {Cut}
  BY DatabasesArePartial, PartialIs
<1>5. DOMAIN w \subseteq Nicks /\ \A m \in DOMAIN w : w[m] \in Records \cup {Cut}
  BY <1>2, <1>3, <1>4
<1>6. w \in FileContents
  BY <1>2, <1>5, PartialIs, DatabasesArePartial
<1> QED
  BY <1>2, <1>3, <1>6 DEF w

\* A database is a file without torn lines.
LEMMA DatabaseIsFile ==
  ASSUME NEW db \in Databases
  PROVE  db \in FileContents /\ Lines(db) = DOMAIN db /\ db # NoFile
<1>1. /\ db = [n \in DOMAIN db |-> db[n]] /\ DOMAIN db \subseteq Nicks
      /\ \A n \in DOMAIN db : db[n] \in Records
  BY DatabasesArePartial, PartialIs
<1>2. db \in FileContents
  BY <1>1, DatabasesArePartial, PartialIs
<1> QED
  BY <1>1, <1>2, SeenAssumption DEF Lines

\* What is read from a file: its whole lines.
LEMMA ReadableIs ==
  ASSUME NEW file \in FileContents
  PROVE  /\ Readable(file) \in Databases
         /\ DOMAIN Readable(file) = Lines(file)
         /\ \A n \in Lines(file) : Readable(file)[n] = file[n]
<1>1. Readable(file) = Keep(file, Lines(file))
  <2>1. file # NoFile
    BY SeenAssumption
  <2>2. DOMAIN file \cap Lines(file) = {m \in DOMAIN file : file[m] # Cut}
    BY DEF Lines
  <2> QED
    BY <2>1, <2>2 DEF Readable, Keep
<1>2. Lines(file) \subseteq DOMAIN file
  BY DEF Lines
<1>3. /\ Keep(file, Lines(file)) \in FileContents
      /\ DOMAIN Keep(file, Lines(file)) = Lines(file)
      /\ \A n \in Lines(file) : Keep(file, Lines(file))[n] = file[n]
  <2>1. DOMAIN file \cap Lines(file) = Lines(file)
    BY <1>2
  <2>2. file \in Partial(Records \cup {Cut})
    BY DatabasesArePartial
  <2>3. /\ Keep(file, Lines(file)) \in Partial(Records \cup {Cut})
        /\ DOMAIN Keep(file, Lines(file)) = DOMAIN file \cap Lines(file)
        /\ \A n \in DOMAIN file \cap Lines(file) : Keep(file, Lines(file))[n] = file[n]
    BY <2>2, KeepPartial
  <2> QED
    BY <2>1, <2>3, DatabasesArePartial
<1>4. \A n \in Lines(file) : file[n] \in Records
  BY DatabasesArePartial, PartialIs DEF Lines
<1>5. Keep(file, Lines(file)) \in Databases
  <2> DEFINE k == Keep(file, Lines(file))
  <2>1. k = [n \in DOMAIN k |-> k[n]] /\ DOMAIN k \subseteq Nicks
    BY <1>3, DatabasesArePartial, PartialIs
  <2>2. \A n \in DOMAIN k : k[n] \in Records
    BY <1>3, <1>4
  <2> HIDE DEF k
  <2>3. k \in Databases
    BY <2>1, <2>2, DatabasesArePartial, PartialIs
  <2> QED
    BY <2>3 DEF k
<1> QED
  BY <1>1, <1>3, <1>5

\* What is read of a file has no torn record.
LEMMA ReadableTyped ==
  ASSUME NEW file \in Files
  PROVE  Readable(file) \in Databases
<1>1. CASE file = NoFile
  BY <1>1, EmptyPartial, DatabasesArePartial DEF Readable
<1>2. CASE file \in FileContents
  BY <1>2, ReadableIs
<1> QED
  BY <1>1, <1>2 DEF Files

\* What was read has no news and no channel that the file has not.
LEMMA ReadableInherits ==
  ASSUME NEW file \in Files, NEW t, NEW c
  PROVE  /\ UpTo(file, t) => UpTo(Readable(file), t)
         /\ FreeOf(file, c) => FreeOf(Readable(file), c)
         /\ FreeOf(file, c) => \A n \in DOMAIN Readable(file) : Readable(file)[n].chan # c
<1>1. CASE file = NoFile
  <2>1. Readable(file) = Empty /\ DOMAIN Empty = {}
    BY <1>1, EmptyPartial DEF Readable
  <2>2. Lines(Empty) = {}
    BY <2>1 DEF Lines
  <2> QED
    BY <2>1, <2>2 DEF UpTo, FreeOf
<1>2. CASE file \in FileContents
  <2>1. /\ DOMAIN Readable(file) = Lines(file)
        /\ \A n \in Lines(file) : Readable(file)[n] = file[n]
        /\ file # NoFile
        /\ Lines(Readable(file)) = Lines(file)
    BY <1>2, ReadableIs, DatabaseIsFile, SeenAssumption
  <2> QED
    BY <2>1 DEF UpTo, FreeOf
<1> QED
  BY <1>1, <1>2 DEF Files

-----------------------------------------------------------------------------
(* The invariant holds initially, and every step keeps it.                  *)

\* The bot starts in the invariant.
LEMMA InitIInv == Init => IInv
<1> SUFFICES ASSUME Init PROVE IInv
  OBVIOUS
<1>1. Empty \in Databases /\ DOMAIN Empty = {} /\ Lines(Empty) = {}
  BY EmptyPartial, DatabasesArePartial DEF Lines
<1>2. Readable(main) = Empty /\ Readable(bak) = Empty
  BY DEF Init, Readable
<1>3. TypeOK
  <2>1. 1 \in 1 .. MaxTime
    BY SeenAssumption
  <2>2. [c \in Chans |-> "no"] \in [Chans -> Removal]
    BY DEF Removal
  <2>3. stage \in {"down", "up", "copied", "writing"} /\ left \subseteq DOMAIN list
    BY DEF Init
  <2> QED
    BY <1>1, <2>1, <2>2, <2>3 DEF Init, TypeOK
<1>4. StageInv /\ PartWritten /\ WholeCopies /\ StaysRemoved
  BY <1>2 DEF Init, StageInv, PartWritten, WholeCopies, StaysRemoved
<1>5. NothingNewer
  BY <1>1 DEF Init, NothingNewer, UpTo
<1> QED
  BY <1>3, <1>4, <1>5 DEF IInv

\* What the invariant says of the types.
LEMMA Typed ==
  ASSUME IInv
  PROVE  /\ list \in Databases /\ list \in Partial(Records) /\ Lines(list) = DOMAIN list
         /\ list # NoFile
         /\ main \in Files /\ bak \in Files /\ saved \in Databases
         /\ \A n \in DOMAIN list : list[n] \in Records /\ n \in Nicks
         /\ now \in 1 .. MaxTime /\ MaxTime \in Nat /\ now \in Nat /\ now >= 1
<1>1. list \in Databases /\ main \in Files /\ bak \in Files /\ saved \in Databases
  BY DEF IInv, TypeOK, Files
<1>2. list \in Partial(Records)
  BY <1>1, DatabasesArePartial
<1>3. now \in 1 .. MaxTime /\ MaxTime \in Nat
  BY SeenAssumption DEF IInv, TypeOK
<1>4. Lines(list) = DOMAIN list /\ list # NoFile
  BY <1>1, DatabaseIsFile
<1>5. \A n \in DOMAIN list : list[n] \in Records /\ n \in Nicks
  BY <1>2, PartialIs
<1> QED
  BY <1>1, <1>2, <1>3, <1>4, <1>5

\* While the bot runs and does not save, its memory changes alone.
LEMMA MemoryKeepsIInv ==
  ASSUME IInv, stage = "up", UNCHANGED <<now, stage, main, bak, left, saved, failed>>,
         list' \in Databases, \A n \in DOMAIN list' : list'[n].at <= now,
         forgotten' \in [Chans -> Removal],
         \A c \in Chans : forgotten'[c] = "disk" =>
             forgotten[c] = "disk" /\ \A n \in DOMAIN list' : list'[n].chan # c
  PROVE  IInv'
<1>1. Lines(list') = DOMAIN list'
  BY DatabaseIsFile
<1>2. TypeOK' /\ StageInv' /\ PartWritten'
  BY DEF IInv, TypeOK, StageInv, PartWritten
<1>3. WholeCopies'
  BY DEF IInv, WholeCopies
<1>4. StaysRemoved'
  BY <1>1 DEF IInv, StaysRemoved, FreeOf
<1>5. NothingNewer'
  BY <1>1 DEF IInv, NothingNewer, UpTo
<1> QED
  BY <1>2, <1>3, <1>4, <1>5 DEF IInv

\* A database with one record more.
LEMMA RecordLaidOver ==
  ASSUME NEW db \in Databases, NEW n \in Nicks, NEW r \in Records
  PROVE  /\ With(db, n, r) \in Databases
         /\ DOMAIN With(db, n, r) = DOMAIN db \cup {n}
         /\ \A m \in DOMAIN With(db, n, r) :
               With(db, n, r)[m] = IF m = n THEN r ELSE db[m]
<1> DEFINE new == With(db, n, r)
<1>1. new = [m \in DOMAIN db \cup {n} |-> IF m = n THEN r ELSE db[m]]
  BY WithIs
<1> HIDE DEF new
<1>2. /\ DOMAIN new = DOMAIN db \cup {n}
      /\ \A m \in DOMAIN new : new[m] = IF m = n THEN r ELSE db[m]
      /\ new = [m \in DOMAIN new |-> new[m]]
  BY <1>1
<1>3. DOMAIN db \subseteq Nicks /\ \A m \in DOMAIN db : db[m] \in Records
  BY DatabasesArePartial, PartialIs
<1>4. new \in Databases
  <2>1. DOMAIN new \subseteq Nicks /\ \A m \in DOMAIN new : new[m] \in Records
    BY <1>2, <1>3
  <2> QED
    BY <1>2, <2>1, DatabasesArePartial, PartialIs
<1> QED
  BY <1>2, <1>4 DEF new

\* One record more.
LEMMA WithRecord ==
  ASSUME NEW db \in Databases, NEW n \in Nicks, NEW c \in Chans, NEW t \in 0 .. MaxTime,
         NEW u \in Nat, t <= u, \A m \in DOMAIN db : db[m].at <= u
  PROVE  LET new == With(db, n, [chan |-> c, at |-> t]) IN
         /\ new \in Databases
         /\ \A m \in DOMAIN new : new[m].at <= u
         /\ \A d \in Chans \ {c} : (\A m \in DOMAIN db : db[m].chan # d)
                                       => \A m \in DOMAIN new : new[m].chan # d
<1> DEFINE r == [chan |-> c, at |-> t]
           new == With(db, n, r)
<1>1. r \in Records /\ r.chan = c /\ r.at = t
  BY DEF Records
<1> HIDE DEF r
<1>2. /\ new \in Databases
      /\ DOMAIN new = DOMAIN db \cup {n}
      /\ new[n] = r
      /\ \A m \in DOMAIN db \ {n} : new[m] = db[m]
  <2>1. /\ new \in Databases
        /\ DOMAIN new = DOMAIN db \cup {n}
    BY <1>1, RecordLaidOver
  <2>2. new = [m \in DOMAIN db \cup {n} |-> IF m = n THEN r ELSE db[m]]
    BY WithIs
  <2> HIDE DEF new
  <2> QED
    BY <2>1, <2>2
<1> HIDE DEF new
<1>3. \A m \in DOMAIN new : m = n \/ (m \in DOMAIN db /\ new[m] = db[m])
  BY <1>2
<1>4. \A m \in DOMAIN new : new[m].at <= u
  BY <1>1, <1>2, <1>3
<1>5. \A d \in Chans \ {c} : (\A m \in DOMAIN db : db[m].chan # d)
                                 => \A m \in DOMAIN new : new[m].chan # d
  BY <1>1, <1>2, <1>3
<1> QED
  BY <1>2, <1>4, <1>5 DEF new, r

\* What happens in memory keeps the invariant: the files stay as they are.
LEMMA EventsKeepIInv == ASSUME IInv, Events PROVE IInv'
<1>1. \A n \in DOMAIN list : list[n].at <= now
  BY Typed DEF IInv, NothingNewer, UpTo
<1>2. \A c \in Chans : forgotten[c] = "disk" => \A n \in DOMAIN list : list[n].chan # c
  BY Typed DEF IInv, StaysRemoved, FreeOf
<1>3. ASSUME NEW c \in Chans, forgotten' = Seen(c)
      PROVE  /\ forgotten' \in [Chans -> Removal]
             /\ \A d \in Chans : forgotten'[d] = "disk" => d # c /\ forgotten[d] = "disk"
  BY <1>3 DEF Seen, IInv, TypeOK, Removal
<1>4. ASSUME NEW S, list' = Keep(list, S), forgotten' \in [Chans -> Removal],
             \A c \in Chans : forgotten'[c] = "disk" => forgotten[c] = "disk",
             stage = "up", UNCHANGED <<now, stage, main, bak, left, saved, failed>>
      PROVE  IInv'
  <2>1. /\ list' \in Databases
        /\ DOMAIN list' \subseteq DOMAIN list
        /\ \A n \in DOMAIN list' : list'[n] = list[n]
    <3>1. /\ Keep(list, S) \in Partial(Records)
          /\ DOMAIN Keep(list, S) = DOMAIN list \cap S
          /\ \A n \in DOMAIN list \cap S : Keep(list, S)[n] = list[n]
      BY Typed, KeepPartial
    <3> QED
      BY <1>4, <3>1, DatabasesArePartial
  <2> QED
    BY <1>1, <1>2, <1>4, <2>1, MemoryKeepsIInv
<1>5. ASSUME NEW n \in Nicks, NEW c \in Chans, Log(n, c) PROVE IInv'
  <2>1. now \in 0 .. MaxTime /\ now \in Nat /\ now <= now
    BY Typed
  <2>2. /\ list' \in Databases
        /\ \A m \in DOMAIN list' : list'[m].at <= now
        /\ \A d \in Chans \ {c} : (\A m \in DOMAIN list : list[m].chan # d)
                                      => \A m \in DOMAIN list' : list'[m].chan # d
    BY <1>1, <1>5, <2>1, Typed, WithRecord DEF Log
  <2>3. forgotten' = Seen(c) /\ stage = "up"
        /\ UNCHANGED <<now, stage, main, bak, left, saved, failed>>
    BY <1>5 DEF Log, clock, disk
  <2> QED
    BY <1>2, <1>3, <2>2, <2>3, MemoryKeepsIInv
<1>6. ASSUME NEW n \in Nicks, NEW m \in Nicks, NEW c \in Chans, Rename(n, m, c) PROVE IInv'
  <2> DEFINE old == With(list, n, [chan |-> c, at |-> now - 1])
  <2>1. now \in 0 .. MaxTime /\ now - 1 \in 0 .. MaxTime /\ now \in Nat
        /\ now <= now /\ now - 1 <= now
    BY Typed
  <2>2. /\ old \in Databases
        /\ \A k \in DOMAIN old : old[k].at <= now
        /\ \A d \in Chans \ {c} : (\A k \in DOMAIN list : list[k].chan # d)
                                      => \A k \in DOMAIN old : old[k].chan # d
    BY <1>1, <2>1, Typed, WithRecord
  <2>3. list' = With(old, m, [chan |-> c, at |-> now])
    BY <1>6 DEF Rename
  <2> HIDE DEF old
  <2>4. /\ list' \in Databases
        /\ \A k \in DOMAIN list' : list'[k].at <= now
        /\ \A d \in Chans \ {c} : (\A k \in DOMAIN old : old[k].chan # d)
                                      => \A k \in DOMAIN list' : list'[k].chan # d
    BY <2>1, <2>2, <2>3, WithRecord
  <2>5. forgotten' = Seen(c) /\ stage = "up"
        /\ UNCHANGED <<now, stage, main, bak, left, saved, failed>>
    BY <1>6 DEF Rename, clock, disk
  <2> QED
    BY <1>2, <1>3, <2>2, <2>4, <2>5, MemoryKeepsIInv
<1>7. ASSUME NEW c \in Chans, Unseen(c) PROVE IInv'
  <2>1. forgotten' \in [Chans -> Removal]
        /\ \A d \in Chans : forgotten'[d] = "disk" => forgotten[d] = "disk"
    BY <1>7 DEF Unseen, IInv, TypeOK, Removal
  <2> QED
    BY <1>4, <1>7, <2>1 DEF Unseen, clock, disk
<1>8. CASE Trim
  <2>1. forgotten' \in [Chans -> Removal]
    BY <1>8 DEF Trim, IInv, TypeOK
  <2> QED
    BY <1>4, <1>8, <2>1 DEF Trim, clock, disk
<1> QED
  BY <1>5, <1>6, <1>7, <1>8 DEF Events

\* A part of a file says no more than the file.
LEMMA PartOfFile ==
  ASSUME NEW file \in FileContents, NEW S, NEW t, UpTo(file, t)
  PROVE  Keep(file, S) \in FileContents /\ UpTo(Keep(file, S), t)
<1>1. /\ Keep(file, S) \in Partial(Records \cup {Cut})
      /\ DOMAIN Keep(file, S) = DOMAIN file \cap S
      /\ \A n \in DOMAIN file \cap S : Keep(file, S)[n] = file[n]
  BY DatabasesArePartial, KeepPartial
<1>2. file # NoFile
  BY SeenAssumption
<1> QED
  BY <1>1, <1>2, DatabasesArePartial DEF UpTo, Lines

\* The steps of the save that leave memory and data file alone.
LEMMA CopyKeepsIInv ==
  ASSUME IInv, stage' \in {"up", "copied", "down"}, left = {}, left' = {},
         UNCHANGED <<now, main, forgotten>>,
         list' = (IF stage' = "down" THEN Empty ELSE list),
         bak' \in Files, UpTo(bak', now), saved' \in Databases, failed' \in BOOLEAN,
         stage' # "down" /\ main = NoFile => bak' = NoFile,
         ~failed' => /\ saved' = Readable(main)
                     /\ stage' = "copied" => saved' = Readable(bak')
  PROVE  IInv'
<1>1. Empty \in Databases /\ DOMAIN Empty = {} /\ Lines(Empty) = {}
  BY EmptyPartial, DatabasesArePartial DEF Lines
<1>2. list' \in Databases
  BY <1>1, Typed
<1>3. TypeOK'
  BY <1>2 DEF IInv, TypeOK, Files
<1>4. StageInv' /\ PartWritten' /\ WholeCopies'
  BY DEF StageInv, PartWritten, WholeCopies
<1>5. StaysRemoved'
  BY <1>1 DEF IInv, StaysRemoved, FreeOf
<1>6. NothingNewer'
  BY <1>1 DEF IInv, NothingNewer, UpTo
<1> QED
  BY <1>3, <1>4, <1>5, <1>6 DEF IInv

\* The steps of the save up to the truncation of the data file.
LEMMA CopyingKeepsIInv ==
  ASSUME IInv, SaveSkipped \/ Copy \/ CopyFails \/ CopyCut \/ OpenFails
  PROVE  IInv'
<1>0. stage # "writing" => left = {}
  BY DEF IInv, StageInv
<1>1. /\ UpTo(main, now) /\ UpTo(bak, now) /\ main \in Files /\ bak \in Files
      /\ saved \in Databases /\ Empty \in Databases
  BY Typed, EmptyPartial, DatabasesArePartial DEF IInv, NothingNewer
<1>2. CASE SaveSkipped
  <2>1. forgotten' \in [Chans -> Removal]
        /\ \A c \in Chans : forgotten'[c] = "disk" => forgotten[c] = "disk"
    BY <1>2 DEF SaveSkipped, IInv, TypeOK, Removal
  <2>2. \A n \in DOMAIN list : list[n].at <= now
    BY Typed DEF IInv, NothingNewer, UpTo
  <2>3. \A c \in Chans : forgotten[c] = "disk" => \A n \in DOMAIN list : list[n].chan # c
    BY Typed DEF IInv, StaysRemoved, FreeOf
  <2> QED
    BY <1>2, <2>1, <2>2, <2>3, Typed, MemoryKeepsIInv DEF SaveSkipped, clock, disk
<1>3. CASE Copy
  <2>1. stage = "up" /\ stage' = "copied" /\ left' = left
        /\ UNCHANGED <<now, list, main, saved, failed, forgotten>>
        /\ bak' = IF main = NoFile THEN bak ELSE main
    BY <1>3 DEF Copy, SaveDue, clock, memory
  <2>2. bak' \in Files /\ UpTo(bak', now)
    BY <1>1, <2>1
  <2>3. main = NoFile => bak' = NoFile
    BY <2>1 DEF IInv, StageInv
  <2>4. ~failed => saved = Readable(main)
    BY <2>1 DEF IInv, WholeCopies
  <2>5. bak' = main
    BY <2>1, <2>3
  <2>6. failed' \in BOOLEAN
    BY <2>1 DEF IInv, TypeOK
  <2> QED
    BY <1>0, <1>1, <2>1, <2>2, <2>3, <2>4, <2>5, <2>6, CopyKeepsIInv
<1>4. CASE CopyFails
  <2>1. stage = "up" /\ stage' = "copied" /\ left' = left /\ failed' = TRUE
        /\ UNCHANGED <<now, list, main, forgotten>> /\ main # NoFile /\ saved' = Empty
    BY <1>4 DEF CopyFails, SaveDue, clock, memory
  <2>2. bak' = bak \/ \E S \in SUBSET DOMAIN main : bak' = Keep(main, S)
    BY <1>4 DEF CopyFails
  <2>3. bak' \in Files /\ UpTo(bak', now)
    BY <1>1, <2>1, <2>2, PartOfFile DEF Files
  <2> QED
    BY <1>0, <1>1, <2>1, <2>3, CopyKeepsIInv
<1>5. CASE CopyCut
  <2>1. stage = "up" /\ stage' = "down" /\ left' = left /\ list' = Empty
        /\ UNCHANGED <<now, main, saved, failed, forgotten>> /\ main # NoFile
    BY <1>5 DEF CopyCut, SaveDue, clock
  <2>2. PICK S \in SUBSET DOMAIN main : bak' = Keep(main, S)
    BY <1>5 DEF CopyCut
  <2>3. bak' \in Files /\ UpTo(bak', now)
    BY <1>1, <2>1, <2>2, PartOfFile DEF Files
  <2>4. ~failed => saved = Readable(main)
    BY <2>1 DEF IInv, WholeCopies
  <2>5. failed' \in BOOLEAN
    BY <2>1 DEF IInv, TypeOK
  <2> QED
    BY <1>0, <1>1, <2>1, <2>3, <2>4, <2>5, CopyKeepsIInv
<1>6. CASE OpenFails
  <2>1. stage = "copied" /\ stage' = "up" /\ left' = left /\ failed' = TRUE
        /\ UNCHANGED <<now, list, main, bak, forgotten>> /\ saved' = Empty
    BY <1>6 DEF OpenFails, clock, memory
  <2>2. main = NoFile => bak' = NoFile
    BY <2>1 DEF IInv, StageInv
  <2> QED
    BY <1>0, <1>1, <2>1, <2>2, CopyKeepsIInv
<1> QED
  BY <1>2, <1>3, <1>4, <1>5, <1>6

\* The steps of the save that write the data file.
LEMMA WritingKeepsIInv ==
  ASSUME IInv,
         \/ Truncate \/ WriteFails \/ Close
         \/ \E n \in Nicks : WriteHalf(n) \/ WriteRest(n)
  PROVE  IInv'
<1>0. /\ stage # "writing" => left = {}
      /\ stage = "writing" => /\ main # NoFile /\ main \in FileContents
                              /\ DOMAIN list \ left \subseteq DOMAIN main
                              /\ DOMAIN main \subseteq DOMAIN list
                              /\ \A m \in DOMAIN main : main[m] = IF m \in left THEN Cut ELSE list[m]
  BY Typed DEF IInv, StageInv, PartWritten, Files
<1>1. UpTo(main, now) /\ UpTo(bak, now) /\ main \in Files /\ bak \in Files
  BY Typed DEF IInv, NothingNewer
<1>2. \A m \in DOMAIN list : list[m] # Cut /\ list[m].at <= now /\ list[m] \in Records
  BY Typed, SeenAssumption DEF IInv, NothingNewer, UpTo
<1>3. \A c \in Chans : forgotten[c] = "disk" => \A m \in DOMAIN list : list[m].chan # c
  BY Typed DEF IInv, StaysRemoved, FreeOf
<1>4. /\ left \subseteq DOMAIN list /\ failed \in BOOLEAN /\ forgotten \in [Chans -> Removal]
      /\ now \in 1 .. MaxTime /\ list \in Databases /\ saved \in Databases
      /\ bak \in FileContents \cup {NoFile} /\ Empty \in Databases
  BY EmptyPartial, DatabasesArePartial DEF IInv, TypeOK
\* Whatever is written is part of the database in memory.
<1>5. ASSUME stage' \in {"writing", "up"}, UNCHANGED <<now, list, bak>>,
             main' \in FileContents, DOMAIN main' \subseteq DOMAIN list,
             left' \subseteq DOMAIN list,
             stage' = "writing" => DOMAIN list \ left' \subseteq DOMAIN main',
             stage' = "up" => left' = {},
             \A m \in DOMAIN main' : main'[m] = Cut \/ main'[m] = list[m],
             stage' = "writing" =>
                 \A m \in DOMAIN main' : main'[m] = IF m \in left' THEN Cut ELSE list[m],
             saved' \in Databases, failed' \in BOOLEAN, forgotten' \in [Chans -> Removal],
             \A c \in Chans : forgotten'[c] = "disk" => \A m \in DOMAIN list : list[m].chan # c,
             stage' = "up" /\ ~failed' => saved' = Readable(main'),
             stage' = "writing" /\ ~failed' => saved' = Readable(bak)
      PROVE  IInv'
  <2>1. main' # NoFile
    BY <1>5, SeenAssumption
  <2>2. \A m \in Lines(main') : m \in DOMAIN list /\ main'[m] = list[m]
    BY <1>5 DEF Lines
  <2>3. TypeOK'
    BY <1>4, <1>5 DEF TypeOK
  <2>4. StageInv' /\ PartWritten'
    BY <1>5, <2>1 DEF StageInv, PartWritten
  <2>5. WholeCopies'
    BY <1>5 DEF WholeCopies
  <2>6. StaysRemoved'
    BY <1>5, <2>1, <2>2, Typed DEF StaysRemoved, FreeOf
  <2>7. NothingNewer'
    <3>1. UpTo(main', now)
      BY <1>2, <2>2 DEF UpTo
    <3> QED
      BY <1>5, <3>1 DEF IInv, NothingNewer
  <2> QED
    BY <2>3, <2>4, <2>5, <2>6, <2>7 DEF IInv
<1>6. CASE Truncate
  <2>1. /\ stage = "copied" /\ stage' = "writing" /\ main' = Empty /\ left' = DOMAIN list
        /\ UNCHANGED <<now, list, bak, saved, failed, forgotten>>
    BY <1>6 DEF Truncate, clock, memory
  <2>2. main' \in FileContents /\ DOMAIN main' = {}
    BY <2>1, EmptyPartial, DatabasesArePartial
  <2>3. ~failed => saved = Readable(bak)
    BY <2>1 DEF IInv, WholeCopies
  <2> QED
    BY <1>3, <1>4, <1>5, <2>1, <2>2, <2>3
<1>7. ASSUME NEW n \in Nicks, WriteHalf(n) PROVE IInv'
  <2>1. /\ stage = "writing" /\ stage' = "writing" /\ main' = With(main, n, Cut) /\ n \in left
        /\ UNCHANGED <<now, list, bak, left, saved, failed, forgotten>>
    BY <1>7 DEF WriteHalf, clock, memory
  <2>2. /\ main' \in FileContents /\ DOMAIN main' = DOMAIN main \cup {n} /\ main'[n] = Cut
        /\ \A m \in DOMAIN main \ {n} : main'[m] = main[m]
    <3>1. main \in FileContents /\ Cut \in Records \cup {Cut}
      BY <1>0, <2>1
    <3> DEFINE t == Cut
    <3>2. t \in Records \cup {Cut} /\ main' = With(main, n, t)
      BY <2>1
    <3> HIDE DEF t
    <3>3. With(main, n, t) \in FileContents /\ With(main, n, t)[n] = t
      BY <3>1, <3>2, WithLine
    <3>8. DOMAIN With(main, n, t) = DOMAIN main \cup {n}
      BY <3>1, <3>2, WithLine
    <3>4. With(main, n, t) = [m \in DOMAIN main \cup {n} |-> IF m = n THEN t ELSE main[m]]
      BY WithIs
    <3>5. main' \in FileContents /\ DOMAIN main' = DOMAIN main \cup {n}
      BY <3>2, <3>3, <3>8
    <3>6. main'[n] = Cut
      BY <3>2, <3>3 DEF t
    <3>7. \A m \in DOMAIN main \ {n} : main'[m] = main[m]
      BY <3>2, <3>4
    <3> QED
      BY <3>5, <3>6, <3>7
  <2>3. \A m \in DOMAIN main' : main'[m] = IF m \in left THEN Cut ELSE list[m]
    BY <1>0, <2>1, <2>2
  <2>4. ~failed => saved = Readable(bak)
    BY <2>1 DEF IInv, WholeCopies
  <2> QED
    BY <1>0, <1>3, <1>4, <1>5, <2>1, <2>2, <2>3, <2>4
<1>8. ASSUME NEW n \in Nicks, WriteRest(n) PROVE IInv'
  <2>1. /\ stage = "writing" /\ stage' = "writing" /\ main' = With(main, n, list[n])
        /\ n \in left \cap DOMAIN main /\ left' = left \ {n}
        /\ UNCHANGED <<now, list, bak, saved, failed, forgotten>>
    BY <1>8 DEF WriteRest, clock, memory
  <2>2. list[n] \in Records \cup {Cut}
    BY <1>2, <1>4, <2>1
  <2>3. /\ main' \in FileContents /\ DOMAIN main' = DOMAIN main \cup {n} /\ main'[n] = list[n]
        /\ \A m \in DOMAIN main \ {n} : main'[m] = main[m]
    <3> DEFINE t == list[n]
               new == With(main, n, t)
    <3>1. main \in FileContents /\ t \in Records \cup {Cut} /\ main' = new
      BY <1>0, <2>1, <2>2
    <3> HIDE DEF t
    <3>2. new \in FileContents /\ DOMAIN new = DOMAIN main \cup {n}
      BY <3>1, WithLine
    <3>3. new = [m \in DOMAIN main \cup {n} |-> IF m = n THEN t ELSE main[m]]
      BY WithIs
    <3> HIDE DEF new
    <3>4. main'[n] = t /\ \A m \in DOMAIN main \ {n} : main'[m] = main[m]
      BY <3>1, <3>3
    <3> QED
      BY <3>1, <3>2, <3>4 DEF t
  <2>4. \A m \in DOMAIN main' : main'[m] = IF m \in left' THEN Cut ELSE list[m]
    BY <1>0, <2>1, <2>3
  <2>5. ~failed => saved = Readable(bak)
    BY <2>1 DEF IInv, WholeCopies
  <2> QED
    BY <1>0, <1>3, <1>4, <1>5, <2>1, <2>3, <2>4, <2>5
<1>9. CASE WriteFails
  <2>1. /\ stage = "writing" /\ stage' = "up" /\ left' = {} /\ failed' = TRUE
        /\ UNCHANGED <<now, list, main, bak, forgotten>> /\ saved' = Empty
    BY <1>9 DEF WriteFails, clock, memory
  <2> QED
    BY <1>0, <1>3, <1>4, <1>5, <2>1
<1>10. CASE Close
  <2>1. /\ stage = "writing" /\ left = {} /\ stage' = "up" /\ left' = {}
        /\ saved' = list /\ failed' = FALSE
        /\ UNCHANGED <<now, list, main, bak>>
    BY <1>10 DEF Close, clock
  <2>2. DOMAIN main = DOMAIN list /\ \A m \in DOMAIN main : main[m] = list[m]
    BY <1>0, <2>1
  <2>3. Readable(main) = list
    <3>1. Lines(main) = DOMAIN list
      BY <1>2, <2>2 DEF Lines
    <3>2. /\ DOMAIN Readable(main) = DOMAIN list
          /\ \A m \in DOMAIN list : Readable(main)[m] = list[m]
          /\ Readable(main) \in Databases
      BY <1>0, <2>1, <2>2, <3>1, ReadableIs
    <3>3. /\ Readable(main) = [m \in DOMAIN Readable(main) |-> Readable(main)[m]]
          /\ list = [m \in DOMAIN list |-> list[m]]
      BY <1>4, <3>2, DatabasesArePartial, PartialIs
    <3> QED
      BY <3>2, <3>3
  <2>4. forgotten' \in [Chans -> Removal]
    BY <1>4, <1>10 DEF Close, Removal
  <2>5. \A c \in Chans : forgotten'[c] = "disk" => \A m \in DOMAIN list : list[m].chan # c
    BY <1>10 DEF Close, On
  <2> QED
    BY <1>0, <1>4, <1>5, <2>1, <2>2, <2>3, <2>4, <2>5
<1> QED
  BY <1>6, <1>7, <1>8, <1>9, <1>10

\* A start, or a rehash with nothing in memory.
LEMMA ReadKeepsIInv ==
  ASSUME IInv, stage \in {"down", "up"}, DOMAIN list = {}, Read, stage' = "up"
  PROVE  IInv'
<1>1. /\ main' = (IF main = NoFile THEN bak ELSE main)
      /\ saved' = Readable(main') /\ failed' = FALSE
      /\ UNCHANGED <<now, bak, left, forgotten>>
  BY DEF Read, clock
<1>2. main' \in Files /\ UpTo(main', now)
  BY <1>1, Typed DEF IInv, NothingNewer
<1>3. list' = Readable(main')
  <2>1. Readable(main') \in Partial(Records)
    BY <1>2, ReadableTyped, DatabasesArePartial
  <2> DEFINE new == Readable(main')
  <2>2. list' = Over(new, list)
    BY DEF Read
  <2>3. new = [n \in DOMAIN new |-> new[n]]
    BY <2>1, PartialIs
  <2> HIDE DEF new
  <2>4. Over(new, list) = new
    <3>1. DOMAIN new \cup DOMAIN list = DOMAIN new
      OBVIOUS
    <3>2. Over(new, list) = [n \in DOMAIN new |-> new[n]]
      BY <3>1 DEF Over
    <3> QED
      BY <2>3, <3>2
  <2> QED
    BY <2>2, <2>4 DEF new
<1>4. list' \in Databases /\ saved' \in Databases
  BY <1>1, <1>2, <1>3, ReadableTyped
<1>5. left = {} /\ (main = NoFile /\ stage = "up" => bak = NoFile)
  BY DEF IInv, StageInv
<1>6. TypeOK'
  BY <1>1, <1>2, <1>4, <1>5 DEF IInv, TypeOK, Files
<1>7. StageInv' /\ PartWritten' /\ WholeCopies'
  BY <1>1, <1>5 DEF StageInv, PartWritten, WholeCopies
<1>8. StaysRemoved'
  <2> SUFFICES ASSUME NEW c \in Chans, forgotten[c] = "disk"
               PROVE  main' # NoFile /\ FreeOf(list', c) /\ FreeOf(main', c)
    BY <1>1 DEF StaysRemoved
  <2>1. main # NoFile /\ FreeOf(main, c)
    BY DEF IInv, StaysRemoved
  <2> QED
    BY <1>1, <1>2, <1>3, <2>1, ReadableInherits
<1>9. NothingNewer'
  <2>1. UpTo(list', now)
    BY <1>2, <1>3, ReadableInherits
  <2> QED
    BY <1>1, <1>2, <2>1 DEF IInv, NothingNewer
<1> QED
  BY <1>6, <1>7, <1>8, <1>9 DEF IInv

\* The bot stops, its data file is lost, or restoring it breaks off.
LEMMA LossKeepsIInv == ASSUME IInv, Stop \/ LoseMain \/ RestoreBreaksOff PROVE IInv'
<1>1. Empty \in Databases /\ DOMAIN Empty = {} /\ Lines(Empty) = {}
  BY EmptyPartial, DatabasesArePartial DEF Lines
<1>2. CASE Stop
  <2>1. /\ stage' = "down" /\ list' = Empty /\ left' = {}
        /\ UNCHANGED <<now, main, bak, saved, failed, forgotten>>
    BY <1>2 DEF Stop, clock, disk
  <2>2. TypeOK'
    BY <1>1, <2>1 DEF IInv, TypeOK
  <2>3. StageInv' /\ PartWritten'
    BY <2>1 DEF StageInv, PartWritten
  <2>4. WholeCopies'
    BY <2>1 DEF IInv, WholeCopies
  <2>5. StaysRemoved' /\ NothingNewer'
    BY <1>1, <2>1 DEF IInv, StaysRemoved, NothingNewer, FreeOf, UpTo
  <2> QED
    BY <2>2, <2>3, <2>4, <2>5 DEF IInv
<1>3. CASE LoseMain
  <2>1. /\ stage = "down" /\ stage' = "down" /\ main' = NoFile /\ failed' = TRUE
        /\ UNCHANGED <<now, list, bak, left>> /\ saved' = Empty
    BY <1>3 DEF LoseMain, clock
  <2>2. /\ forgotten' \in [Chans -> Removal]
        /\ \A c \in Chans : forgotten'[c] # "disk"
    BY <1>3 DEF LoseMain, IInv, TypeOK, Removal
  <2>3. TypeOK'
    BY <1>1, <2>1, <2>2 DEF IInv, TypeOK
  <2>4. StageInv' /\ PartWritten' /\ WholeCopies' /\ StaysRemoved'
    BY <2>1, <2>2 DEF IInv, StageInv, PartWritten, WholeCopies, StaysRemoved
  <2>5. NothingNewer'
    BY <2>1 DEF IInv, NothingNewer, UpTo
  <2> QED
    BY <2>3, <2>4, <2>5 DEF IInv
<1>4. CASE RestoreBreaksOff
  <2>1. /\ stage \in {"down", "up"} /\ stage' = "down" /\ list' = Empty
        /\ main = NoFile /\ bak # NoFile /\ failed' = TRUE /\ saved' = Empty
        /\ UNCHANGED <<now, bak, left, forgotten>>
    BY <1>4 DEF RestoreBreaksOff, clock
  <2>2. bak \in FileContents /\ UpTo(bak, now) /\ left = {}
    BY <2>1, Typed DEF Files, IInv, NothingNewer, StageInv
  <2>3. main' = NoFile \/ \E S \in SUBSET DOMAIN bak : main' = Keep(bak, S)
    BY <1>4 DEF RestoreBreaksOff
  <2>4. main' \in Files /\ UpTo(main', now)
    BY <2>2, <2>3, PartOfFile DEF Files, UpTo
  <2>5. TypeOK'
    BY <1>1, <2>1, <2>2, <2>4 DEF IInv, TypeOK, Files
  <2>6. StageInv' /\ PartWritten' /\ WholeCopies'
    BY <2>1, <2>2 DEF StageInv, PartWritten, WholeCopies
  <2>7. StaysRemoved'
    BY <2>1 DEF IInv, StaysRemoved
  <2>8. NothingNewer'
    BY <1>1, <2>1, <2>2, <2>4 DEF NothingNewer, UpTo
  <2> QED
    BY <2>5, <2>6, <2>7, <2>8 DEF IInv
<1> QED
  BY <1>2, <1>3, <1>4

\* So does the clock: what was past remains past.
LEMMA TickKeepsIInv == ASSUME IInv, Tick PROVE IInv'
<1>1. now' = now + 1 /\ now' \in 1 .. MaxTime
      /\ UNCHANGED <<stage, list, forgotten, main, bak, saved, failed, left>>
  BY Typed DEF Tick, memory, disk
<1>2. ASSUME NEW file \in Files, UpTo(file, now) PROVE UpTo(file, now')
  <2>1. file # NoFile => \A n \in Lines(file) : file[n].at \in 0 .. MaxTime
    <3>1. file # NoFile => \A n \in Lines(file) : file[n] \in Records
      BY DatabasesArePartial, PartialIs DEF Files, Lines
    <3> QED
      BY <3>1 DEF Records
  <2> QED
    BY <1>1, <1>2, <2>1, Typed DEF UpTo
<1>3. TypeOK' /\ StageInv' /\ PartWritten' /\ WholeCopies' /\ StaysRemoved'
  BY <1>1 DEF IInv, TypeOK, StageInv, PartWritten, WholeCopies, StaysRemoved
<1>4. list \in Files
  BY Typed, DatabaseIsFile DEF Files
<1>5. UpTo(list, now') /\ UpTo(main, now') /\ UpTo(bak, now')
  BY <1>2, <1>4, Typed DEF IInv, NothingNewer
<1>6. NothingNewer'
  BY <1>1, <1>5 DEF NothingNewer
<1> QED
  BY <1>3, <1>6 DEF IInv

\* Every step keeps the invariant.
LEMMA StepIInv == IInv /\ [Next]_vars => IInv'
<1> SUFFICES ASSUME IInv, [Next]_vars PROVE IInv'
  OBVIOUS
<1>1. CASE Events
  BY <1>1, EventsKeepIInv
<1>2. CASE Save
  <2>1. CASE SaveSkipped \/ Copy \/ CopyFails \/ CopyCut \/ OpenFails
    BY <2>1, CopyingKeepsIInv
  <2>2. CASE \/ Truncate \/ WriteFails \/ Close
             \/ \E n \in Nicks : WriteHalf(n) \/ WriteRest(n)
    BY <2>2, WritingKeepsIInv
  <2> QED
    BY <1>2, <2>1, <2>2 DEF Save
<1>3. CASE Stop \/ LoseMain \/ RestoreBreaksOff
  BY <1>3, LossKeepsIInv
<1>4. CASE Start
  <2>1. DOMAIN list = {}
    BY <1>4, EmptyPartial DEF Start, IInv, StageInv
  <2> QED
    BY <1>4, <2>1, ReadKeepsIInv DEF Start
<1>5. CASE Rehash
  BY <1>5, ReadKeepsIInv DEF Rehash
<1>6. CASE Tick
  BY <1>6, TickKeepsIInv
<1>7. CASE UNCHANGED vars
  BY <1>7 DEF vars, IInv, TypeOK, StageInv, PartWritten, WholeCopies, StaysRemoved,
              NothingNewer
<1> QED
  BY <1>1, <1>2, <1>3, <1>4, <1>5, <1>6, <1>7 DEF Next

\* The invariant of every behaviour of the bot and its files.
LEMMA Invariance == Spec => []IInv
  BY InitIInv, StepIInv, PTL DEF Spec

-----------------------------------------------------------------------------
\* Memory, files and the progress of a save keep their types.
THEOREM TypeCorrect == Spec => []TypeOK
<1>1. IInv => TypeOK
  BY DEF IInv
<1> QED
  BY <1>1, Invariance, PTL

\* Wherever a save is cut off, one of the two files holds the whole database.
THEOREM WholeCopyRemains == Spec => []OneCopyIsWhole
<1>1. IInv => OneCopyIsWhole
  BY DEF IInv, WholeCopies, OneCopyIsWhole
<1> QED
  BY <1>1, Invariance, PTL

\* A channel whose removal was saved does not come back by itself.
THEOREM RemovedStaysRemoved == Spec => []UnseenSticks
<1>1. IInv => UnseenSticks
  <2> SUFFICES ASSUME IInv, NEW c \in Chans, forgotten[c] = "disk",
                      NEW db \in {list, Readable(main)}, NEW n \in DOMAIN db
               PROVE  db[n].chan # c
    BY DEF UnseenSticks
  <2>1. FreeOf(list, c) /\ FreeOf(main, c)
    BY DEF IInv, StaysRemoved
  <2>2. CASE db = list
    BY <2>1, <2>2, Typed DEF FreeOf
  <2>3. CASE db = Readable(main)
    BY <2>1, <2>3, Typed, ReadableInherits
  <2> QED
    BY <2>2, <2>3
<1> QED
  BY <1>1, Invariance, PTL

\* What the running bot knows of a nick gets at most a second older.
THEOREM NothingGoesBack == Spec => NeverGoesBack
<1>1. ASSUME IInv, [Next]_vars, stage' # "down", NEW n \in DOMAIN list \cap DOMAIN list'
      PROVE  list'[n].at >= list[n].at - 1
  <2>1. list[n] \in Records /\ list[n].at <= now /\ now \in Nat
    BY <1>1, Typed DEF IInv, NothingNewer, UpTo
  <2>2. list[n].at \in Int
    BY <2>1 DEF Records
  <2>3. CASE list' = list
    BY <2>2, <2>3
  <2>4. ASSUME NEW S, list' = Keep(list, S) PROVE list'[n].at >= list[n].at - 1
    BY <1>1, <2>2, <2>4 DEF Keep
  <2>5. ASSUME NEW m \in Nicks, NEW c \in Chans, Log(m, c)
        PROVE  list'[n].at >= list[n].at - 1
    <3>1. list' = With(list, m, [chan |-> c, at |-> now])
      BY <2>5 DEF Log
    <3>2. list'[n] = list[n] \/ list'[n] = [chan |-> c, at |-> now]
      BY <3>1 DEF With, Over
    <3> QED
      BY <2>1, <2>2, <3>2
  <2>6. ASSUME NEW m \in Nicks, NEW k \in Nicks, NEW c \in Chans, Rename(m, k, c)
        PROVE  list'[n].at >= list[n].at - 1
    <3> DEFINE old == With(list, m, [chan |-> c, at |-> now - 1])
    <3>1. list' = With(old, k, [chan |-> c, at |-> now])
      BY <2>6 DEF Rename
    <3>2. old[n] = list[n] \/ old[n] = [chan |-> c, at |-> now - 1]
      BY DEF With, Over
    <3>3. n \in DOMAIN old
      BY DEF With, Over
    <3> HIDE DEF old
    <3>4. list'[n] = old[n] \/ list'[n] = [chan |-> c, at |-> now]
      BY <3>1, <3>3 DEF With, Over
    <3> QED
      BY <2>1, <2>2, <3>2, <3>4
  <2>7. CASE Events
    BY <2>4, <2>5, <2>6, <2>7 DEF Events, Unseen, Trim
  <2>8. CASE Save
    BY <1>1, <2>3, <2>8 DEF Save, SaveSkipped, Copy, CopyFails, CopyCut, Truncate, OpenFails,
                            WriteHalf, WriteRest, WriteFails, Close, memory
  <2>9. CASE Stop \/ LoseMain \/ RestoreBreaksOff \/ Tick
    BY <1>1, <2>3, <2>9 DEF Stop, LoseMain, RestoreBreaksOff, Tick, memory
  <2>10. ~Start
    BY <1>1, EmptyPartial DEF Start, IInv, StageInv
  <2>11. ~Rehash
    BY <1>1 DEF Rehash
  <2> QED
    BY <1>1, <2>3, <2>7, <2>8, <2>9, <2>10, <2>11 DEF Next, vars
<1>2. IInv /\ [Next]_vars =>
        (stage' # "down" =>
            \A n \in DOMAIN list \cap DOMAIN list' : list'[n].at >= list[n].at - 1)
  BY <1>1
<1> QED
  BY <1>2, Invariance, PTL DEF Spec, NeverGoesBack

\* The records behind one that trim drops: Limit of them, none older.
LEMMA TrimSparesNewer ==
  ASSUME IInv, Cardinality(DOMAIN list) > Limit, NEW s \in Orders,
         NEW n \in OldestOf(s, Cardinality(DOMAIN list) - Limit)
  PROVE  Cardinality({m \in DOMAIN list \ {n} : list[m].at >= list[n].at}) >= Limit
<1> DEFINE c == Cardinality(DOMAIN list)
           Behind == c - Limit + 1 .. c
           Newer == {m \in DOMAIN list \ {n} : list[m].at >= list[n].at}
<1>1. IsFiniteSet(DOMAIN list) /\ c \in Nat /\ Limit \in Nat
  <2>1. IsFiniteSet(Nicks) /\ DOMAIN list \subseteq Nicks /\ Limit \in Nat
    BY Typed, SeenAssumption
  <2>2. IsFiniteSet(DOMAIN list)
    BY <2>1, FS_Subset
  <2> QED
    BY <2>1, <2>2, FS_CardinalityType
<1>2. /\ s \in [1 .. c -> DOMAIN list]
      /\ \A i, j \in 1 .. c : i # j => s[i] # s[j]
      /\ \A i, j \in 1 .. c : i < j => list[s[i]].at <= list[s[j]].at
  BY DEF Orders, Sorted
<1>3. PICK i \in 1 .. c - Limit : n = s[i]
  BY DEF OldestOf
<1> HIDE DEF c
<1>4. ASSUME NEW j \in Behind PROVE j \in 1 .. c /\ i \in 1 .. c /\ i < j
  BY <1>1, <1>3
<1>5. ASSUME NEW j \in Behind PROVE s[j] \in Newer
  <2>1. s[j] \in DOMAIN list /\ s[j] # n /\ s[i] \in DOMAIN list
    BY <1>2, <1>3, <1>4, <1>5
  <2>2. list[s[i]].at <= list[s[j]].at
    BY <1>2, <1>4, <1>5
  <2>3. list[s[i]].at \in Int /\ list[s[j]].at \in Int
    BY <2>1, Typed DEF Records
  <2> QED
    BY <1>3, <2>1, <2>2, <2>3
<1> DEFINE f == [j \in Behind |-> s[j]]
<1>6. f \in Injection(Behind, Newer)
  <2>1. f \in [Behind -> Newer]
    BY <1>5
  <2>2. \A a, b \in Behind : f[a] = f[b] => a = b
    BY <1>2, <1>4
  <2> QED
    BY <2>1, <2>2 DEF Injection, IsInjective
<1>7. IsFiniteSet(Newer)
  <2>1. Newer \subseteq DOMAIN list
    OBVIOUS
  <2> QED
    BY <1>1, <2>1, FS_Subset
<1>8. Cardinality(Behind) = Limit
  <2>1. c - Limit + 1 \in Int /\ c \in Int
    BY <1>1
  <2>2. Cardinality(Behind) = IF c - Limit + 1 > c THEN 0 ELSE c - (c - Limit + 1) + 1
    BY <2>1, FS_Interval
  <2> QED
    BY <1>1, <2>2
<1> HIDE DEF f, Behind, Newer
<1>9. Cardinality(Behind) <= Cardinality(Newer)
  BY <1>6, <1>7, FS_Injection
<1>10. Cardinality(Newer) \in Nat
  BY <1>7, FS_CardinalityType
<1> QED
  BY <1>1, <1>8, <1>9, <1>10 DEF Newer

\* The running bot forgets only what an operator removed and what is oldest.
THEOREM OldestForgotten == Spec => ForgetsTheOldest
<1>1. ASSUME IInv, [Next]_vars, stage' # "down", NEW n \in DOMAIN list \ DOMAIN list'
      PROVE  \/ /\ forgotten'[list[n].chan] = "memory"
                /\ list' = Keep(list, Nicks \ On(list[n].chan))
             \/ Cardinality({m \in DOMAIN list \ {n} : list[m].at >= list[n].at}) >= Limit
  <2>1. list' # list /\ n \in Nicks /\ list[n] \in Records
    BY <1>1, Typed
  <2>2. ASSUME NEW m \in Nicks, NEW c \in Chans, Log(m, c) PROVE FALSE
    BY <1>1, <2>2 DEF Log, With, Over
  <2>3. ASSUME NEW m \in Nicks, NEW k \in Nicks, NEW c \in Chans, Rename(m, k, c) PROVE FALSE
    BY <1>1, <2>3 DEF Rename, With, Over
  <2>4. ASSUME NEW c \in Chans, Unseen(c)
        PROVE  /\ forgotten'[list[n].chan] = "memory"
               /\ list' = Keep(list, Nicks \ On(list[n].chan))
    <3>1. /\ list' = Keep(list, Nicks \ On(c))
          /\ forgotten' = [forgotten EXCEPT ![c] = "memory"]
      BY <2>4 DEF Unseen
    <3>2. n \in On(c)
      BY <1>1, <2>1, <3>1 DEF Keep
    <3>3. list[n].chan = c
      BY <3>2 DEF On
    <3>4. forgotten'[c] = "memory"
      BY <1>1, <3>1 DEF IInv, TypeOK
    <3> QED
      BY <3>1, <3>3, <3>4
  <2>5. CASE Trim
    <3>1. PICK s \in Orders :
             list' = Keep(list, Nicks \ OldestOf(s, Cardinality(DOMAIN list) - Limit))
      BY <2>5 DEF Trim
    <3>2. Cardinality(DOMAIN list) > Limit
      BY <2>5 DEF Trim
    <3>3. n \in OldestOf(s, Cardinality(DOMAIN list) - Limit)
      BY <1>1, <2>1, <3>1 DEF Keep
    <3> QED
      BY <1>1, <3>2, <3>3, TrimSparesNewer
  <2>6. ~Save
    BY <1>1, <2>1 DEF Save, SaveSkipped, Copy, CopyFails, CopyCut, Truncate, OpenFails,
                      WriteHalf, WriteRest, WriteFails, Close, memory
  <2>7. ~(Stop \/ LoseMain \/ RestoreBreaksOff \/ Tick)
    BY <1>1, <2>1 DEF Stop, LoseMain, RestoreBreaksOff, Tick, memory
  <2>8. ~Start
    BY <1>1, EmptyPartial DEF Start, IInv, StageInv
  <2>9. ~Rehash
    BY <1>1 DEF Rehash
  <2> QED
    BY <1>1, <2>1, <2>2, <2>3, <2>4, <2>5, <2>6, <2>7, <2>8, <2>9 DEF Next, Events, vars
<1>2. IInv /\ [Next]_vars => [ stage' # "down" =>
          \A n \in DOMAIN list \ DOMAIN list' :
              \/ LET c == list[n].chan
                 IN  forgotten'[c] = "memory" /\ list' = Keep(list, Nicks \ On(c))
              \/ Cardinality({m \in DOMAIN list \ {n} : list[m].at >= list[n].at})
                     >= Limit ]_vars
  BY <1>1
<1> QED
  BY <1>2, Invariance, PTL DEF Spec, ForgetsTheOldest

-----------------------------------------------------------------------------
(* The two files implement SeenStore: its steps, and what they are made of. *)

\* What a start would bring back, and what the bot is at.
Restored == IF main = NoFile THEN bak ELSE main
Phase == IF stage \in {"copied", "writing"} THEN "saving" ELSE stage

\* What has the same records, but fewer of them, is a part.
LEMMA PartIs ==
  ASSUME NEW V, NEW a \in Partial(V), NEW b, DOMAIN a \subseteq DOMAIN b,
         \A n \in DOMAIN a : a[n] = b[n]
  PROVE  Store!Part(a, b)
<1>1. a = [n \in DOMAIN a |-> a[n]]
  BY PartialIs
<1>2. [n \in DOMAIN a |-> a[n]] = [n \in DOMAIN a |-> b[n]]
  OBVIOUS
<1> QED
  BY <1>1, <1>2 DEF Store!Part

\* The whole is a part of itself.
LEMMA PartOfItself == ASSUME NEW db \in Databases PROVE Store!Part(db, db)
  BY DatabasesArePartial, PartIs

\* What is kept of a database is a part of it.
LEMMA KeepIsPart ==
  ASSUME NEW db \in Databases, NEW S
  PROVE  Store!Part(Keep(db, S), db)
<1> DEFINE k == Keep(db, S)
<1>1. db \in Partial(Records)
  BY DatabasesArePartial
<1>2. /\ k \in Partial(Records)
      /\ DOMAIN k = DOMAIN db \cap S
      /\ \A n \in DOMAIN db \cap S : k[n] = db[n]
  BY <1>1, KeepPartial
<1> HIDE DEF k
<1>3. Store!Part(k, db)
  BY <1>2, PartIs
<1> QED
  BY <1>3 DEF k

\* A file whose lines are torn or a database's own gives back a part of it.
LEMMA LinesArePart ==
  ASSUME NEW file \in FileContents, NEW db, DOMAIN file \subseteq DOMAIN db,
         \A n \in DOMAIN file : file[n] = Cut \/ file[n] = db[n]
  PROVE  Store!Part(Readable(file), db)
<1>1. /\ Readable(file) \in Partial(Records)
      /\ DOMAIN Readable(file) = Lines(file)
      /\ \A n \in Lines(file) : Readable(file)[n] = file[n]
  BY ReadableIs, DatabasesArePartial
<1>2. Lines(file) \subseteq DOMAIN db /\ \A n \in Lines(file) : file[n] = db[n]
  BY DEF Lines
<1> QED
  BY <1>1, <1>2, PartIs

\* Of a file that was copied in part, no more is read than of the file.
LEMMA CopyIsPart ==
  ASSUME NEW file \in FileContents, NEW S
  PROVE  Store!Part(Readable(Keep(file, S)), Readable(file))
<1> DEFINE copy == Keep(file, S)
<1>1. /\ copy \in FileContents
      /\ DOMAIN copy = DOMAIN file \cap S
      /\ \A n \in DOMAIN file \cap S : copy[n] = file[n]
  BY DatabasesArePartial, KeepPartial
<1> HIDE DEF copy
<1>2. /\ Readable(copy) \in Partial(Records)
      /\ DOMAIN Readable(copy) = Lines(copy)
      /\ \A n \in Lines(copy) : Readable(copy)[n] = copy[n]
  BY <1>1, ReadableIs, DatabasesArePartial
<1>3. /\ DOMAIN Readable(file) = Lines(file)
      /\ \A n \in Lines(file) : Readable(file)[n] = file[n]
  BY ReadableIs
<1>4. \A n \in Lines(copy) : n \in Lines(file) /\ copy[n] = file[n]
  BY <1>1 DEF Lines
<1>5. Store!Part(Readable(copy), Readable(file))
  BY <1>2, <1>3, <1>4, PartIs
<1> QED
  BY <1>5 DEF copy

\* Both modules mean the same by an empty database.
LEMMA NothingIsEmpty ==
  /\ Empty = Store!Nothing
  /\ \A db \in Databases : DOMAIN db = {} => db = Empty
<1>1. Empty = Store!Nothing
  BY DEF Empty, Store!Nothing
<1>2. ASSUME NEW db \in Databases, DOMAIN db = {} PROVE db = Empty
  <2>1. db = [n \in DOMAIN db |-> db[n]]
    BY DatabasesArePartial, PartialIs
  <2> QED
    BY <1>2, <2>1 DEF Empty
<1> QED
  BY <1>1, <1>2

\* A database that has been written to its last line can be read in whole.
LEMMA WholeIsRead ==
  ASSUME IInv, stage = "writing", left = {}
  PROVE  Readable(Restored) = list
<1>1. /\ list \in Databases /\ main \in FileContents /\ Restored = main
      /\ DOMAIN main = DOMAIN list /\ \A n \in DOMAIN main : main[n] = list[n]
  BY Typed DEF IInv, PartWritten, Files, Restored
<1>2. \A n \in DOMAIN list : list[n] # Cut
  BY Typed, SeenAssumption
<1>3. Lines(main) = DOMAIN list
  BY <1>1, <1>2 DEF Lines
<1>4. /\ Readable(main) \in Databases /\ DOMAIN Readable(main) = DOMAIN list
      /\ \A n \in DOMAIN list : Readable(main)[n] = list[n]
  BY <1>1, <1>3, ReadableIs
<1>5. /\ Readable(main) = [n \in DOMAIN Readable(main) |-> Readable(main)[n]]
      /\ list = [n \in DOMAIN list |-> list[n]]
  BY <1>1, <1>4, DatabasesArePartial, PartialIs
<1> QED
  BY <1>1, <1>4, <1>5

\* An event tells of its nicks and of nothing else.
LEMMA EventsChange == ASSUME IInv, Events PROVE Store!Change
<1>0. /\ list \in Databases /\ list \in Partial(Records)
      /\ now \in 1 .. MaxTime /\ MaxTime \in Nat
  BY Typed
<1>1. ASSUME stage = "up", UNCHANGED <<now, stage, main, bak, failed>>,
             Store!Learn \/ Store!Forget
      PROVE  Store!Change
  BY <1>1 DEF Store!Change
<1>2. ASSUME NEW n \in Nicks, NEW c \in Chans, Log(n, c) PROVE Store!Change
  <2> DEFINE r == [chan |-> c, at |-> now]
  <2>1. stage = "up" /\ UNCHANGED <<now, stage, main, bak, failed>> /\ list' = With(list, n, r)
    BY <1>2 DEF Log, clock, disk
  <2>2. r \in Records /\ r \in Store!News(c)
    BY <1>0 DEF Records, Store!News
  <2> HIDE DEF r
  <2>3. /\ DOMAIN list' = DOMAIN list \cup {n}
        /\ \A k \in DOMAIN list' : list'[k] = IF k = n THEN r ELSE list[k]
    <3>1. list' = [k \in DOMAIN list \cup {n} |-> IF k = n THEN r ELSE list[k]]
      BY <2>1, WithIs
    <3> QED
      BY <3>1
  <2>4. Store!Learn
    BY <2>2, <2>3 DEF Store!Learn
  <2> QED
    BY <1>1, <2>1, <2>4
<1>3. ASSUME NEW n \in Nicks, NEW m \in Nicks, NEW c \in Chans, Rename(n, m, c)
      PROVE  Store!Change
  <2> DEFINE r == [chan |-> c, at |-> now - 1]
             q == [chan |-> c, at |-> now]
  <2>1. PICK old : /\ old = With(list, n, r)
                   /\ stage = "up" /\ UNCHANGED <<now, stage, main, bak, failed>>
                   /\ list' = With(old, m, q)
    BY <1>3 DEF Rename, clock, disk
  <2>2. r \in Records /\ r \in Store!News(c) /\ q \in Records /\ q \in Store!News(c)
    BY <1>0 DEF Records, Store!News
  <2> HIDE DEF r, q
  <2>3. /\ With(list, n, r) \in Databases
        /\ DOMAIN With(list, n, r) = DOMAIN list \cup {n}
        /\ \A k \in DOMAIN With(list, n, r) :
              With(list, n, r)[k] = IF k = n THEN r ELSE list[k]
    <3>1. list \in Databases /\ r \in Records
      BY <1>0, <2>2
    <3>2. /\ With(list, n, r) \in Databases
          /\ DOMAIN With(list, n, r) = DOMAIN list \cup {n}
      BY <3>1, RecordLaidOver
    <3>3. With(list, n, r) = [k \in DOMAIN list \cup {n} |-> IF k = n THEN r ELSE list[k]]
      BY WithIs
    <3> QED
      BY <3>2, <3>3
  <2>4. /\ old \in Databases
        /\ DOMAIN list' = DOMAIN old \cup {m}
        /\ \A k \in DOMAIN list' : list'[k] = IF k = m THEN q ELSE old[k]
    BY <2>1, <2>2, <2>3, RecordLaidOver
  <2>5. Store!Learn
    <3>1. ASSUME NEW k \in DOMAIN list'
          PROVE  \/ k \in DOMAIN list /\ list'[k] = list[k]
                 \/ k \in Nicks /\ list'[k] \in Store!News(c)
      BY <2>1, <2>2, <2>3, <2>4
    <3>2. DOMAIN list \subseteq DOMAIN list'
      BY <2>1, <2>3, <2>4
    <3>3. \E d \in Chans : \A k \in DOMAIN list' :
             \/ k \in DOMAIN list /\ list'[k] = list[k]
             \/ k \in Nicks /\ list'[k] \in Store!News(d)
      BY <3>1
    <3> QED
      BY <3>2, <3>3 DEF Store!Learn
  <2> QED
    BY <1>1, <2>1, <2>5
<1>4. ASSUME NEW c \in Chans, Unseen(c) PROVE Store!Change
  <2>1. Store!Part(Keep(list, Nicks \ On(c)), list)
    BY <1>0, KeepIsPart
  <2> QED
    BY <1>1, <1>4, <2>1 DEF Unseen, Store!Forget, clock, disk
<1>5. CASE Trim
  <2>1. PICK S : list' = Keep(list, S)
    BY <1>5 DEF Trim
  <2>2. Store!Part(Keep(list, S), list)
    BY <1>0, KeepIsPart
  <2> QED
    BY <1>1, <1>5, <2>1, <2>2 DEF Trim, Store!Forget, clock, disk
<1> QED
  BY <1>2, <1>3, <1>4, <1>5 DEF Events

\* A save puts by the data file before it overwrites it, or has failed to; it
\* keeps what it can of the database, all of it if nothing fails; a stopped bot
\* has lost what it knew.
LEMMA SaveStores ==
  ASSUME IInv, IInv', Save \/ Stop
  PROVE  \/ Store!PutBy \/ Store!Store \/ Store!EndSave \/ Store!Die
         \/ UNCHANGED <<now, Phase, list, Restored, bak, failed>>
<1>0. /\ list \in Databases /\ main \in Files /\ bak \in Files
      /\ main # NoFile => main \in FileContents
      /\ stage = "up" /\ main = NoFile => bak = NoFile
      /\ Empty = Store!Nothing
  BY Typed, NothingIsEmpty DEF IInv, StageInv, Files
<1>1. CASE SaveSkipped
  BY <1>1 DEF SaveSkipped, Restored, Phase, clock, disk
<1>2. CASE Copy
  <2>1. /\ stage = "up" /\ stage' = "copied" /\ bak' = Restored
        /\ UNCHANGED <<now, list, main, failed>>
    BY <1>2 DEF Copy, SaveDue, Restored, clock, memory
  <2>2. Restored = (IF main = NoFile THEN bak ELSE main)
    BY DEF Restored
  <2>3. Readable(bak') = Readable(IF main = NoFile THEN bak ELSE main)
    BY <2>1, <2>2
  <2> QED
    BY <2>1, <2>3 DEF Store!PutBy
<1>3. CASE CopyFails
  <2>1. /\ stage = "up" /\ stage' = "copied" /\ failed' = TRUE
        /\ UNCHANGED <<now, list, main>> /\ main # NoFile
        /\ bak' = bak \/ \E S \in SUBSET DOMAIN main : bak' = Keep(main, S)
    BY <1>3 DEF CopyFails, SaveDue, clock, memory
  <2>2. bak' = bak \/ Store!Part(Readable(bak'), Readable(main))
    BY <1>0, <2>1, CopyIsPart
  <2> QED
    BY <2>1, <2>2 DEF Store!PutBy
<1>4. CASE CopyCut
  <2>1. /\ stage = "up" /\ stage' = "down" /\ list' = Empty
        /\ UNCHANGED <<now, main, failed>> /\ main # NoFile
        /\ \E S \in SUBSET DOMAIN main : bak' = Keep(main, S)
    BY <1>4 DEF CopyCut, SaveDue, clock
  <2>2. Store!Part(Readable(bak'), Readable(main))
    BY <1>0, <2>1, CopyIsPart
  <2> QED
    BY <1>0, <2>1, <2>2 DEF Store!Die
<1>5. CASE Truncate \/ \E n \in Nicks : WriteHalf(n) \/ WriteRest(n)
  <2>1. /\ stage \in {"copied", "writing"} /\ stage' = "writing"
        /\ UNCHANGED <<now, list, bak, failed>>
    BY <1>5 DEF Truncate, WriteHalf, WriteRest, clock, memory
  <2>2. /\ main' \in FileContents /\ main' # NoFile
        /\ DOMAIN main' \subseteq DOMAIN list
        /\ \A n \in DOMAIN main' : main'[n] = Cut \/ main'[n] = list[n]
    BY <2>1 DEF IInv, TypeOK, PartWritten
  <2>3. Store!Part(Readable(main'), list)
    BY <2>2, LinesArePart
  <2> QED
    BY <2>1, <2>2, <2>3 DEF Store!Store
<1>6. CASE OpenFails \/ WriteFails
  <2>1. /\ stage \in {"copied", "writing"} /\ stage' = "up" /\ failed' = TRUE
        /\ UNCHANGED <<now, list, main, bak>>
    BY <1>6 DEF OpenFails, WriteFails, clock, memory
  <2> QED
    BY <2>1 DEF Store!EndSave
<1>7. CASE Close
  <2>1. /\ stage = "writing" /\ stage' = "up" /\ left = {} /\ failed' = FALSE
        /\ UNCHANGED <<now, list, main, bak>>
    BY <1>7 DEF Close, clock
  <2>2. Readable(Restored) = list
    BY <2>1, WholeIsRead
  <2> QED
    BY <2>1, <2>2 DEF Store!EndSave, Restored
<1>8. CASE Stop
  <2>1. /\ stage # "down" /\ stage' = "down" /\ list' = Empty
        /\ UNCHANGED <<now, main, bak, failed>>
    BY <1>8 DEF Stop, clock, disk
  <2> QED
    BY <1>0, <2>1 DEF Store!Die
<1> QED
  BY <1>1, <1>2, <1>3, <1>4, <1>5, <1>6, <1>7, <1>8 DEF Save

\* A start, and a rehash of a bot that knows nothing, recall what was kept.
LEMMA ReadRecalls == ASSUME IInv, Start \/ Rehash PROVE Store!Recall
<1>1. /\ Read /\ DOMAIN list = {} /\ stage \in {"down", "up"} /\ stage' = "up"
      /\ list = Store!Nothing
  BY Typed, EmptyPartial, NothingIsEmpty DEF Start, Rehash, IInv, StageInv
<1>2. /\ main' = Restored /\ failed' = FALSE /\ UNCHANGED <<now, bak>>
      /\ list' = Over(Readable(Restored), list)
  BY <1>1 DEF Read, Restored, clock
<1>3. list' = Readable(Restored)
  <2> DEFINE new == Readable(Restored)
  <2>1. new \in Databases
    BY Typed, ReadableTyped DEF Restored
  <2>2. new = [n \in DOMAIN new |-> new[n]]
    BY <2>1, DatabasesArePartial, PartialIs
  <2> HIDE DEF new
  <2>3. Over(new, list) = new
    <3>1. DOMAIN new \cup DOMAIN list = DOMAIN new
      BY <1>1
    <3>2. Over(new, list) = [n \in DOMAIN new |-> new[n]]
      BY <3>1 DEF Over
    <3> QED
      BY <2>2, <3>2
  <2> QED
    BY <1>2, <2>3 DEF new
<1>4. Restored' = Restored
  BY <1>2 DEF Restored
<1> QED
  BY <1>1, <1>2, <1>3, <1>4 DEF Store!Recall, Restored

\* A restore that breaks off leaves a part of what was put by, and all of that.
LEMMA RestoreIsPart == ASSUME IInv, RestoreBreaksOff PROVE Store!BreakOff
<1>1. /\ stage \in {"down", "up"} /\ stage' = "down" /\ list' = Empty
      /\ main = NoFile /\ bak # NoFile /\ failed' = TRUE /\ UNCHANGED <<now, bak>>
      /\ main' = NoFile \/ \E S \in SUBSET DOMAIN bak : main' = Keep(bak, S)
  BY DEF RestoreBreaksOff, clock
<1>2. list = Empty /\ Empty = Store!Nothing
  BY <1>1, NothingIsEmpty, Typed DEF RestoreBreaksOff, IInv, StageInv
<1>3. bak \in FileContents
  BY <1>1, Typed DEF Files
<1>4. Store!Part(Readable(bak), Readable(bak))
  BY <1>3, ReadableIs, PartOfItself
<1>5. Store!Part(Readable(Restored'), Readable(bak))
  BY <1>1, <1>3, <1>4, CopyIsPart DEF Restored
<1> QED
  BY <1>1, <1>2, <1>5 DEF Store!BreakOff, Restored

\* Every step of bot and files is a step of SeenStore, or changes nothing it knows of.
LEMMA StoreStep == IInv /\ IInv' /\ [Next]_vars => [Store!Next]_(Store!storeVars)
<1> SUFFICES ASSUME IInv, IInv', [Next]_vars
             PROVE  \/ Store!Next
                    \/ UNCHANGED <<now, Phase, list, Restored, bak, failed>>
  BY DEF Store!storeVars, Restored, Phase
<1>1. CASE Events
  BY <1>1, EventsChange DEF Store!Next
<1>2. CASE Save \/ Stop
  BY <1>2, SaveStores DEF Store!Next
<1>3. CASE Start \/ Rehash
  BY <1>3, ReadRecalls DEF Store!Next
<1>4. CASE LoseMain
  <2>1. Store!FallBack
    BY <1>4 DEF LoseMain, Store!FallBack, clock
  <2> QED
    BY <2>1 DEF Store!Next
<1>5. CASE Tick
  <2>1. Store!Tick
    BY <1>5 DEF Tick, Store!Tick, memory, disk
  <2> QED
    BY <2>1 DEF Store!Next
<1>6. CASE RestoreBreaksOff
  BY <1>6, RestoreIsPart DEF Store!Next
<1>7. CASE UNCHANGED vars
  BY <1>7 DEF vars, Restored, Phase
<1> QED
  BY <1>1, <1>2, <1>3, <1>4, <1>5, <1>6, <1>7 DEF Next

\* Whatever is cut off or fails, in a save or in a restore, what a start brings
\* back and what is put by are parts of what the bot knew at one moment, and what
\* is kept has been put by before a save overwrites it, unless the copy failed.
THEOREM StoreKept == Spec => KeepsAsStored
<1>1. Init => Store!Init
  <2>1. Init => Readable(bak) = Empty /\ Readable(Restored) = Empty
    BY DEF Init, Readable, Restored
  <2> QED
    BY <2>1, NothingIsEmpty DEF Init, Store!Init, Restored
<1> QED
  BY <1>1, StoreStep, Invariance, PTL DEF Spec, KeepsAsStored, Store!Spec

=============================================================================
