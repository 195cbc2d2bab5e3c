-------------------------------- MODULE Hive --------------------------------
(***************************************************************************)
(* How the configuration manager keeps a registry hive on disk             *)
(* (base/ntos/config): the image in memory with its dirty vector, the      *)
(* write of the dirty sectors to the log and then to the primary file, and *)
(* the load of the hive, which recovers the primary from the log when a    *)
(* crash interrupted a write.                                              *)
(*                                                                         *)
(* The two files are made of cells: a header, the dirty vector of the log, *)
(* and data sectors.  The log keeps the dirty sectors one after another,   *)
(* so only the vector tells where each belongs.  A write may reach the     *)
(* disk at any time after it was issued, and surely has once its file was  *)
(* flushed.  One action is one FileWrite or FileFlush, which may fail; the *)
(* system may crash between any two.                                       *)
(*                                                                         *)
(* Left out: the sizes of the files and of the hive; what is damaged       *)
(* inside a bin; allocations that fail.  Of the first sector only the time *)
(* stamp is kept.                                                          *)
(***************************************************************************)
EXTENDS Integers, FiniteSets

CONSTANTS
  Sectors,     (* data sectors of the hive                                 *)
  Unreadable,  (* content that cannot be read: torn, or cut off            *)
  MaxChanges,  (* bound: changes made to the hive                          *)
  MaxFailures, (* bound: writes and flushes that fail                      *)
  MaxCrashes   (* bound: crashes                                           *)

Sector == 1..Sectors

ASSUME HiveAssumption ==
  /\ Sectors \in Nat \ {0} /\ MaxChanges \in Nat /\ MaxFailures \in Nat /\ MaxCrashes \in Nat
  /\ Unreadable \notin Int /\ \A v \in SUBSET Sector : v # Unreadable
  /\ \A h \in [equal : BOOLEAN, stamp : 0..MaxChanges] : h # Unreadable

Header == <<"primary", "header", 0>>
Stamp == <<"primary", "stamp", 0>>
Data(s) == <<"primary", "data", s>>
LogHeader == <<"log", "header", 0>>
LogVector == <<"log", "vector", 0>>
LogData(k) == <<"log", "data", k>>
Primary == {Header, Stamp} \union {Data(s) : s \in Sector}
Log == {LogHeader, LogVector} \union {LogData(k) : k \in Sector}
Cells == Primary \union Log

VARIABLES
  now,       (* what a read of each cell returns                           *)
  maybe,     (* what a crash may leave in each cell                        *)
  image,     (* the hive in memory                                         *)
  dirty,     (* DirtyVector                                                *)
  base,      (* the base block: Sequence1 = Sequence2, and TimeStamp       *)
  stage,     (* where HvSyncHive or HvInitializeHive is                    *)
  loading,   (* the write is the one that ends a recovery                  *)
  changes, failures, crashes, (* how many there were                       *)
  promised,  (* history: the images that a load may return                 *)
  exposed    (* history: a log was rewritten while the primary could need it *)

diskVars == <<now, maybe>>
hiveVars == <<image, dirty, base>>
counters == <<changes, crashes>>
history  == <<promised, exposed>>
varsHive == <<diskVars, hiveVars, stage, loading, changes, failures, crashes, history>>

(* Down: not loaded.  Idle: loaded, nothing being written.  The other      *)
(* values name the write or flush that comes next.                         *)
Follows == [LogHeader |-> "FlushLogHeader", FlushLogHeader |-> "LogBody",
            LogBody |-> "FlushLogBody",     FlushLogBody |-> "LogDone",
            LogDone |-> "FlushLogDone",     FlushLogDone |-> "FlushFirst",
            FlushFirst |-> "Header",        Header |-> "FlushHeader",
            FlushHeader |-> "Data",         Data |-> "FlushData",
            FlushData |-> "Done",           Done |-> "FlushDone"]
-----------------------------------------------------------------------------
IsComplete(h) == h # Unreadable /\ h.equal
Loaded == [equal |-> TRUE, stamp |-> 0]

(* What a write of v to cell c may leave there: a header has a checksum,   *)
(* so one that was written in part cannot be read.                         *)
Headers == {Header, LogHeader}
Left(c, v) == {v} \union IF c \in Headers THEN {Unreadable} ELSE {}

(* The disk with the contents f of some of its cells. *)
Over(f, disk) == [c \in Cells |-> IF c \in DOMAIN f THEN f[c] ELSE disk[c]]

(* HvSyncHive returns FALSE, or HvInitializeHive STATUS_REGISTRY_IO_FAILED *)
(* with the bins freed: the hive is not loaded.                            *)
Fails ==
  /\ failures < MaxFailures
  /\ failures' = failures + 1
  /\ stage' = IF loading THEN "Down" ELSE "Idle"

(* FileWrite of the cells of f.  One that fails may have written some. *)
FileWrite(f, next) ==
  /\ maybe' = [c \in Cells |-> maybe[c] \union IF c \in DOMAIN f THEN Left(c, f[c]) ELSE {}]
  /\ \/ now' = Over(f, now) /\ stage' = next /\ UNCHANGED failures
     \/ /\ Fails
        /\ \E S \in SUBSET DOMAIN f, torn \in BOOLEAN :
             now' = Over([c \in S |-> IF torn /\ c \in Headers THEN Unreadable ELSE f[c]], now)

FileFlush(file, next) ==
  /\ UNCHANGED now
  /\ \/ /\ maybe' = [c \in Cells |-> IF c \in file THEN {now[c]} ELSE maybe[c]]
        /\ stage' = next /\ UNCHANGED failures
     \/ Fails /\ UNCHANGED maybe
-----------------------------------------------------------------------------
(* HvMarkDirty and a change of the sector.  The flusher lock keeps changes *)
(* out of a sync.                                                          *)
HvMarkDirty(s) ==
  /\ stage = "Idle" /\ changes < MaxChanges
  /\ changes' = changes + 1
  /\ image' = [image EXCEPT ![s] = changes + 1]
  /\ dirty' = dirty \union {s}
  /\ UNCHANGED <<diskVars, base, stage, loading, failures, crashes, history>>

MaySync_IgnoresFailures == dirty # {}

MaySync == dirty # {} /\ base.equal

Started(b) == [b EXCEPT !.equal = FALSE]
Completed(b) == [b EXCEPT !.equal = TRUE]

(* HvSyncHive up to the first write of HvpWriteLog, which gives up when a  *)
(* write that failed left the sequence numbers different.  The clock moves *)
(* at least with every change.                                             *)
HvSyncHive ==
  /\ stage = "Idle" /\ MaySync
  /\ base' = [equal |-> FALSE, stamp |-> changes]
  /\ FileWrite([c \in {LogHeader} |-> base'], "FlushLogHeader")
  /\ promised' = promised \union {image}
  /\ exposed' = (exposed \/ (base.equal /\ \E h \in maybe[Header] : ~IsComplete(h)))
  /\ UNCHANGED <<image, dirty, loading, counters>>

(* The place in the log of sector s of vector v. *)
Place(v, s) == Cardinality({r \in v : r <= s})

LogBody ==
  [c \in {LogVector} \union {LogData(Place(dirty, s)) : s \in dirty} |->
    IF c = LogVector THEN dirty
    ELSE image[CHOOSE s \in dirty : c = LogData(Place(dirty, s))]]

WriteLogBody ==
  /\ stage = "LogBody"
  /\ FileWrite(LogBody, Follows[stage])
  /\ UNCHANGED <<hiveVars, loading, counters, history>>

(* The header again, to report completion: Sequence2++. *)
WriteLogDone ==
  /\ stage = "LogDone"
  /\ base' = Completed(base)
  /\ FileWrite([c \in {LogHeader} |-> base'], Follows[stage])
  /\ UNCHANGED <<image, dirty, loading, counters, history>>

FlushLog ==
  /\ stage \in {"FlushLogHeader", "FlushLogBody", "FlushLogDone"}
  /\ FileFlush(Log, Follows[stage])
  /\ UNCHANGED <<hiveVars, loading, counters, history>>

(* HvpDoWriteHive: the header with Sequence1 ahead of Sequence2. *)
WriteHeader ==
  /\ stage = "Header"
  /\ base' = Started(base)
  /\ FileWrite([c \in {Header} |-> base'], Follows[stage])
  /\ UNCHANGED <<image, dirty, loading, counters, history>>

(* The dirty data, mapped (HvpFlushMappedData) and in paged pool alike,    *)
(* with the time stamp in the first bin.                                   *)
WriteData ==
  /\ stage = "Data"
  /\ FileWrite([c \in {Stamp} \union {Data(s) : s \in dirty} |->
                 IF c = Stamp THEN base.stamp ELSE image[c[3]]], Follows[stage])
  /\ UNCHANGED <<hiveVars, loading, counters, history>>

WriteDone ==
  /\ stage = "Done"
  /\ base' = Completed(base)
  /\ FileWrite([c \in {Header} |-> base'], Follows[stage])
  /\ UNCHANGED <<image, dirty, loading, counters, history>>

FlushPrimary ==
  /\ stage \in {"FlushFirst", "FlushHeader", "FlushData"}
  /\ FileFlush(Primary, Follows[stage])
  /\ UNCHANGED <<hiveVars, loading, counters, history>>

(* The log as FileSetSize leaves it: cut off, sooner or later. *)
CutOff(f) == [c \in Cells |-> IF c \in Log THEN Unreadable ELSE f[c]]
MayBeCutOff(m) == [c \in Cells |-> IF c \in Log THEN m[c] \union {Unreadable} ELSE m[c]]

(* The last flush.  Then the dirty vector is cleared, and after a recovery *)
(* the log.                                                                *)
FlushDone ==
  /\ stage = "FlushDone"
  /\ \/ /\ LET flushed == [c \in Cells |-> IF c \in Primary THEN {now[c]} ELSE maybe[c]]
           IN  /\ now' = IF loading THEN CutOff(now) ELSE now
               /\ maybe' = IF loading THEN MayBeCutOff(flushed) ELSE flushed
        /\ dirty' = {}
        /\ loading' = FALSE
        /\ stage' = "Idle"
        /\ promised' = {image}
        /\ UNCHANGED failures
     \/ /\ Fails
        /\ UNCHANGED <<diskVars, dirty, loading, promised>>
  /\ UNCHANGED <<image, base, counters, exposed>>
-----------------------------------------------------------------------------
InPrimary(disk) == [s \in Sector |-> disk[Data(s)]]

(* What HvpGetHiveHeader finds. *)
NeedsRecovery(disk) == ~IsComplete(disk[Header])
HeaderLost(disk) == disk[Header] = Unreadable

(* HvpGetLogHeader accepts the header of the log. *)
LogHeaderFits(disk) ==
  IsComplete(disk[LogHeader]) /\ disk[LogHeader].stamp = disk[Stamp]

(* The sectors that HvpRecoverData takes from the log: those of its vector *)
(* up to the first that cannot be read.                                    *)
Recovered(disk) ==
  IF disk[LogVector] = Unreadable THEN {}
  ELSE {s \in disk[LogVector] :
          \A k \in 1..Place(disk[LogVector], s) : disk[LogData(k)] # Unreadable}

HvpRecoverData(disk) ==
  [s \in Sector |-> IF s \in Recovered(disk)
                    THEN disk[LogData(Place(disk[LogVector], s))]
                    ELSE disk[Data(s)]]

Damaged == [s \in Sector |-> Unreadable]

(* The image that a load makes of what is on disk.  A header of the log    *)
(* that cannot be read gives no root cell.                                 *)
ImageOf(disk) ==
  IF ~NeedsRecovery(disk) THEN InPrimary(disk)
  ELSE IF HeaderLost(disk) /\ disk[LogHeader] = Unreadable THEN Damaged
  ELSE HvpRecoverData(disk)

(* By default the hive heals itself (CmpSelfHeal): the load goes on with   *)
(* what the log has.                                                       *)
CmDoSelfHeal_Off == FALSE

CmDoSelfHeal == TRUE

Loads(disk) ==
  \/ ~NeedsRecovery(disk)
  \/ CmDoSelfHeal
  \/ /\ HeaderLost(disk) => LogHeaderFits(disk)
     /\ disk[LogVector] # Unreadable /\ Recovered(disk) = disk[LogVector]

(* The base block that a load makes, the sequence numbers cleaned up. *)
BaseOf(disk) ==
  LET header == IF HeaderLost(disk) THEN disk[LogHeader] ELSE disk[Header]
  IN  [equal |-> TRUE, stamp |-> IF header = Unreadable THEN 0 ELSE header.stamp]

(* HvInitializeHive: HvMapHive or HvLoadHive, then HvpDoWriteHive when the *)
(* hive was recovered, which does nothing when nothing is dirty.           *)
HvLoadHive ==
  /\ stage = "Down" /\ Loads(now)
  /\ image' = ImageOf(now)
  /\ dirty' = IF NeedsRecovery(now) THEN Recovered(now) ELSE {}
  /\ base' = BaseOf(now)
  /\ loading' = (dirty' # {})
  /\ stage' = IF loading' THEN "FlushFirst" ELSE "Idle"
  /\ IF NeedsRecovery(now) /\ ~loading'
     THEN now' = CutOff(now) /\ maybe' = MayBeCutOff(maybe)
     ELSE UNCHANGED diskVars
  /\ promised' = {image'}
  /\ UNCHANGED <<failures, counters, exposed>>

(* What the disk may hold after a crash: any of the contents of each cell, *)
(* headers, vector and data apart.                                         *)
Unsettled == {c \in Cells : maybe[c] # {now[c]}}
Settled(C) == {d \in [C \intersect Unsettled -> UNION {maybe[c] : c \in C}] :
                 \A c \in DOMAIN d : d[c] \in maybe[c]}
AfterCrash ==
  {Over(h, Over(v, Over(d, now))) :
     h \in Settled(Headers), v \in Settled({LogVector}),
     d \in Settled(Cells \ (Headers \union {LogVector}))}

Crash ==
  /\ crashes < MaxCrashes
  /\ crashes' = crashes + 1
  /\ \E disk \in AfterCrash : now' = disk /\ maybe' = [c \in Cells |-> {disk[c]}]
  /\ image' = Damaged /\ dirty' = {} /\ base' = Loaded
  /\ stage' = "Down" /\ loading' = FALSE
  /\ UNCHANGED <<changes, failures, history>>
-----------------------------------------------------------------------------
(* A hive that was written and unloaded; different sectors differ. *)
InitHive ==
  /\ now = [c \in Cells |-> IF c = Header THEN Loaded
                            ELSE IF c \in Log THEN Unreadable ELSE -c[3]]
  /\ maybe = [c \in Cells |-> {now[c]}]
  /\ image = Damaged /\ dirty = {} /\ base = Loaded
  /\ stage = "Down" /\ loading = FALSE
  /\ changes = 0 /\ failures = 0 /\ crashes = 0
  /\ promised = {InPrimary(now)} /\ exposed = FALSE

DoWriteHive == WriteHeader \/ WriteData \/ WriteDone \/ FlushPrimary \/ FlushDone
WriteLog == WriteLogBody \/ WriteLogDone \/ FlushLog

NextHive ==
  \/ \E s \in Sector : HvMarkDirty(s)
  \/ HvSyncHive
  \/ WriteLog
  \/ DoWriteHive
  \/ HvLoadHive
  \/ Crash

SpecHive == InitHive /\ [][NextHive]_varsHive

(* The calls in progress go on; the system starts again after a crash. *)
Fairness == WF_varsHive(WriteLog) /\ WF_varsHive(DoWriteHive) /\ WF_varsHive(HvLoadHive)
FairSpecHive == SpecHive /\ Fairness
-----------------------------------------------------------------------------
Contents(c) ==
  {Unreadable} \union
    IF c \in {Header, LogHeader} THEN [equal : BOOLEAN, stamp : 0..MaxChanges]
    ELSE IF c = LogVector THEN SUBSET Sector
    ELSE -Sectors..MaxChanges
Image == [Sector -> {Unreadable} \union (-Sectors..MaxChanges)]

TypeOKHive ==
  /\ \A c \in Cells : now[c] \in maybe[c] /\ maybe[c] \subseteq Contents(c)
  /\ image \in Image /\ dirty \subseteq Sector
  /\ base \in [equal : BOOLEAN, stamp : 0..MaxChanges]
  /\ stage \in {"Down", "Idle"} \union DOMAIN Follows \union {"FlushDone"}
  /\ loading \in BOOLEAN /\ exposed \in BOOLEAN
  /\ changes \in 0..MaxChanges /\ failures \in 0..MaxFailures /\ crashes \in 0..MaxCrashes
  /\ promised \subseteq Image

(* Whenever the system crashes, and whatever of the unflushed writes is on *)
(* disk then, the next load succeeds and finds the image of the last sync, *)
(* or that of one that began since, and never a mixture: whenever the      *)
(* primary may be incomplete, the log is complete.  exposed is the gap in  *)
(* this: HvSyncHive does not notice that only the very last write or flush *)
(* of the sync before failed, and overwrites a log that may be needed.     *)
Recoverable ==
  /\ TypeOKHive
  /\ ~exposed => \A disk \in AfterCrash : Loads(disk) /\ ImageOf(disk) \in promised

(* The hive is loaded in the end, whatever crashes and failures came in    *)
(* between, also those of a recovery.                                      *)
LoadEnds == stage = "Down" ~> stage = "Idle"
=============================================================================
