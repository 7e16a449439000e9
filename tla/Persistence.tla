---------------------------- MODULE Persistence -----------------------------
(***************************************************************************)
(* The store and its dump file over several lives of the server: commands, *)
(* dumps written entry by entry, processes killed at any moment (SIGTERM   *)
(* is not caught, and neither is an exception), and restarts that load     *)
(* what is on disk.                                                        *)
(***************************************************************************)
EXTENDS Database, DumpFile

CONSTANT MaxCommands  \* bound: commands executed over all lives

ASSUME PersistenceAssumption == MaxCommands \in Nat

VARIABLES
    phase,     \* what the process is doing
    file,      \* the lines of dump.my_db
    pending,   \* the entries that the dump in progress has still to write
    dumped,    \* ghost: the entries of the store when the last dump began, or
               \* those the process started with
    commands   \* number of commands executed so far

persistenceVars == <<dbVars, phase, file, pending, dumped, commands>>

Entries == EntriesOf(kv_store, list_store, hash_store)

Init ==
    /\ DBInit
    /\ phase = "serving"
    /\ file = <<>>
    /\ pending = {}
    /\ dumped = {}
    /\ commands = 0

Command ==
    /\ phase = "serving"
    /\ commands < MaxCommands
    /\ DBNext
    /\ commands' = commands + 1
    /\ UNCHANGED <<phase, file, pending, dumped>>

\* Opening the stream truncates the file.
DumpOpen ==
    /\ phase = "serving"
    /\ phase' = "dumping"
    /\ file' = <<>>
    /\ pending' = Entries
    /\ dumped' = Entries
    /\ UNCHANGED <<dbVars, commands>>

\* Strings come first, then lists, then hashes, each table in its own order.
ComesBefore(tag, other) ==
    \/ tag = "K" /\ other \in {"L", "H"}
    \/ tag = "L" /\ other = "H"

\* A slip: nothing is written for an entry without content.
DumpEntry_NotEmpty ==
    /\ phase = "dumping"
    /\ \E entry \in pending :
          /\ \A other \in pending : ~ComesBefore(other[1], entry[1])
          /\ pending' = pending \ {entry}
          /\ IF Words(entry[1], entry[3]) = {<<>>}
             THEN UNCHANGED file
             ELSE \E line \in LinesOf(entry) : file' = Append(file, line)
    /\ UNCHANGED <<dbVars, phase, dumped, commands>>

DumpEntry ==
    /\ phase = "dumping"
    /\ \E entry \in pending :
          /\ \A other \in pending : ~ComesBefore(other[1], entry[1])
          /\ pending' = pending \ {entry}
          /\ \E line \in LinesOf(entry) : file' = Append(file, line)
    /\ UNCHANGED <<dbVars, phase, dumped, commands>>

\* A slip: the file closed before the hashes are written.
DumpClose_BeforeHashes ==
    /\ phase = "dumping"
    /\ \A entry \in pending : entry[1] = "H"
    /\ phase' = "serving"
    /\ UNCHANGED <<dbVars, file, pending, dumped, commands>>

DumpClose ==
    /\ phase = "dumping"
    /\ pending = {}
    /\ phase' = "serving"
    /\ UNCHANGED <<dbVars, file, pending, dumped, commands>>

\* The process ends.  A dump in progress leaves a part of its file.
Kill ==
    /\ phase \in {"serving", "dumping"}
    /\ phase' = IF phase = "serving" THEN "down" ELSE "torn"
    /\ file' \in IF phase = "serving" THEN {file} ELSE CutFiles(file)
    /\ pending' = {}
    /\ kv_store' = EmptyMap
    /\ list_store' = EmptyMap
    /\ hash_store' = EmptyMap
    /\ expirey_map' = EmptyMap
    /\ UNCHANGED <<clock, dumped, commands>>

Start ==
    /\ phase \in {"down", "torn"}
    /\ phase' = "serving"
    /\ kv_store' = LoadTable(file, "K")
    /\ list_store' = LoadTable(file, "L")
    /\ hash_store' = LoadTable(file, "H")
    /\ dumped' = Entries'
    /\ UNCHANGED <<expirey_map, clock, file, pending, commands>>

Next == Command \/ DumpOpen \/ DumpEntry \/ DumpClose \/ Kill \/ Start

Spec == Init /\ [][Next]_persistenceVars
-----------------------------------------------------------------------------
(* Properties. *)

\* What a restart loads are tables of the same kinds as those that were
\* dumped, from a file cut anywhere too, and no dump is in progress but in a
\* process that dumps.
TypeOK ==
    /\ IsMap(kv_store, Texts, Texts)
    /\ IsMap(list_store, Texts, Seq(Texts))
    /\ DOMAIN hash_store \subseteq Texts
    /\ \A k \in DOMAIN hash_store : IsMap(hash_store[k], Texts, Texts)
    /\ phase \in {"serving", "dumping", "down", "torn"}
    /\ pending \subseteq dumped
    /\ phase # "dumping" => pending = {}
    /\ commands \in 0..MaxCommands

\* Database.cpp: "Memory -> File - dump()", "File -> Memory - load()".  While
\* the dump goes on, the file gives back the entries written so far, and from
\* then on, whatever commands follow and however the process ends, the
\* entries that the store held when the dump began: every string, list and
\* hash as it was, the empty ones included.
FileMatchesDump == phase # "torn" => EntriesLoaded(file) = dumped \ pending

\* A dump that is cut off loses entries, but of those that a restart finds at
\* most one, that of the last line, is not as the store had it: its value or
\* its key is shortened, or it is an entry with an empty key.
TornFileDamagesOneEntry ==
    phase = "torn" => Cardinality(EntriesLoaded(file) \ dumped) =< 1
=============================================================================
