------------------------------ MODULE Programs ------------------------------
(***************************************************************************)
(* Kernel/proc/fs.c: the table of programs that sys_spawn_process looks a  *)
(* name up in.  Programs are loaded by init at the start and by programs   *)
(* that run others, and removed by those (phylo.c, test_sync.c).           *)
(***************************************************************************)
EXTENDS Integers, Sequences, FiniteSets, SequencesExt

CONSTANTS MAX_FILE_ENTRIES, Names, EntryPoints,
          LongNames  \* the names of MAX_FILE_NAME_LEN characters or more

NotLoaded == "NULL"

\* The functions that are loaded are functions.
ASSUME ProgramsAssumption ==
  /\ MAX_FILE_ENTRIES \in Nat \ {0} /\ LongNames \subseteq Names
  /\ NotLoaded \notin EntryPoints

VARIABLES fs,      \* fs_entries: the first fs_entry_count of them
          program  \* ghost: what was loaded and not removed, by name

programVars == <<fs, program>>

\* The first entry with this name, 0 when there is none.
entry_index(t, name) ==
  LET found == {i \in DOMAIN t : t[i].name = name}
  IN IF found = {} THEN 0 ELSE CHOOSE i \in found : \A j \in found : i <= j

fs_load_again(t, name, entry) ==
  IF Len(t) >= MAX_FILE_ENTRIES \/ name \in LongNames THEN t
  ELSE Append(t, [name |-> name, entry_point |-> entry])

fs_load(t, name, entry) ==
  IF Len(t) >= MAX_FILE_ENTRIES \/ name \in LongNames \/ entry_index(t, name) # 0 THEN t
  ELSE Append(t, [name |-> name, entry_point |-> entry])

fs_get_entry(t, name) ==
  LET i == entry_index(t, name) IN IF i = 0 THEN NotLoaded ELSE t[i].entry_point

\* The entries behind the removed one move up.
fs_rm(t, name) ==
  LET i == entry_index(t, name)
  IN IF i = 0 THEN t
     ELSE [j \in 1 .. Len(t) - 1 |-> IF j < i THEN t[j] ELSE t[j + 1]]

fs_list_programs(t, max_count) ==
  [i \in 1 .. IF Len(t) < max_count THEN Len(t) ELSE max_count |-> t[i].name]

Load ==
  \E name \in Names, entry \in EntryPoints :
    /\ fs' = fs_load(fs, name, entry)
    /\ program' = IF Len(fs') > Len(fs) THEN [program EXCEPT ![name] = entry] ELSE program

Unload ==
  \E name \in Names :
    /\ fs' = fs_rm(fs, name)
    /\ program' = [program EXCEPT ![name] = NotLoaded]

ProgramsInit == fs = << >> /\ program = [name \in Names |-> NotLoaded]

ProgramsNext == Load \/ Unload

ProgramsSpec == ProgramsInit /\ [][ProgramsNext]_programVars

-----------------------------------------------------------------------------
\* The table is a map from names to entry points: through any loads, repeated
\* loads and removals a name finds the entry point it was loaded with, a
\* removed one finds nothing, and the list names each program once.
ProgramsAreMap ==
  /\ \A name \in Names : fs_get_entry(fs, name) = program[name]
  /\ LET all == fs_list_programs(fs, MAX_FILE_ENTRIES)
     IN /\ ToSet(all) = {name \in Names : program[name] # NotLoaded}
        /\ Cardinality(ToSet(all)) = Len(all)

=============================================================================
