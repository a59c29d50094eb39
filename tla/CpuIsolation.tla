---------------------------- MODULE CpuIsolation ----------------------------
(***************************************************************************)
(* The choice of cores in src/src/cpu_isolation.c.  Masks are sets of      *)
(* cores; num_blacklisted is the size of the blacklist.                    *)
(***************************************************************************)
EXTENDS Integers, FiniteSets

CONSTANT num_cores

Cores == 0 .. num_cores - 1

Lowest(S) == CHOOSE c \in S : \A d \in S : c <= d

\* cpu_isolation_migrate_current_thread: is there no core to migrate to?
all_blacklisted(blacklist) == Cardinality(blacklist) >= num_cores

\* A choice that forgets the blacklist.
get_next_available_any(blacklist, rr_cursor) == rr_cursor

\* cpu_isolation_get_next_available: the first core that is available when
\* they are tried round robin from rr_cursor on.
get_next_available(blacklist, rr_cursor) ==
  (rr_cursor + Lowest({i \in Cores :
                        (rr_cursor + i) % num_cores \notin blacklist}))
    % num_cores

next_cursor(new_core) == (new_core + 1) % num_cores

\* cpu_isolation_migrate_excluding_core: the candidates, and the one taken.
available_excluding(blacklist, core) == Cores \ (blacklist \cup {core})

migrate_excluding_core(blacklist, core) ==
  Lowest(available_excluding(blacklist, core))
=============================================================================
