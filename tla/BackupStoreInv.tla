--------------------------- MODULE BackupStoreInv ---------------------------
(***************************************************************************)
(* The inductive invariant of BackupStore: what each operation may rely on *)
(* at each of its steps because it holds the lock of its server, and what  *)
(* the records, the identifiers and the announcements keep between steps.  *)
(***************************************************************************)
EXTENDS BackupStore

Records(s) == {i \in Ids : rows[i].srv = s /\ rows[i].status # "none"}

\* Past lockOperation's first wait.
Holds(w) == pc[w] \notin {"idle", "lock"}

\* A backup or an upload that has no identifier yet.
Unnumbered(w) ==
    job[w].op \in CreateOps /\ pc[w] \in {"lock", "slot", "check", "b_insert", "u_save"}

Sweeping(w) == pc[w] \in {"c_plan", "remove", "drop", "c_trash", "c_end"}

-----------------------------------------------------------------------------
(* The records.                                                            *)

\* A record that is protected is a success outside the trash, a pending one is outside
\* the trash too, and every record belongs to a server.
RowsInv ==
    \A i \in Ids :
        /\ rows[i].protected => rows[i].status = "completed" /\ rows[i].deleted = 0
        /\ rows[i].status = "pending" => rows[i].deleted = 0
        /\ rows[i].status # "none" => rows[i].srv \in Servers

\* Identifiers are given out in order, and there is one left for every backup begun.
NumbersInv ==
    /\ \A i \in Ids : i > made => rows[i].status = "none"
    /\ made + budget.backups + Cardinality({w \in Workers : Unnumbered(w)}) <= MaxBackups

-----------------------------------------------------------------------------
(* One operation.                                                          *)

\* Where each operation may be, and that it holds its server's lock there.
Control(w) ==
    /\ pc[w] = "idle" => job[w] = NoJob
    /\ pc[w] # "idle" => Of(w) \in Servers /\ job[w].op \in AllOps
    /\ pc[w] = "check" => job[w].op \in {"backup", "restore"}
    /\ pc[w] \in {"b_insert", "b_archive", "b_save", "b_fail", "b_commit"} => job[w].op = "backup"
    /\ pc[w] \in {"u_save", "u_insert"} => job[w].op = "upload"
    /\ pc[w] \in {"r_get", "r_stage", "r_aside", "r_swap", "r_back"} => job[w].op = "restore"
    /\ pc[w] \in {"c_plan", "c_trash", "c_end"} => job[w].op \in CreateOps \union SweepOps
    /\ pc[w] \in {"remove", "drop"} => job[w].op \in CreateOps \union SweepOps \union {"purge"}
    /\ pc[w] = "g_get" => job[w].op \in ChangeOps
    /\ pc[w] = "g_write" => job[w].op \in ChangeOps \ {"purge"}
    /\ Holds(w) => lock[Of(w)] = w
    /\ w \in slots => Holds(w) /\ pc[w] # "slot"

\* A record that is read by its identifier belongs to the operation's server; the one
\* an operation creates is its own, and the newest of the server.
Numbered(w) ==
    /\ Id(w) \in 0..made
    /\ job[w].op \in ChangeOps \union {"restore"} =>
          Id(w) # 0 /\ (rows[Id(w)].status # "none" => rows[Id(w)].srv = Of(w))
    /\ job[w].op \in CreateOps /\ ~Unnumbered(w) =>
          Id(w) # 0 /\ \A i \in Records(Of(w)) : i <= Id(w)
    /\ pc[w] = "u_insert" =>
          rows[Id(w)].status = "none" /\ \A u \in Workers \ {w} : Id(u) # Id(w)
    /\ pc[w] \in {"b_archive", "b_save", "b_fail", "b_commit"} =>
          Id(w) \in Records(Of(w)) /\ rows[Id(w)].status = "pending"

\* What a sweep has planned for is still so, and the record it made is out of its reach.
Planned(w) ==
    /\ pc[w] \notin {"remove", "drop", "c_trash", "c_end"} => plan[w] = NoPlan
    /\ pc[w] \in {"remove", "drop"} =>
          IF job[w].op = "purge"
          THEN plan[w] = NoPlan /\ Id(w) \in InTrash(Of(w)) /\ ~rows[Id(w)].protected
          ELSE plan[w].purge # {}
    /\ pc[w] = "drop" => archive[Doomed(w)] = 0
    /\ pc[w] = "c_trash" => plan[w].purge = {} /\ plan[w].trash # {}
    /\ pc[w] = "c_end" => plan[w] = NoPlan
    /\ \A i \in plan[w].purge : i \in InTrash(Of(w)) /\ ~rows[i].protected
    /\ \A i \in plan[w].trash :
          /\ i \in Successful(Of(w)) /\ ~rows[i].protected
          /\ \E j \in Successful(Of(w)) \ plan[w].trash : j > i
    /\ Sweeping(w) /\ job[w].op \in CreateOps => Id(w) \in Successful(Of(w)) \ plan[w].trash

\* Once what is planned for the trash is there, the count of the policy is met.
Spare(s) == {i \in Successful(s) : ~rows[i].protected}
OnCourse(w) ==
    /\ Sweeping(w) /\ pc[w] # "c_plan" /\ job[w].op \notin {"empty", "purge"}
    /\ clean[w] /\ policy[Of(w)].keep > 0
    => Cardinality(Spare(Of(w)) \ plan[w].trash) <= policy[Of(w)].keep

\* A restore has a successful snapshot in hand, then its content, and then the files it
\* replaces are beside the data directory.
Restoring(w) ==
    /\ pc[w] \in {"r_stage", "r_aside", "r_swap", "r_back"} => Id(w) \in Successful(Of(w))
    /\ pc[w] \in {"r_aside", "r_swap"} => tmp[w] = archive[Id(w)] /\ tmp[w] # 0
    /\ pc[w] \in {"r_swap", "r_back"} => world[Of(w)] = 0 /\ kept[Of(w)] # <<>>

\* A change writes to the record it has read.
Changing(w) == pc[w] = "g_write" => Changeable(job[w].op, rows[Id(w)])

OpInv(w) ==
    Control(w) /\ Numbered(w) /\ Planned(w) /\ OnCourse(w) /\ Restoring(w) /\ Changing(w)

BInv ==
    /\ TypeOK /\ RowsInv /\ NumbersInv /\ AnnouncedTruthfully
    /\ \A w \in Workers : OpInv(w)

-----------------------------------------------------------------------------
(* What an operation grants the others: the step of w changes only records *)
(* and files of the server whose lock it holds, nobody's locals, and gives *)
(* out an identifier that nobody has.                                      *)

SameLocals(u) ==
    /\ pc'[u] = pc[u] /\ job'[u] = job[u] /\ tmp'[u] = tmp[u]
    /\ plan'[u] = plan[u] /\ clean'[u] = clean[u]
    /\ u \in slots' <=> u \in slots
    /\ \A s \in Servers : lock[s] = u => lock'[s] = u

\* The identifier w has after its step is not one that is about to be inserted.
Distinct(w) == \A u \in Workers \ {w} : pc[u] = "u_insert" => job'[w].id # Id(u)

\* The step of w changes only what belongs to the server it holds.
Leaves(w) ==
    /\ ~Holds(w) => UNCHANGED <<rows, disk, policy>>
    /\ \A i \in Ids : rows'[i] # rows[i] \/ archive'[i] # archive[i] =>
          /\ rows[i].status = "none" \/ rows[i].srv = Of(w)
          /\ rows'[i].status = "none" \/ rows'[i].srv = Of(w)
    /\ \A i \in Ids : rows[i].status = "none" /\ rows'[i].status # "none" =>
          \A u \in Workers \ {w} : Id(u) # i
    /\ \A s \in Servers \ {Of(w)} :
          world'[s] = world[s] /\ kept'[s] = kept[s] /\ policy'[s] = policy[s]
    /\ made' >= made

Guarantee(w) == (\A u \in Workers \ {w} : SameLocals(u)) /\ Distinct(w) /\ Leaves(w)
=============================================================================
