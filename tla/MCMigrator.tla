----------------------------- MODULE MCMigrator -----------------------------
(***************************************************************************)
(* Migrator with the five files of migrations/, reduced to the objects     *)
(* they add and drop.                                                      *)
(***************************************************************************)
EXTENDS Migrator

CreateTable(names) == [makes |-> names, drops |-> {}, guarded |-> TRUE]
InsertIgnore(rows) == [makes |-> {rows}, drops |-> {}, guarded |-> TRUE]
Rerunnable(change) == [makes |-> {change}, drops |-> {}, guarded |-> TRUE]
Alter(adds, drops) == [makes |-> adds, drops |-> drops, guarded |-> FALSE]

InitFile == <<
    CreateTable({"locker_station"}),
    CreateTable({"locker", "ix_locker_station_status"}),
    CreateTable({"package"}),
    CreateTable({"locker_assignment"}),
    CreateTable({"storage_rate", "ix_storage_rate_lookup"}) >>

SeedFile == << InsertIgnore("default station"), InsertIgnore("default rates") >>

StorageRateVersionsFile == <<
    Alter({"storage_rate.created_at", "storage_rate.updated_at"}, {}),
    Rerunnable("backfill"),
    Rerunnable("created_at NOT NULL"),
    Alter({"uq_storage_rate_band"}, {"ix_storage_rate_lookup"}) >>

ListingSortIndexesFile == <<
    Alter({"ix_locker_code", "ix_locker_created_at"}, {}),
    Alter({"ix_package_created_at"}, {}) >>

LockerSizeRankFile == <<
    Alter({"locker.size_rank"}, {}),
    Alter({"ix_locker_allocation"}, {"ix_locker_station_status"}) >>

MigrationFiles ==
    << InitFile, SeedFile, StorageRateVersionsFile, ListingSortIndexesFile,
       LockerSizeRankFile >>

SchemaObjects ==
    UNION {MigrationFiles[f][k].makes : <<f, k>> \in
        {<<g, j>> \in (1 .. 5) \X (1 .. 5) : j \in DOMAIN MigrationFiles[g]}}
=============================================================================
