------------------------------ MODULE Database ------------------------------
(***************************************************************************)
(* Database: init_global(), open(), close() and the destructor of g_db,    *)
(* around a catalog cache (a VolatileCatCache, as the build has it) whose  *)
(* initialization takes many steps and may throw.  Every open() takes the  *)
(* init data file that the flag init_data names.  The program calls one    *)
(* function at a time, catches what is thrown and goes on.                 *)
(***************************************************************************)
EXTENDS CatalogInit

CONSTANTS
  Paths,     \* database paths
  MaxLost    \* bound: caches that nothing points to

ASSUME DatabaseAssumption == MaxLost \in Nat

VARIABLES
  s_init_global_called,
  g_test_no_catcache,
  is_open,      \* m_initialized of the Database
  m_db_path,
  m_catcache,   \* whether there is a cache
  lost          \* number of caches that were never deleted

dbVars == <<s_init_global_called, g_test_no_catcache, is_open, m_db_path, m_catcache,
            lost>>
vars == <<catalogVars, dbVars>>

NoPath == "none"

\* g_db is a static object, all zero.
Init ==
  /\ CacheInit
  /\ pc = "idle"
  /\ s_init_global_called = FALSE
  /\ g_test_no_catcache \in BOOLEAN
  /\ is_open = FALSE /\ m_db_path = NoPath
  /\ m_catcache = FALSE
  /\ lost = 0

\* A second call is an error and changes nothing.
init_global ==
  /\ pc = "idle" /\ ~s_init_global_called
  /\ s_init_global_called' = TRUE
  /\ UNCHANGED <<catalogVars, g_test_no_catcache, is_open, m_db_path, m_catcache, lost>>

-----------------------------------------------------------------------------
\* open() closes the database that is open.  A cache that an open() before has
\* left when it threw is still there then, and is overwritten.
LeftBehind == m_catcache /\ ~is_open

\* The first part of open(), up to the initialization of the new cache; before
\* init_global() it throws.
CanOpen ==
  /\ pc = "idle" /\ s_init_global_called
  /\ LeftBehind => lost < MaxLost

OpenNoCatCache(path) ==
  /\ CanOpen /\ g_test_no_catcache
  /\ m_db_path' = path
  /\ is_open' = TRUE
  /\ UNCHANGED <<catalogVars, s_init_global_called, g_test_no_catcache, m_catcache, lost>>

\* With create = FALSE the new cache has no meta page, and reads a null pointer.
SetEarly == TRUE                                                     \* mutant
OpenUntilReturn == FALSE

OpenCatCache(path, create) ==
  /\ CanOpen /\ ~g_test_no_catcache
  /\ m_db_path' = path
  /\ lost' = IF LeftBehind THEN lost + 1 ELSE lost
  /\ m_catcache' = TRUE
  /\ is_open' = OpenUntilReturn
  /\ NewCache
  /\ pc' = IF create THEN "meta" ELSE "crashed"
  /\ UNCHANGED <<init, s_init_global_called, g_test_no_catcache>>

\* The call that has initialized the cache, or failed to.
OpenReturn ==
  /\ pc = "done"
  /\ is_open' = TRUE
  /\ pc' = "idle"
  /\ UNCHANGED <<init, load, tabid2fid, m_systables, dbmeta, next, cache,
                 s_init_global_called, g_test_no_catcache, m_db_path, m_catcache, lost>>

OpenThrow ==
  /\ pc = "failed"
  /\ pc' = "idle"
  /\ UNCHANGED <<init, load, tabid2fid, m_systables, dbmeta, next, cache, dbVars>>

\* The program asks catcache() to initialize itself once more.
Reinitialize ==
  /\ pc = "idle" /\ m_catcache
  /\ InitializeAgain
  /\ UNCHANGED dbVars

\* close(), and the destructor at the end of the program.
CloseEffect ==
  /\ m_catcache' = FALSE
  /\ is_open' = FALSE
  /\ NewCache
  /\ UNCHANGED <<init, s_init_global_called, g_test_no_catcache, m_db_path, lost>>

close == pc = "idle" /\ CloseEffect /\ UNCHANGED pc

Destructor == pc = "idle" /\ CloseEffect /\ pc' = "exited"

Gone == pc \in {"crashed", "exited"} /\ UNCHANGED vars

Next ==
  \/ init_global
  \/ \E path \in Paths :
       \/ OpenNoCatCache(path)
       \/ \E create \in BOOLEAN : OpenCatCache(path, create)
  \/ Initialize /\ UNCHANGED dbVars
  \/ OpenReturn \/ OpenThrow
  \/ Reinitialize
  \/ close \/ Destructor
  \/ Gone

\* A call runs to its end; nothing makes the program begin one.
Call == (Initialize /\ UNCHANGED dbVars) \/ OpenReturn \/ OpenThrow

Spec == Init /\ [][Next]_vars /\ WF_vars(Call)

-----------------------------------------------------------------------------
\* A database that says it is open has a cache that is initialized, with all
\* it needs, from an init data file that is complete, whatever failed before.
OpenIsComplete ==
  is_open /\ ~g_test_no_catcache =>
    /\ m_catcache /\ m_initialized
    /\ m_table_desc = MinTables
    /\ WellFormed

\* As long as a database is open, nothing that is called or that fails changes
\* the catalog files, the meta page or the cache; a second
\* InitializeFromInitData() on the open cache, which throws, does not either.
OpenCatalogKept ==
  [][is_open /\ is_open' =>
       UNCHANGED <<m_systables, dbmeta, m_table_desc, types, m_initialized>>]_vars

\* Database.h, of close(): it "releases all the resources even if the database
\* ends up in an error state".
CloseReleases == pc = "idle" /\ ~m_catcache => lost = 0

\* Every open() comes to its end, and opens the database if its init data file
\* is complete.
OpenReturns ==
  /\ pc = "meta" ~> pc = "idle"
  /\ pc = "meta" /\ RawFileFree /\ WellFormed /\ NoIndex ~> is_open
=============================================================================
