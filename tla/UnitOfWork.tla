----------------------------- MODULE UnitOfWork -----------------------------
(***************************************************************************)
(* What a database session of the backend does with the rows it holds.     *)
(*                                                                         *)
(* app/database.py gives every request (get_db) and every worker message   *)
(* (AsyncSessionLocal) a session with expire_on_commit=False and           *)
(* autoflush=False on PostgreSQL's default READ COMMITTED level.  A row is  *)
(* read once, kept in the identity map, changed in memory, and written by  *)
(* the flush as an UPDATE of the columns whose value differs from the one  *)
(* that was read.  Nothing in the code locks a row or checks a version, so *)
(* a column another session committed in between is kept when this session *)
(* left it alone and overwritten when it did not.                          *)
(***************************************************************************)

(* The column an UPDATE leaves behind: `cur` is the committed value the    *)
(* UPDATE finds, `read` the value the session loaded, `mine` the value the *)
(* session holds when it flushes.                                          *)
Flushed(cur, read, mine) == IF mine = read THEN cur ELSE mine
=============================================================================
