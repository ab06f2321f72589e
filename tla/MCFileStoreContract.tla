------------------------ MODULE MCFileStoreContract ------------------------
(* The refinement of ObjectStore by FileStore, on the constants of MCFileStore. *)
EXTENDS MCFileStore, FileStoreContract
============================================================================
