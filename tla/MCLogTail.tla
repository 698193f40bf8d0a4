---- MODULE MCLogTail ----
(* Three lines, two inodes: room for a rename, a file with a reused inode  *)
(* and a truncation in any order, in the middle of any pass.               *)
EXTENDS LogTail
====
