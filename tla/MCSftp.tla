------------------------------- MODULE MCSftp -------------------------------
(* Instances of Sftp for TLC: the transfers. *)
EXTENDS Sftp

Job(kind, size, old, resume, inplace, order) ==
    [kind |-> kind, size |-> size, old |-> old, resume |-> resume, inplace |-> inplace, order |-> order]

Orders == {"fifo", "any"}
Downloads ==
    {Job("download", n, 0, FALSE, FALSE, o) : n \in {0, 3, 5}, o \in Orders}
    \cup {Job("download", 3, n, TRUE, FALSE, o) : n \in {1, 4}, o \in Orders}
    \cup {Job("download", 3, 4, FALSE, TRUE, "any")}
Uploads ==
    {Job("upload", n, 0, FALSE, FALSE, o) : n \in {0, 5}, o \in Orders}
    \cup {Job("upload", 5, n, TRUE, FALSE, o) : n \in {1, 5}, o \in Orders}
    \cup {Job("upload", 5, 6, FALSE, TRUE, o) : o \in Orders}
Resumed == {j \in Uploads : j.resume}
Crossloads == {Job("crossload", n, 1, FALSE, FALSE, o) : n \in {0, 3}, o \in Orders}

All == Downloads \cup Uploads \cup Crossloads
=============================================================================
