----------------------------- MODULE FileAccess -----------------------------
(***************************************************************************)
(* The file access API of the binding (GS_compss.cc): the application      *)
(* opens a file it passes to tasks through compss_ifstream, compss_ofstream *)
(* or compss_fopen, which first tell the runtime how the file is accessed  *)
(* (GS_Get_File(name, direction, &runtime_name)) and then open the name    *)
(* the runtime returns; compss_delete_file forwards to GS_Delete_File.     *)
(* The runtime uses the direction to decide whether the current version    *)
(* must be fetched (in, inout) and whether a new version is produced       *)
(* (out, inout).  A mode is the sequence of its characters; the runtime    *)
(* calls are recorded in order.                                            *)
(***************************************************************************)
EXTENDS Sequences, Functions

CONSTANTS
    Names,       \* file names the application uses
    Modes,       \* mode strings the application passes to compss_fopen
    MaxOpens     \* calls the application makes

Dirs == {"in", "out", "inout"}

VARIABLES
    rtCalls      \* the runtime calls made: GS_Get_File and GS_Delete_File

vars == <<rtCalls>>

Init == rtCalls = <<>>

GetFile(n, m, d) == [op |-> "get", name |-> n, mode |-> m, dir |-> d]

\* compss_fopen's if/else-if chain over strcmp(mode, ...); no branch matches
\* any other mode, and dir keeps whatever the stack held: a direction or a
\* value that is none.
DirsOfMode(m) ==
    CASE m = <<"r">> -> {"in"}
      [] m = <<"w">> -> {"out"}
      [] m = <<"a">> -> {"inout"}
      [] m = <<"r", "+">> -> {"inout"}
      [] m = <<"w", "+">> -> {"out"}
      [] m = <<"a", "+">> -> {"inout"}
      [] OTHER -> Dirs \cup {"garbage"}

\* ifs.open(runtime_filename): read, after GS_Get_File(name, in_dir).
Ifstream(n) ==
    /\ Len(rtCalls) < MaxOpens
    /\ rtCalls' = Append(rtCalls, GetFile(n, <<"r">>, "in"))

\* ofs.open(runtime_filename): truncate and write, after out_dir.
Ofstream(n) ==
    /\ Len(rtCalls) < MaxOpens
    /\ rtCalls' = Append(rtCalls, GetFile(n, <<"w">>, "out"))

\* GS_Get_File(filename, dir, ...), then fopen(runtime_filename, mode).
Fopen(n, m) ==
    /\ Len(rtCalls) < MaxOpens
    /\ \E d \in DirsOfMode(m) : rtCalls' = Append(rtCalls, GetFile(n, m, d))

\* GS_Delete_File(filename).
DeleteFile(n) ==
    /\ Len(rtCalls) < MaxOpens
    /\ rtCalls' = Append(rtCalls, [op |-> "delete", name |-> n, mode |-> <<>>, dir |-> "none"])

Next ==
    \E n \in Names :
        \/ Ifstream(n)
        \/ Ofstream(n)
        \/ \E m \in Modes : Fopen(n, m)
        \/ DeleteFile(n)

Spec == Init /\ [][Next]_vars

-----------------------------------------------------------------------------
\* What C's fopen does with the file's content: r and a keep it (a appends
\* to it), w truncates it; w, a and any mode with '+' write.
KeepsContent(m) == m[1] \in {"r", "a"}
WritesContent(m) == m[1] \in {"w", "a"} \/ "+" \in Range(m)

\* The direction that tells the runtime exactly that.
DirNeeded(m) ==
    IF KeepsContent(m)
    THEN IF WritesContent(m) THEN "inout" ELSE "in"
    ELSE "out"

(***************************************************************************)
(* Every file the application opens through the API was announced to the  *)
(* runtime with the direction its mode needs: the runtime fetches the      *)
(* current version when the mode keeps the content and expects a new one   *)
(* when the mode writes (spec section 6, resolveFile(name, direction)).    *)
(***************************************************************************)
AccessAnnouncedToRuntime ==
    \A i \in DOMAIN rtCalls :
        rtCalls[i].op = "get" => rtCalls[i].dir = DirNeeded(rtCalls[i].mode)

=============================================================================
