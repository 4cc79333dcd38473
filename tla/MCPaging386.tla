---------------------------- MODULE MCPaging386 -----------------------------
(* A small instance of Paging386: pages of two cells, four pages.  Page 0   *)
(* is the directory, page 1 a table; the second directory entry makes the   *)
(* directory its own table.                                                 *)
EXTENDS Paging386

W(f, b) == [frame |-> f, bits |-> b]

URW == {"P", "RW", "US"}

\* Linear page 0 is readable by the user, page 1 writable by the user, pages 2
\* and 3 are the tables themselves, for the supervisor only.  With CR3 = 1 the
\* walk runs through data pages and finds entries that are not present.
MCInitMem ==
    {[c \in Cell |->
        CASE c = <<0, 0>> -> W(1, URW)
          [] c = <<0, 1>> -> W(0, {"P", "RW"})
          [] c = <<1, 0>> -> W(2, {"P", "US"})
          [] c = <<1, 1>> -> W(3, URW)
          [] OTHER -> W(0, {})]}

MCStoreWord == {W(2, URW)}
=============================================================================
