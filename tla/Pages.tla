-------------------------------- MODULE Pages --------------------------------
(***************************************************************************)
(* The work pages of the product.  The controllers are created together    *)
(* (ProductWorkspace.vue, createControllers) and share nothing but the     *)
(* server, so a behaviour is one of any of them: `page` says which.        *)
(***************************************************************************)
EXTENDS ListController

CONSTANTS MaxLoads, MaxFailures     \* bounds of either page

ASSUME BoundsArePositive == MaxLoads \in Nat \ {0} /\ MaxFailures \in Nat

VARIABLES page,
          list,      \* of the files page and of the administration pages
          lists,     \* of the scheduler page
          calls, roles, deletion,    \* of the administration pages
          loads, shown, job, pending, can, granted, written,
          loadsLeft, failuresLeft, settled

Files     == INSTANCE FilesPage
(* Three projections instead of one: fewer loads, one filter. *)
Scheduler == INSTANCE SchedulerPage WITH Filter <- {NoFilter}, MaxLoads <- MaxLoads - 1
(* Its queries differ by their pages. *)
Administration == INSTANCE AdministrationPage WITH Filter <- {NoFilter}

vars == <<page, list, lists, calls, roles, deletion, loads, shown, job, pending, can,
          granted, written, loadsLeft, failuresLeft, settled>>
callVars == <<calls, roles, deletion>>
NoCalls  == calls = {} /\ roles = 0 /\ deletion = "none"

Init ==
  \/ page = "files" /\ Files!Init /\ lists = <<>> /\ NoCalls
  \/ page = "scheduler" /\ Scheduler!Init /\ list = <<>> /\ NoCalls
  \/ page = "administration" /\ Administration!Init /\ lists = <<>>

Next ==
  \/ page = "files" /\ Files!Next /\ UNCHANGED <<page, lists, callVars>>
  \/ page = "scheduler" /\ Scheduler!Next /\ UNCHANGED <<page, list, callVars>>
  \/ page = "administration" /\ Administration!Next /\ UNCHANGED <<page, lists>>

Spec == Init /\ [][Next]_vars

-----------------------------------------------------------------------------
(* What every page keeps in its variables, and that a refresh after a write *)
(* is under way exactly while one load answers to it.                       *)
PagesTypeOK ==
  /\ page = "files" => Files!TypeOK
  /\ page = "scheduler" => Scheduler!TypeOK
  /\ page = "administration" => Administration!TypeOK

(* After an operation failed because the session, the right or the service  *)
(* is gone, no older answer shows rows again; the administration pages,     *)
(* which have no sequence, are left with the exception stated there.        *)
FailsClosed ==
  /\ page = "files" => Files!FailsClosed
  /\ page = "scheduler" => Scheduler!FailsClosed
  /\ page = "administration" => Administration!FailsClosed

(* A list at rest shows what was asked for last, whatever order the answers *)
(* came in.                                                                 *)
NewestIsShown ==
  /\ page = "files" => Files!NewestIsShown
  /\ page = "scheduler" => Scheduler!NewestIsShown
  /\ page = "administration" => Administration!NewestIsShown

(* A write the user was told of is on the page, unless a repair is asked    *)
(* for; not so on the scheduler page, and on the administration pages with  *)
(* the exceptions stated there.                                             *)
WriteIsShown ==
  /\ page = "files" => Files!WriteIsShown
  /\ page = "administration" => Administration!WriteIsShown
=============================================================================
