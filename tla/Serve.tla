------------------------------- MODULE Serve ---------------------------------
(***************************************************************************)
(* The part of the process that answers requests: record queries, labels   *)
(* and reports, lexicons, settings.  They share the database, the clock    *)
(* and the process, which a lexicon upload restarts.                       *)
(***************************************************************************)
EXTENDS Pages, LexiconAdmin, AdminSettings

vars == <<now, quota, labelVars, pageVars, lexiconVars, adminVars>>

Init ==
    /\ now = 0 /\ quota \in Quotas
    /\ LabelsInit /\ PagesInit /\ LexiconInit /\ AdminInit

Tick ==
    /\ now < MaxTime /\ Spend("tick") /\ now' = now + 1
    /\ UNCHANGED <<labelVars, record, pds, query, lexiconVars, adminVars>> /\ KeepSteady

\* The process starts again on its database, after a crash or when it has drained;
\* the table of lexicons may be unreadable at that moment.  Clients go on paging.
Restart ==
    /\ \/ Spend("crash") /\ Start(lexicons)
       \/ Drained /\ Start(lexicons)
       \/ Spend("fault") /\ draining /\ (\A c \in Curators : change[c] = Rest) /\ Start(<<>>)
    /\ LabelsCrash /\ AdminBoot
    /\ UNCHANGED <<now, pageVars>>

Next ==
    \/ mounted /\ ~draining /\ ReadNext /\ UNCHANGED <<now, labelVars, lexiconVars, adminVars>>
    \/ WriteNext /\ UNCHANGED <<now, labelVars, lexiconVars, adminVars>> /\ KeepSteady
    \/ LabelsNext /\ UNCHANGED <<now, record, pds, query, lexiconVars, adminVars>> /\ KeepSteady
    \/ (LexiconNext \/ TakeRestart) /\ UNCHANGED <<now, labelVars, pageVars, adminVars>>
    \/ AdminNext /\ UNCHANGED <<now, labelVars, pageVars, lexiconVars>>
    \/ Tick \/ Restart

Spec == Init /\ [][Next]_vars

-----------------------------------------------------------------------------

\* Paging shows every row that is there throughout exactly once, whatever changes
\* between two pages: a client's record connection (resolveRecordConnection over
\* GetByCollectionFiltered) and an administrator's lists (GetPaginated).
PagingExact == WalkExact /\ ListExact
=============================================================================
