---------------------------- MODULE MCToolCalls ----------------------------
(* Components that share nothing, in one run: an initial state picks the   *)
(* one that moves, the others stay where they begin.                       *)
EXTENDS Listings, SourceCoverage, Availability, TeamDirectories, DraftRecipients,
        Creations, ToolRequests, DownloadRoute

VARIABLE component

vars == <<listVars, coverageVars, report, dirVars, draft, createVars, reqVars,
          routeVars, component>>

MCGuests == {<<"a">>, <<"a", "b">>, <<"b", "a", "b">>}

MCLists == {<<>>, <<"me">>, <<"b">>, <<"a", "me", "a">>}

Known(people) == [usable |-> TRUE, contacts |-> people]
MCAnswers ==
    LET requester == RequesterContact
        other == [requester EXCEPT !.name = "other"]
    IN  {[usable |-> FALSE, contacts |-> <<>>], Known(<<>>), Known(<<requester>>),
         Known(<<[requester EXCEPT !.mail = "invalid"]>>), Known(<<other>>),
         Known(<<[requester EXCEPT !.isDict = FALSE]>>), Known(<<requester, other>>)}

Components == {"Listings", "SourceCoverage", "Availability", "TeamDirectories",
               "DraftRecipients", "Creations", "ToolRequests", "DownloadRoute"}

AtRest(c, choice) == component = c \/ choice

MCInit ==
    /\ component \in Components
    /\ CoverageInit /\ AtRest("SourceCoverage", asking = "list_folders")
    /\ ListingInit
    /\ AtRest("Listings",
              /\ tool = "find_message" /\ \A r \in Rows : \A t \in Times : time[r] <= t
              /\ position = [r \in Rows |-> r])
    /\ DirectoryInit
    /\ AtRest("TeamDirectories",
              /\ directory = [target |-> Absent, members |-> {}] /\ sound = {}
              /\ \A o \in Ops : by[o] = CHOOSE e \in Employees : TRUE)
    /\ CreateInit
    /\ AtRest("Creations", (\A k \in Creates : what[k] = "draft") /\ ~sendOn /\ ~original)
    /\ AvailabilityInit /\ DraftInit /\ RequestInit /\ RouteInit

MCNext ==
    /\ \/ /\ component = "Listings" /\ ListingNext
          /\ UNCHANGED <<coverageVars, report, dirVars, draft, createVars, reqVars, routeVars>>
       \/ /\ component = "SourceCoverage" /\ CoverageNext
          /\ UNCHANGED <<listVars, report, dirVars, draft, createVars, reqVars, routeVars>>
       \/ /\ component = "Availability" /\ AvailabilityNext
          /\ UNCHANGED <<listVars, coverageVars, dirVars, draft, createVars, reqVars, routeVars>>
       \/ /\ component = "TeamDirectories" /\ DirectoryNext
          /\ UNCHANGED <<listVars, coverageVars, report, draft, createVars, reqVars, routeVars>>
       \/ /\ component = "DraftRecipients" /\ DraftNext
          /\ UNCHANGED <<listVars, coverageVars, report, dirVars, createVars, reqVars, routeVars>>
       \/ /\ component = "Creations" /\ CreateNext
          /\ UNCHANGED <<listVars, coverageVars, report, dirVars, draft, reqVars, routeVars>>
       \/ /\ component = "ToolRequests" /\ RequestNext
          /\ UNCHANGED <<listVars, coverageVars, report, dirVars, draft, createVars, routeVars>>
       \/ /\ component = "DownloadRoute" /\ RouteNext
          /\ UNCHANGED <<listVars, coverageVars, report, dirVars, draft, createVars, reqVars>>
    /\ UNCHANGED component

MCSpec == MCInit /\ [][MCNext]_vars /\ \A c \in Calls : WF_reqVars(Proceed(c))
=============================================================================
