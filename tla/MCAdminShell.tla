---------------------------- MODULE MCAdminShell ----------------------------
(* AdminShell for TLC: sets of extensions the host may register, among     *)
(* them some the server refuses, with pages that hide and clash.           *)
EXTENDS AdminShell

Tools == {<<"tools", "read">>}

EmbeddedPage(slug, read) ==
  [slug |-> slug, route |-> <<"pages">> \o slug, screen |-> "embed", read |-> read]

Embed(navRead) == EmbedPageExtension(<<"e">>, EmbeddedPage(<<"stats">>, Tools), navRead)
Queues         == BullmqQueueExtension(<<"mail", "jobs">>,
                    << [resource |-> "books", queues |-> <<"mail", "gone">>],
                       [resource |-> "tags", queues |-> <<"gone">>] >>)
ToQueues       == DashboardLinkWidgetExtension(<<"w">>, "page-link", <<"queues-overview">>,
                                               None, Tools)
ToNowhere      == DashboardLinkWidgetExtension(<<"w">>, "page-link", <<"gone">>, None, Tools)
ToHref         == DashboardLinkWidgetExtension(<<"h">>, "href", None, None, {})
NavToNowhere   == [Embed({}) EXCEPT !.pages = <<>>]
Anonymous      == [Embed({}) EXCEPT !.id = None]
(* A page of the host at the address of a queue's page.                    *)
Rival          == [Empty EXCEPT !.id = <<"r">>,
                   !.pages = << [EmbeddedPage(<<"rival">>, Tools) EXCEPT
                                   !.route = <<"queues", Param>>] >>]

(* The fields of a book refer to tags, of a tag to books and to a resource *)
(* that nobody registers.                                                  *)
Relations(resources) ==
  {<<"books", "tags">>, <<"tags", "books">>, <<"tags", "shelves">>}
  \cap (ToSet(resources) \X STRING)

Application(resources, extensions, enabled) ==
  [ resources |-> resources, relations |-> Relations(resources), extensions |-> extensions,
    audit |-> [enabled |-> enabled, read |-> {<<"audit", "read">>}] ]

MCRegistered ==
  [ all       |-> Application(<<"books", "tags", "books">>, <<Queues, Embed({}), ToQueues, ToHref>>, TRUE),
    clash     |-> Application(<<"queues", "books">>, <<Rival, Queues, Embed({<<"books", "read">>})>>, FALSE),
    pages     |-> Application(<<>>, <<ToQueues, Queues, Embed({})>>, TRUE),
    twice     |-> Application(<<"books">>, <<Queues, Queues>>, TRUE),
    dangling  |-> Application(<<"books">>, <<ToNowhere>>, TRUE),
    unlinked  |-> Application(<<"books">>, <<NavToNowhere>>, TRUE),
    anonymous |-> Application(<<"books">>, <<Anonymous>>, TRUE) ]

MCRights ==
  [ root   |-> [superuser |-> TRUE, permissions |-> {}],
    reader |-> [superuser |-> FALSE,
                permissions |-> {<<"books", "read">>, <<"queues", "read">>}],
    writer |-> [superuser |-> FALSE,
                permissions |-> {<<"books", "read">>, <<"books", "write">>, <<"tags", "read">>,
                                 <<"tools", "read">>, <<"audit", "read">>,
                                 <<"queues", "write">>}] ]
=============================================================================
