------------------------------- MODULE MCSites -------------------------------
(***************************************************************************)
(* Small instances of the commands that bring a file to a site.  The       *)
(* modules share no state: each behaviour runs one of them.                *)
(***************************************************************************)
EXTENDS RedirectImport, BatchImport, SiteInitializer, OAuthInstall

\* Redirect maps: rows of the file, what their destinations are, and what is there.
Hop(source, to, permanent) == [source |-> source, to |-> to, permanent |-> permanent]
Stored0(to) == [to |-> to, permanent |-> TRUE]
Unslashed == [p \in {"/a", "a", "b", "c", "", "source"} |-> IF p = "/a" THEN "a" ELSE p]
RedirectLine == [clean |-> Unslashed, inside |-> {<<"a", "/a">>}, csv |-> FALSE, headers |-> {"source"},
                 remote |-> "a" :> Stored0("/z") @@ ("c" :> Stored0("/c2")),
                 check |-> FALSE, probe |-> TRUE, served |-> <<>>, ends |-> {<<"/web/y", "/y">>}]
SomeRedirects ==
  {[rows |-> rs, check |-> k, probe |-> p, served |-> s] @@ RedirectLine :
     rs \in {<<Hop("/a", "/x", ""), Hop("b", "/y", "302")>>, <<Hop("a", "/z", ""), Hop("b", "/y", "no")>>,
             <<Hop("a", "/x", ""), Hop("/a", "/y", "")>>, <<Hop("/a", "/a", "")>>, <<Hop("", "/x", "")>>},
     k \in BOOLEAN, p \in BOOLEAN, s \in {<<>>, "b" :> Stored0("/old"), "b" :> [to |-> "/web/y", permanent |-> FALSE]}}
  \cup {[rows |-> <<Hop("source", "to", ""), Hop("b", "/y", "")>>, csv |-> c] @@ RedirectLine : c \in BOOLEAN}

\* Batches of two items, one of which may be bad or there already.
Item(e, good) == [erc |-> e, good |-> good]
SomeBatches ==
  {[items |-> <<Item("i", TRUE), Item(e, g)>>, insert |-> n, continue |-> c, check |-> k, lookup |-> l, known |-> kn,
    existing |-> x] :
     e \in {"j", ""}, g \in BOOLEAN, n \in BOOLEAN, c \in BOOLEAN, k \in BOOLEAN, l \in BOOLEAN, kn \in BOOLEAN,
     x \in {{}, {"i"}}}

\* Sites of two pages, a menu and a template.
Declared(pages, definitions, legacy, broken) ==
  [pages |-> pages, definitions |-> definitions, broken |-> broken,
   menus |-> "main" :> [items |-> 2, legacy |-> legacy], templates |-> {[key |-> "k", name |-> "t"]}]
Whole == [pages |-> {"p", "q"}, menus |-> "main" :> 2, templates |-> {"t"}, by |-> "command"]
SomeSites ==
  {[erc |-> e, source |-> d, recreate |-> r, check |-> k, exists |-> x, creates |-> c, canReadTemplates |-> t] :
     e \in BOOLEAN, r \in BOOLEAN, k \in BOOLEAN, x \in BOOLEAN, t \in BOOLEAN,
     d \in {Declared({"p", "q"}, {"Root"}, FALSE, FALSE), Declared({"p", ""}, {"Root"}, FALSE, FALSE),
            Declared({"p"}, {"Root", "Section"}, FALSE, FALSE), Declared({"p"}, {"Root"}, TRUE, TRUE),
            Declared({"p"}, {"Root"}, TRUE, FALSE)},
     c \in {Whole, [Whole EXCEPT !.pages = {"p"}], [Whole EXCEPT !.menus = "main" :> 0],
            [Whole EXCEPT !.templates = {}]}}

\* Installations into a portal with and without the application.
Old == [id |-> 9, secret |-> 9, scopes |-> {"old"}]
Credentials(a, p) == [app |-> a, profile |-> p]
SomeOauth ==
  {Credentials(c[1], c[2]) @@ [mode |-> m, url |-> u, write |-> w, file |-> f, scopes |-> {"extra"}, up |-> TRUE] :
     m \in {"config", "gogo", "unblock"}, u \in BOOLEAN, w \in BOOLEAN, f \in {TRUE},
     c \in {<<NoCredentials, NoCredentials>>, <<Old, Old>>, <<Old, NoCredentials>>}}
  \cup {Credentials(NoCredentials, NoCredentials) @@
        [mode |-> "gogo", url |-> TRUE, write |-> TRUE, file |-> FALSE, scopes |-> {}, up |-> FALSE]}
BladeAgain ==
  {Credentials(NoCredentials, NoCredentials) @@
   [mode |-> "config", url |-> TRUE, write |-> TRUE, file |-> TRUE, scopes |-> {}, up |-> TRUE]}

siteCommandVars == <<redirVars, batchVars, siteVars, oauthVars>>
NoRedirect == (redir = CHOOSE c \in RedirectCases : TRUE) /\ RedirectStart("off")
NoBatch == (batch = CHOOSE c \in BatchCases : TRUE) /\ BatchStart("off")
NoSiteInit == (decl = CHOOSE c \in SiteCases : TRUE) /\ SiteStart("off")
NoOauth == (oauth = CHOOSE c \in OauthCases : TRUE) /\ OauthStart("off")
NoSiteCommand == NoRedirect /\ NoBatch /\ NoSiteInit /\ NoOauth
SiteCommandInit == \/ RedirectInit /\ NoBatch /\ NoSiteInit /\ NoOauth
                   \/ NoRedirect /\ BatchInit /\ NoSiteInit /\ NoOauth
                   \/ NoRedirect /\ NoBatch /\ SiteInit /\ NoOauth
                   \/ NoRedirect /\ NoBatch /\ NoSiteInit /\ OauthInit
SiteCommandNext == \/ RedirectNext /\ UNCHANGED <<batchVars, siteVars, oauthVars>>
                   \/ BatchNext /\ UNCHANGED <<redirVars, siteVars, oauthVars>>
                   \/ SiteNext /\ UNCHANGED <<redirVars, batchVars, oauthVars>>
                   \/ OauthNext /\ UNCHANGED <<redirVars, batchVars, siteVars>>

\* Only an installation.
OauthAlone == /\ NoRedirect /\ NoBatch /\ NoSiteInit /\ OauthInit
              /\ [][OauthNext /\ UNCHANGED <<redirVars, batchVars, siteVars>>]_siteCommandVars

\* What a file declares of a site, and what the portal is left with.
SiteCommandsAreFaithful == RedirectsAreFaithful /\ BatchIsFaithful /\ SiteIsFaithful /\ OAuthIsHonest
=============================================================================
