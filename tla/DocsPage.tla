-------------------------------- MODULE DocsPage --------------------------------
(***************************************************************************)
(* The api's documentation in a browser (internal/user_api/swaggerui):     *)
(* index.html runs three scripts one after the other, and the page's load  *)
(* handler, which the last of them has set, builds the Swagger UI from     *)
(* what the other two define.  All files are embedded in the user api and  *)
(* served under /swagger, as long as it runs.                              *)
(*                                                                         *)
(* A script that cannot be fetched is skipped: the page goes on without    *)
(* it, and what misses it fails later.  A fetch fails when the user api    *)
(* does not run, and may fail when it does.                                *)
(***************************************************************************)
EXTENDS Naturals, Sequences

VARIABLES
    page,     \* how far the page has come
    fetched,  \* how many of the scripts have been fetched or given up
    defined   \* the scripts that have run

docsVars == <<page, fetched, defined>>

\* The script elements of index.html, and the files that are served.
Scripts == <<"bundle", "standalone preset", "initializer">>
SwaggerDist == {"bundle", "standalone preset", "initializer", "swagger.json", "index.html"}

\* What the handler names: SwaggerUIBundle, whose presets and plugins it reads,
\* too, and SwaggerUIStandalonePreset; and the document it asks for.
Uses == {"bundle", "standalone preset"}
DocumentUrl == "swagger.json"

DocsInit == page = "closed" /\ fetched = 0 /\ defined = {}

OpenDocs ==
    /\ page = "closed" /\ page' = "loading"
    /\ UNCHANGED <<fetched, defined>>

FetchScript(serving) ==
    /\ page = "loading" /\ fetched < Len(Scripts)
    /\ fetched' = fetched + 1
    /\ LET s == Scripts[fetched']
       IN \/ serving /\ s \in SwaggerDist /\ defined' = defined \cup {s}
          \/ UNCHANGED defined
    /\ UNCHANGED page

\* The page's load event: every script has been fetched or given up.  A name
\* that is not defined is a ReferenceError, and window.ui is not set.
OnLoad ==
    /\ page = "loading" /\ fetched = Len(Scripts)
    /\ page' = IF "initializer" \in defined /\ Uses \subseteq defined THEN "ui" ELSE "blank"
    /\ UNCHANGED <<fetched, defined>>

\* The UI asks for its document.
FetchDocument(serving) ==
    /\ page = "ui"
    /\ \/ serving /\ DocumentUrl \in SwaggerDist /\ page' = "docs"
       \/ page' = "no document"
    /\ UNCHANGED <<fetched, defined>>

DocsStep(serving) == FetchScript(serving) \/ OnLoad \/ FetchDocument(serving)

DocsTypeOK ==
    /\ page \in {"closed", "loading", "ui", "blank", "docs", "no document"}
    /\ fetched \in 0 .. Len(Scripts)
    /\ defined \subseteq {Scripts[i] : i \in 1 .. fetched}
================================================================================
