----------------------------- MODULE AgentProxy -----------------------------
(***************************************************************************)
(* internal/agent/http: the agent's reverse proxy, between a client that   *)
(* believes to talk to a server outside and the git or artifact server.    *)
(* A client asks for a path, and follows the redirects and links that it   *)
(* is given.  A path is [at, query]: "page" as the client knows it, or one *)
(* of the server's own paths.                                              *)
(***************************************************************************)
EXTENDS AgentHooks

CONSTANTS
    UserAgents,   \* of "git", "npm", "pip" and "other"
    ServerPaths,  \* the paths that a server's answers lead to
    MaxHops       \* bound: the redirects and links that a client follows

VARIABLES
    zarf,    \* the Zarf state in the cluster
    client,  \* the client: its user agent, the request it has made, and its hops
    server   \* what the proxy has asked a server for, and the server's answer

proxyVars == <<client, server>>

NoRequest == [host |-> NoHost, marked |-> FALSE, at |-> "", query |-> FALSE]
NoAnswer == [to |-> NoHost, as |-> "", at |-> "", query |-> FALSE, answer |-> "none", link |-> "", linkQuery |-> FALSE]
Outside == [name |-> "outside", port |-> 0]

ProxyInit ==
    /\ client = [agent |-> "none", asks |-> NoRequest, follows |-> "", hops |-> 0]
    /\ server = NoAnswer

IsGit == client.agent = "git"

\* Authentication goes by the user agent.
Credentials == IF IsGit THEN zarf.gitUser ELSE IF client.agent = "npm" THEN "token" ELSE "basic"
Target == IF IsGit THEN zarf.git ELSE zarf.artifact

\* A client starts a conversation.
ClientAsks(agent) ==
    /\ client.agent = "none"
    /\ \E query \in BOOLEAN :
          client' = [agent |-> agent, follows |-> "", hops |-> 0,
                     asks |-> [host |-> Outside, marked |-> FALSE, at |-> "page", query |-> query]]
    /\ UNCHANGED server

\* NpmTransformURL, PipTransformURL and GenTransformURL keep the path of their
\* API; only the generic one drops the query.
TransformURL(asks) ==
    [at |-> "api", query |-> asks.query /\ client.agent \in {"npm", "pip"}]

\* NoTransformTarget takes the mark away, and the query with it.
NoTransformTarget(asks) == [at |-> asks.at, query |-> FALSE]

\* ProxyHandler up to proxyRequestTransform: the state is loaded for every request.
ProxyRequest ==
    /\ client.asks # NoRequest /\ server.answer = "none" /\ server.to = NoHost
    /\ LET url == IF client.asks.marked THEN NoTransformTarget(client.asks)
                  ELSE TransformURL(client.asks)
       IN  server' = [NoAnswer EXCEPT !.to = Target, !.as = Credentials,
                                      !.at = url.at, !.query = url.query]
    /\ UNCHANGED client

\* The server answers: the content, a redirect, or a page with a link on it
\* to the server itself or elsewhere.
ServerAnswers ==
    /\ server.to # NoHost /\ server.answer = "none"
    /\ \E a \in {"content", "redirect", "page", "foreign"}, p \in ServerPaths, q \in BOOLEAN :
          server' = [server EXCEPT !.answer = a,
                                   !.link = IF a = "content" THEN "" ELSE p,
                                   !.linkQuery = a # "content" /\ q]
    /\ UNCHANGED client

\* Mutated: the mark is left out.
UnmarkedLink(at, query) == [host |-> Outside, marked |-> FALSE, at |-> at, query |-> query]

\* The host that the client knows, and the mark.
MarkedLink(at, query) == [host |-> Outside, marked |-> TRUE, at |-> at, query |-> query]

\* proxyResponseTransform, and the client that follows what it is given; a link
\* to another host stays as it is, and leads away from the proxy.
ProxyResponse ==
    /\ server.answer # "none"
    /\ IF server.answer \in {"redirect", "page"} /\ client.hops < MaxHops
       THEN client' = [client EXCEPT !.asks = MarkedLink(server.link, server.linkQuery),
                                     !.follows = server.link, !.hops = @ + 1]
       ELSE client' = [agent |-> "none", asks |-> NoRequest, follows |-> "", hops |-> 0]
    /\ server' = NoAnswer

ProxyNext ==
    \/ \E a \in UserAgents : ClientAsks(a)
    \/ ProxyRequest \/ ServerAnswers \/ ProxyResponse
=============================================================================
