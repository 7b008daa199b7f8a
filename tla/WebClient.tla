------------------------------ MODULE WebClient ------------------------------
(***************************************************************************)
(* The session a bot has with its server: the cookies that the responses   *)
(* set and the requests send (src/src/http/webclient.cc), which the        *)
(* browser of the bot saves in the configuration (bot_browser.cc) and the  *)
(* next start of the bot restores, and the parameters of submitted forms   *)
(* over retries (FormParameters).                                          *)
(*                                                                         *)
(* How a single hop of a request works is in WebRequest: here it ends with *)
(* a response or an error, which can come before or after the cookies of   *)
(* an answer have been read.                                               *)
(***************************************************************************)
EXTENDS FormParameters, StdMap

CONSTANTS
  Slots,         \* bound: HTTP calls of scripts that may be under way at once
  Calls,         \* what scripts ask for: requests without and with a form
  Headers,       \* the Set-Cookie lines of a response, in their order
  MaxRedirects,  \* MAX_REDIRECT
  Retries        \* the tries request_with_retry and submit_with_retry get

ASSUME BoundAssumption == MaxRedirects \in Nat /\ Retries \in Nat

VARIABLES
  cookies,    \* cookies_
  header,     \* headers_["Cookie"]
  stored,     \* the cookies in the configuration of the bot
  site,       \* auxiliary: the cookies the server has set, in the order in
              \* which its answers arrive
  requests,   \* the requests under way
  lapses,     \* history: the cookies of which the client got the last change
              \* wrong, and those that it made up
  cut         \* history: the bot has been started again during a request

clientVars == <<cookies, header, stored, site, requests, lapses, cut>>

NoRequest ==
  [active |-> FALSE, hops |-> 0, tries |-> 0, call |-> <<>>, sent |-> <<>>]
UnderWay(r) == requests[r].active

\* It has been redirected at least once.
Redirected(r) == UnderWay(r) /\ requests[r].hops < MaxRedirects

NoCookies == <<>>

ClientInit ==
  /\ cookies = NoCookies /\ header = NoCookies /\ stored = NoCookies
  /\ site = NoCookies
  /\ requests = [r \in Slots |-> NoRequest]
  /\ lapses = {}
  /\ cut = FALSE

-----------------------------------------------------------------------------
\* A call that asks for a form, and one that does not.
FormCall(form, target, given) ==
  [form |-> form, target |-> target, given |-> given]
PlainCall == <<>>

\* What a call leads to: submit sends the parameters of a form.
Prepared(c) == IF c = PlainCall THEN Submission("none", <<>>)
                                ELSE Submit(c.form, c.target, c.given)

\* Mutant of Try: a retry goes without the parameters that have been used.
TryWithRest(c, tries) ==
  [active |-> TRUE, hops |-> MaxRedirects, tries |-> tries, call |-> c,
   sent |-> IF tries < Retries /\ c # PlainCall
            THEN Submit(c.form, c.target, <<>>).sent ELSE Prepared(c).sent]

Try(c, tries) ==
  [active |-> TRUE, hops |-> MaxRedirects, tries |-> tries, call |-> c,
   sent |-> Prepared(c).sent]

\* request_with_retry or submit_with_retry.  A call with an error code starts
\* nothing.
Call(r, c) ==
  /\ ~UnderWay(r)
  /\ Prepared(c).error = "none"
  /\ requests' = [requests EXCEPT ![r] = Try(c, Retries)]
  /\ UNCHANGED <<cookies, header, stored, site, lapses, cut>>

-----------------------------------------------------------------------------
\* A line of a header: "name=value" alone (attributes "none"), with any attributes
\* after ";" ("some"), or with some that take the cookie away ("expired").
SetCookie(name, value, attributes) ==
  [name |-> name, value |-> value, attributes |-> attributes]

NoValue == ""

\* read_header keeps the lines that have attributes, up to the first of them.
Kept(lines) == {i \in 1..Len(lines) : lines[i].attributes # "none"}

\* The regular expression of store_cookies wants a value of one character at
\* least: it skips a cookie without, whose ";" is then part of the next name.
Key(lines, i) ==
  IF \E j \in Kept(lines) : /\ j < i /\ lines[j].value = NoValue
                            /\ \A k \in Kept(lines) : k <= j \/ k >= i
  THEN <<";", lines[i].name>> ELSE <<lines[i].name>>

\* The map after the values of lines have been assigned to their keys in turn.
Assigned(lines, key) ==
  [k \in Range(key) |-> lines[Max({i \in DOMAIN key : key[i] = k})].value]

Parsed(lines) ==
  LET read == {i \in Kept(lines) : lines[i].value # NoValue}
  IN  Assigned(lines, [i \in read |-> Key(lines, i)])

\* Mutant of StoreCookies: the new cookies take the place of the old ones.
StoreCookiesOnly(lines) ==
  LET new == Parsed(lines)
  IN  \/ /\ new = NoCookies
         /\ UNCHANGED <<cookies, header>>
      \/ /\ new # NoCookies
         /\ cookies' = new /\ header' = new

\* store_cookies and set_cookies_header.
StoreCookies(lines) ==
  LET new == Parsed(lines)
  IN  \/ /\ new = NoCookies
         /\ UNCHANGED <<cookies, header>>
      \/ /\ new # NoCookies
         /\ cookies' = Over(new, cookies)
         /\ header' = cookies'

\* What a server means by the lines: the last one for a name counts, and it may
\* delete the cookie.
Named(lines) == {<<lines[i].name>> : i \in 1..Len(lines)}
Meant(lines) == Assigned(lines, [i \in 1..Len(lines) |-> <<lines[i].name>>])
Deleted(lines) ==
  {n \in Named(lines) :
     \E i \in 1..Len(lines) : /\ <<lines[i].name>> = n /\ lines[i].attributes = "expired"
                             /\ \A j \in i+1..Len(lines) : <<lines[j].name>> # n}
Answered(lines) ==
  site' = Restrict(Over(Meant(lines), site),
                   (Named(lines) \cup DOMAIN site) \ Deleted(lines))

\* The lines the client is weak on: a cookie without a value and what follows it,
\* one without attributes, and one that is to be deleted.
Weak(lines) ==
  {i \in 1..Len(lines) : \/ lines[i].attributes \in {"none", "expired"}
                         \/ \E j \in 1..i : lines[j].value = NoValue}
Misread(lines) ==
  {<<lines[i].name>> : i \in Weak(lines)} \cup {<<";", lines[i].name>> : i \in Weak(lines)}

\* An answer arrives, whatever the program does with it: what had gone wrong with
\* a cookie before is over when the server sets it again.
Served(lines) ==
  /\ Answered(lines)
  /\ lapses' = (lapses \ Named(lines)) \cup Misread(lines)

\* An answer does not arrive, or not as a whole: request_finish gets an error, and
\* what the header may have had in it is never looked at.
Dropped(lines) ==
  /\ Answered(lines)
  /\ lapses' = lapses \cup Named(lines)

\* The attempt of r is over: the script gets its callback, or it is repeated.
Finished(r) == requests' = [requests EXCEPT ![r] = NoRequest]
Repeated(r) ==
  requests' = [requests EXCEPT ![r] = Try(requests[r].call, requests[r].tries - 1)]

\* webclient::request_finish with a response that is followed to another place.
Redirect(r, lines) ==
  /\ UnderWay(r) /\ requests[r].hops > 0
  /\ Served(lines)
  /\ StoreCookies(lines)
  /\ requests' = [requests EXCEPT ![r].hops = @ - 1, ![r].sent = <<>>]
  /\ UNCHANGED <<stored, cut>>

\* The last response, and request_cb.
Respond(r, lines) ==
  /\ UnderWay(r)
  /\ Served(lines)
  /\ StoreCookies(lines)
  /\ stored' = cookies'
  /\ Finished(r)
  /\ UNCHANGED cut

\* Mutant of Failed: the cookies are saved with a response only.
FailedUnsaved(r, lines) ==
  /\ UnderWay(r)
  /\ Dropped(lines)
  /\ \/ requests[r].tries > 0 /\ Repeated(r)
     \/ requests[r].tries = 0 /\ Finished(r)
  /\ UNCHANGED <<cookies, header, stored, cut>>

\* request_cb with an error: no connection, no answer, or one whose body does not
\* come, comes too late or cannot be read, after a header with these lines.
Failed(r, lines) ==
  /\ UnderWay(r)
  /\ Dropped(lines)
  /\ stored' = cookies
  /\ \/ requests[r].tries > 0 /\ Repeated(r)
     \/ requests[r].tries = 0 /\ Finished(r)
  /\ UNCHANGED <<cookies, header, cut>>

\* bot::shutdown leaves the configuration to the client, bot::init gives a new
\* browser its cookies.  Requests of the old browser go on, but what they bring
\* gets neither into this configuration nor into the new browser.
Restart ==
  /\ cookies' = stored /\ header' = stored
  /\ requests' = [r \in Slots |-> NoRequest]
  /\ cut' = (cut \/ \E r \in Slots : UnderWay(r))
  /\ UNCHANGED <<stored, site, lapses>>

-----------------------------------------------------------------------------
ClientNext ==
  \/ \E r \in Slots, c \in Calls : Call(r, c)
  \/ \E r \in Slots, lines \in Headers : Redirect(r, lines) \/ Respond(r, lines)
  \/ \E r \in Slots, lines \in Headers \cup {<<>>} : Failed(r, lines)
  \/ Restart

ClientSpec == ClientInit /\ [][ClientNext]_clientVars

-----------------------------------------------------------------------------
(***************************************************************************)
(* A request sends every cookie as the server has set it last, and no      *)
(* other, over redirects, retries, requests in parallel and restarts of    *)
(* the bot - except those the server has since set in an answer that ended *)
(* in an error (webclient.cc drops them with it), without a value or       *)
(* attributes, or deleted.  Such a cookie is right again as soon as the    *)
(* server sets it again.  What is said of a bot that was started again in  *)
(* the middle of a request is nothing.                                     *)
(***************************************************************************)
SessionKept ==
  ~cut => \A n \in (DOMAIN site \cup DOMAIN header) \ lapses :
            n \in DOMAIN site /\ n \in DOMAIN header /\ header[n] = site[n]

(***************************************************************************)
(* The configuration has the cookies of the browser at any time except     *)
(* while a redirect is being followed, however requests end: a client may  *)
(* keep it and start the bot from it.                                      *)
(***************************************************************************)
CookiesSaved == stored = cookies \/ \E r \in Slots : Redirected(r)

-----------------------------------------------------------------------------
\* The submit elements a form has, and whether they are in one element.
Submits(form) == {i \in 1..Len(form) : form[i].type = "submit" /\ form[i].name # <<>>}
Together(form) ==
  \A i, j \in Submits(form) : \A k \in i..j : form[k].type \notin {"open", "close"}

\* What a page has in its fields, when the submit elements at the places in chosen
\* are used: a field without a name is not sent.
Field(tag) ==
  CASE tag.name = <<>> -> <<>>
    [] tag.type = "image" -> Coordinates(tag.name)
    [] OTHER -> [k \in 1..Len(tag.value) |-> Param(tag.name, tag.value[k])]
Page(form, chosen) ==
  FlattenSeq([i \in 1..Len(form) |->
                IF form[i].type # "submit" \/ i \in chosen THEN Field(form[i]) ELSE <<>>])

\* The values the script gives take the place of the first ones of their names.
Given(given, page, sent) ==
  /\ DOMAIN given \subseteq {page[k][1] : k \in 1..Len(page)}
  /\ Len(sent) = Len(page)
  /\ \A k \in 1..Len(page) :
       LET name == page[k][1]
           first == \A j \in 1..k-1 : page[j][1] # name
       IN  sent[k] = IF first /\ name \in DOMAIN given THEN Param(name, given[name])
                                                     ELSE page[k]

(***************************************************************************)
(* What a form is submitted with, also when the submit is repeated: every  *)
(* value the script gives, once, in place of the page's; the page's values *)
(* in all other fields that have a name, selected options and coordinates  *)
(* included; and one submit element, the one that was asked for or else    *)
(* the first (with it, others of a form that nests them).                  *)
(***************************************************************************)
SentAsAsked(c, sent) ==
  LET submits == Submits(c.form)
  IN  \E chosen \in SUBSET submits :
        /\ c.target.kind = "node" => chosen = submits \cap {c.target.at}
        /\ c.target.kind = "form" /\ submits # {} => Min(submits) \in chosen
        /\ Together(c.form) => Cardinality(chosen) <= 1
        /\ Given(c.given, Page(c.form, chosen), sent)

SubmitsAsAsked ==
  \A r \in Slots :
    UnderWay(r) /\ ~Redirected(r) /\ requests[r].call # PlainCall
      => SentAsAsked(requests[r].call, requests[r].sent)

=============================================================================
