# fiscal-rs in TLA+

TLA+ modules, TLC configurations and TLAPS proofs for fiscal-rs, a Rust library
that builds, signs, transmits and files Brazilian fiscal documents (NF-e,
NFC-e, CT-e, MDF-e, NFS-e). The library keeps no state between calls, apart
from a client with a certificate and a contingency manager the application
writes down itself. What is hard about it is therefore what happens *between*
calls: several tasks of an application await answers of one client, SEFAZ (the
tax authority) registers documents whether or not its answers arrive, and the
library's pure functions join whatever document with whatever answer they are
given. The project asks whether the issuer's archive stays true to SEFAZ's
register under all of that. Its second half is about what happens *inside* the
two long calls that make a document, from the setters of the builder and from a
TXT file, and about where a request goes: there the state is many buffers,
totals and tables that have to agree in the end.

## Inventory

| Component (crate, path) | State | Operations | What makes it correct |
|---|---|---|---|
| Invoice builder (`fiscal-core/xml_builder`) | typestate Draft, Built, Signed; consumed by each step | `new`, setters, `build`, `sign_with`, accessors | key and Id are those of the document's own fields; only a signed document leaves |
| Access key (`xml_builder/access_key.rs`) | none (clock for the numeric code) | `build_access_key`, `calculate_mod11`, `generate_numeric_code` | injective in its fields; a rebuilt document has another key |
| Contingency manager (`contingency/manager.rs`) | type, reason, time | `activate`, `deactivate`, `load`, `to_json`, `emission_type` | what is loaded is what was saved; never another contingency |
| Contingency adjustment (`contingency/adjust.rs`) | none | `adjust_nfe_contingency` | key, Id, emission type and signature agree afterwards |
| Signatures (`fiscal-crypto`) | none | `sign_xml`, `sign_event_xml`, PKCS#12, C14N | digest covers the content; re-signing keeps it |
| SEFAZ client (`fiscal-sefaz/client`) | HTTP client, key, certificate; immutable | `authorize*`, `authorize_batch`, `consult*`, `cancel`, events, inutilization, distribution, delivery, RTC | one request, one answer or an error; the right endpoint; the result says what the answer says |
| Endpoint routing (`services.rs`, `urls`) | constant tables | state, model, contingency, service to URL | each call reaches the authority that holds its document, in its environment |
| Request builders (`request_builders`) | none (clock for lot ids) | texts of lots, events, inquiries | bounds of lots; lot ids tell lots apart |
| Response parsers (`response_parsers`) | none | one per service | which of several elements and statuses is reported |
| Complement (`complement`) | none | `attach_protocol`, `attach_cancellation`, `attach_event_protocol`, `attach_inutilizacao`, `attach_b2b`, `to_authorize` | a document is joined with its own answer only, and only if SEFAZ accepted it |
| Invoice body (`xml_builder`, `types`) | the draft's fields | setters, `generate_xml` and its sections | what the caller set is in the document, nothing else is |
| Taxes, totals (`tax_*`, `xml_builder/total.rs`) | accumulators | per item and total computation | totals are the sums of the items, in cents; the note is worth its items |
| TXT conversion (`convert`) | a dozen buffers of the parser | slice, validate, parse, build | records end up in the group of their item, in the invoice they belong to |
| Configuration, standardize, QR code, sanitize, GTIN, time zones | none | pure functions | |
| CT-e, MDF-e (`fiscal-cte`, `fiscal-mdfe`) | builders | build, validate, key | as for NF-e, without a client |
| NFS-e (`fiscal-nfse`, `fiscal-nfse-mun`) | registry of providers | emit, consult, cancel | |
| XSD (`fiscal-xsd`) | cache per thread, directories per process | `validate` | compiled once, files live as long as used |
| Node bindings (`fiscal-napi`) | none | wrappers | |

Interactions. The application calls the builder, signs, keeps the signed text,
sends it through the client and awaits. SEFAZ's own authorizer of the state, or
the virtual one (SVC) in contingency, registers and answers. The application
gives request and answer to `complement` and keeps the `nfeProc` document that
comes out. Cancellations and other events go the same way, by the key of the
document. There are no callbacks and no locks; the only sharing is that several
tasks use one client and that SEFAZ sees all requests.

Hard behaviour: lost and late answers, requests handled after their time-out,
retries refused as duplicates, crashes between sending and keeping, documents
of the same number or the same key, two authorizers and the transfer between
them, lots processed in any order and in part, lot ids that collide, free text
inside a hand-parsed record, tables of the same thing kept twice, parser
buffers flushed late, totals accumulated in a dozen places. PROJECT.json lists each of them at its line under
"hazards".

## Modules

    Archive            what an issuer is promised (abstract)
      ^ implemented by
    Issuance           builder, client, network, SEFAZ, crash, complement
    Lot                documents by the lot, receipts
      | both extend
    Complement         attach_protocol, attach_cancellation
    ResponseParsers    what a call returns of an answer
    NfeDocument        documents, keys, digests, adjustment
    EmissionTypes      tpEmis and contingency types
    Optional           None
    EventLot           events by the lot, attach_event_protocol
    Contingency        the manager and its JSON line

    Routing            every call of the client, the authorities
    Events             what each event request says
    Endpoints          states, authorizers, services, addresses

    TxtConvert         a file, its invoices, the validator
    TxtXml             the XML of what was parsed
    TxtParser          the parser's buffers, line by line
    TxtLayout          the entities of the layouts

    Invoice            the builder, the whole document, its totals
    Sections, Det      head, parties, transport, payment; one item
    Icms, Taxes        the taxes of an item, the totals of IBS and CBS
    InvoiceData        what a caller can set
    Leaves             documents as sets of leaves

    *_proofs           theorems about the module of that name
    MC*                model values for TLC

*Archive* has four variables: what SEFAZ registered (with status 100,
authorized, or 110, denied), what it cancelled, what the issuer filed and what
it marked as cancelled. Its steps say that a registration is for good, that
only a registered document is filed, with its own status, that only a filed and
cancelled document is marked, and that nothing filed is ever lost.

*NfeDocument* abstracts the XML text of a document to the parts that other
components compare: number, emission type, random code, the rest of `infNFe`
(`body`), whether the contingency data are present, the Id attribute (how many
times `NFe` stands in front of the key) and the signature. A digest is the
content it was computed from: SHA-1 is taken to have no collisions. The issuer,
month, model and series are the same in all documents.

*ResponseParsers* says which elements of an answer a typed call keeps. Most of
what goes wrong between calls begins there: `parse_autorizacao_response` keeps
the first `protNFe` and lets its status hide the one of the answer;
`parse_consulta_recibo_response` keeps all; `parse_consulta_situacao_response`
also keeps the events.

*Complement* is `attach_protocol` (an exact match has the digest and the key of
the document; without one the refusal or error depends on the other elements)
and `attach_cancellation` (the first event that registers a cancellation of the
key; no match leaves the document alone).

*Issuance* composes them. `builder` is the typestate, in memory; `disk` and
`procs` are what the application has kept; `call` and `answer` belong to a task
of the application; `net` holds requests under way; `ledger` is the register of
each authorizer. One action stands for one call or handler: `Build`, `Sign`,
`Discard`, `Keep`, `Adjust`, `authorize`, `authorize_contingency`, `consult`,
`consult_situacao` (raw `send` and the situation parser), `cancel`,
`NetworkError`, `Attach`, `AttachCancellation`, `Crash`, and SEFAZ's
`SefazAuthorize`, `SefazConsult`, `SefazCancel`, `SvcTransfer`. A time-out
leaves the request on the network, disowned, or loses it; an answer may be
lost; a crash clears the memory and disowns the requests. SEFAZ is external: it
registers a key once, a number under one key per authorizer, cancels what is
authorized once, answers 204 or 539 to duplicates with or without the digest,
and may refuse anything (999).

*Lot* keeps the lots SEFAZ received, each with the documents still waiting and
the protocols given so far, in processing order. A lot can be sent any number
of times, the receipt lost, the result polled before it is complete, and the
application restarted; the documents themselves are on disk.

*EventLot* keeps the requests an application built, the answers it holds and
what it joined. A request is numbered by the caller or by the millisecond; two
requests of one millisecond share the number, which is all that
`attach_event_protocol` compares. `event_batch` returns neither the signed
request nor the answer; an application that joins lots uses the builder and the
raw `send`, and a call whose result was dropped is an answer that was lost.

*Contingency* writes and reads the JSON line token by token (quote, backslash,
line feed, white space, a key, a number, other text), since the hazard is in
the text: `load` looks for a key anywhere, ends a string at the next quote,
escaped or not, and unescapes nothing. `Tokens` is what a justification is made
of, `Decimal` how a number is written.

*Routing* gives the issuer a state, makes every call of `SefazClient` in any
order and in both environments, and keeps what authorities hold. `wire` is the
one call under way: the request as posted (operation, service, address,
environment of the address, envelope, and what the body says: `tpAmb`, keys,
receipt, events) or the error it ended with. One call at a time is enough, the
methods share no state; what is asked later depends on `held`, `receipts` and
`known`, which requests and lost answers changed before. *Endpoints* has the
27 states, the authorizers of model 55 and 65, which services each one has in
which environment (an address is the authority it belongs to; `NoUrl` is the
empty text, an address the table has not), and the two contingency tables. *Events* is the
event of each request builder: type, key, sequence number, organ, author and
the event it names.

*TxtConvert* writes a file line by line, in the order of the layout, and asks
at every length what the conversion of it is. A line is its entity, the fields
it gives, its form (a version, a kind of tax) and its flaws: something malformed,
a tab in a field, an A in lower case, a wrong key. The validator and the converter do not
see the same flaws, nor take the same lines for the start of an invoice
(`ALines`, `Markers`). A field's value is the line
it comes from, which is what the properties compare. *TxtParser* is the
parser's state with one operator per arm of its `match`, folded over the lines;
*TxtXml* the XML, as leaves that know the group, the item and the place they
are written in.

*Invoice* takes a draft (issuer, items of `MCInvoice`, and sections set by calls
in any order and number up to `MaxCalls`) through `build` and `sign`.
*Leaves* represents data and document alike as sets of leaves
`[n, in, tag, v]`: item number (0 outside), group, tag, value. An amount is a number of
cents; a text is a number that tells it apart. A structure of the code is a
set of leaves with one `in`; an `Option` that is `None` has no leaf; writing an
optional field, a required one with a default and a gate on the schema version
are the operators `Write`, `WriteOr` and `Pl010`. A value the library makes up is
`Supplied`; a text may be `Empty` or all `White`, which some builders drop; a
date is its local digits and the hours of its offset (`100 * digits + hours`),
and the offset is what `format_datetime_nfe` replaces. An item's number in the
document is its place in the list (`Placed`); the number the caller gave it is a
leaf of the item like the others. The last digit of the key is
some function of the number drawn (`check_digit`), which no property looks into. That abstracts formatting and order, and keeps every condition,
default, accumulator and replacement.

## Runs

| Run | Module | Asks | States |
|---|---|---|---|
| `confusion` | MCIssuance | `TypeOK`, `ProcGenuine`, `MarkGenuine` with two contents that compete for one number and one key, normal and SVC emission | 1.3 million |
| `archive` | MCIssuance | `ArchiveSpec`: Issuance implements Archive, two tasks and two requests under way | 321 thousand |
| `recovery` | MCIssuance | `Recovery`, `CancellationRecovery` under `FairSpec`, SVC emission, two contents, two marks | 13 thousand |
| `id` (violated) | MCIssuance | `IdCarriesKey`: key and Id agree after an adjustment | |
| `contingency` | MCContingency | `TypeOK`, `NoOtherContingency`, `PlainRoundTrip` | 16 thousand |
| `lot_results` | MCLot | `TypeOK`, `NothingLeftOut`, `LotArchiveSpec`, two lots of up to two documents, statuses 100 and 110 | 628 thousand |
| `lot_recovery` | MCLot | `LotRecovery`: three sendings of lots of one | 65 thousand |
| `event_lots` | MCEventLot | `TypeOK`, `ProcEventoGenuine`, two requests of up to two events, caller's and time's ids | 136 thousand |
| `routing` | MCRouting | `TypeOK`, `OrgaoServed`, `EnvironmentKept`, `AskedWhereHeld`, `ContingencyElsewhere`, an issuer in each of the 27 states | 830 thousand |
| `conciliacao` (violated) | MCRouting | `ConciliacaoIsSent` | |
| `txt` | MCTxt | `TypeOK`, `InItsGroup`, `FieldsArrive`, `ValidatedConverts`, sixteen forms of files over all layouts | 103 thousand |
| `invoice` | MCInvoice | `TypeOK`, `TotalsMatchItems`, `NoteIsItemsWorth`, `OnlyPl010`, `NothingLost`, `NothingInvented` | 28 thousand |

Why the bounds are enough. Confusing two documents takes two; they differ
either in content under one key (two bodies, one code) or in key (normal and
SVC emission), and both happen in `confusion`. Two authorizers are all there
are for a state. A third task or request adds nothing that `archive` does not
have with two: an answer to the other task's document, and a late one; the
theorems below are for any number. A lot of two has a neighbour; two lots of
two contain the same document twice in one lot and in both. Events differ in
key, and one is an EPEC, which a lot skips. The justifications are all texts of
up to two tokens and longer ones made of the record's own syntax; the limits of
15 and 255 characters are 2 and 9 tokens. `MaxDocs`, `MaxNet`, `MaxMarks`,
`MaxLots`, `MaxRequests`, `MaxAnswers`, `MaxText` and `MaxClock` bound the
states and stand in the guards where they act. Symmetry is used in `confusion`
over bodies and tasks, in `lot_results` and `event_lots` over numbers and keys;
never in a run with a liveness property. `CancellationRecovery` asks that every
`nfeProc` of a cancelled key be marked in the end, so `recovery` has two marks:
an unmarked copy filed from a late answer beside one already marked. It has one task and one
emission type because the tableau of its fairness conditions grows with both.
In `routing` two documents held (`MaxHeld`) are a document at two authorities
or in two environments, or a document and an NFC-e; the tables are all there.
In `txt` each form has the lines of a few neighbouring sections of the layout
and up to six of them in any order the layout allows, so that every buffer is
left full by one line and met by each line that may come next; some come blank
too, and start nothing (`Said`), or without what a builder asks for before it
writes the rest (`Partial`, and some of `Items`, `Taxes` and `Cofins`).
`Several`, `Flawed`, `Headless` and `Lowered` have A lines of both cases, with and
without keys, flaws of each kind, and lines before the first A. `MaxDeclared` is two, since the code tells at
most one from several. In `invoice` each tax, section and list appears
with every optional field and with none, and around each condition with the field it
looks at and without; two items and two calls show what one does to the other. Deadlock is
checked except in `txt` and `invoice`, where a finished file or document is the end.

Fairness. `CallsEnd`: every request that arrived is handled; a transfer of the
SVC takes place; a call ends, because the client has a request time-out
(`REQUEST_TIMEOUT` in `client/mod.rs`). The library has no retry, so the rest
is the application's part of the bargain, and the properties say what it buys:
the application asks for its documents again and again (strong fairness: it
can only ask when no other call of the task is under way), an answer gets
through now and then (a network that loses every answer recovers nothing), and
an answer is joined with its document before a crash or another call now and
then. In `Lot` a consultation asked and answered is one action. The other
modules have no liveness to promise: each call ends by itself.

Every property of a passing run has a mutant in PROJECT.json: a change of one
definition, such as a dropped guard, a buffer not cleared, a table off by one
state, with which TLC finds the property violated. The mutated operators stand
before the ones they replace.

What the violated runs show; PROJECT.json quotes the lines they contradict.
- `id`: `adjust_nfe_contingency` writes `NFe` and the key behind an `NFe` it
  kept. The document is refused by schema and no protocol can match it.
- `conciliacao`: the reconciliation of an NF-e is never sent. The client asks
  for the endpoint of a state called SVRS, which the tables do not have.

## Disagreements between code and documentation

Met while modelling and not given a run. The properties above except them by
name or do not claim them.

Answers.
- `consult` reports 100 for a cancelled document: the status of `protNFe` hides
  the one of the answer (`response_parsers/authorize.rs:28`; the doc of
  `consult` says "Returns the current status").
- `consult_receipt` returns the first result of a lot only; the doc of
  `authorize_batch` says it gives "the individual processing results". The raw
  answer and `parse_consulta_recibo_response` have all (`NothingLeftOut`).
- `attach_event_protocol` joins a lot on the status of its first event, refused
  events included (`complement/event.rs:52`), where its doc promises
  `SefazRejection`.
- A refused document of a lot without a digest in its `protNFe` is told its
  neighbour's status or an error about digests (`complement/protocol.rs:76-104`),
  where the doc promises its own refusal, and the doc's fallback to "the first
  available protNFe" does not exist.
- After a justification that ends in a quoted key, `load` fails on what
  `to_json` wrote; one with a quote comes back cut (`contingency/manager.rs:320`).

Requests.
- An NFC-e is consulted, cancelled, its lots polled, its events sent in lots and
  its unused numbers voided at the model 55 endpoint, whatever the README's "Ciclo completo NF-e/NFC-e".
- `send_rtc_event` is documented as going through SVRS (`client/rtc.rs:15`), and
  fails for the state it would need, as `conciliacao` does.
- Several builders panic on an unknown state (status, DistDFe, event lots,
  inutilization) where the methods' docs promise `InvalidStateCode`.
- `parse_sefaz_service` of the bindings (`fiscal-napi/src/client.rs:1093`)
  lowercases its argument and compares it with names in camel case: only
  `autorizacao` and `inutilizacao` can match.

Documents.
- The IBS of an item that does not state it is written as 0.00
  (`tax_ibs_cbs/build_item.rs:90`); the type's doc says it is "calculated as
  vIBSUF + vIBSMun" (`types_advalorem.rs:224`).
- `refNFeSig` is written without a look at the schema version, while
  `builder.rs:205-211` says such fields are "silently omitted".
- The FCP by substitution of CSOSN 201, 202 and 900 is in no total; one item with
  `indDeduzDeson` deducts the relief of all; the value of a service counts as product and as service.
- The offset of `dhEmi`, `dhSaiEnt` and `dhCont` is replaced by that of the issuer's state
  and the digits are kept (`ide.rs:10-17`): given with another offset, the document
  says another instant. `builder.rs` speaks of "the emission date/time".
- An item's number is the caller's (`InvoiceItemData::new`) and goes into the document
  as given: two items may be numbered 1, and the one renamed in homologation is
  any that is, wherever it stands (`RenamedItem`).
- Dropped without an error: a trade name that is blank, an origin that is empty in the CSOSNs that
  may lack it, `indBemMovelUsado` set to false, an empty `nRECOPI`.
- A recipient's address that leaves fields out is completed from the issuer's, field by field
  (`dest.rs:46-73`), so it may be nobody's. `NothingInvented` says of each field
  where it came from, not that they came from one address.
- CST 02, 15, 53 and 61 exist in `tax_icms` and are refused by the builder.

TXT conversion.
- A file that declares one invoice and has several is merged into one XML;
  `convert/mod.rs:94` promises an error.
- The seals of the last volume are lost, though a comment at `parser.rs:766`
  says they are flushed; seals with a comma in them become two.
- The validator takes tabs and carriage returns out of the text first
  (`convert/mod.rs:172`), the converter does not (`:97`): a file with a tab in a field is
  accepted by one and refused by the other.
- An A line in lower case is one for the validator and the parser and none for
  the slicer and the version (`mod.rs:214`, `:231`): its invoice is counted with the one before.
- Of a file that declares several invoices the lines before the first A are dropped
  unread (`mod.rs:208-226`); the validator refuses them. The property names them (`Dropped`).
- With several A lines in one invoice only the key of the last is checked (`mod.rs:143-154`).
- What a builder writes only beside something else is lost without it: duplicates without a
  bill line (`build_xml.rs:36`), `dhCont` without `xJust`, an address without
  its street, and the others `Incomplete` and `TaxLeftOut` list.
- Nothing reads B's `cMunFGIBS`, `indPag`, `dPrevEntrega`, `tpNFDebito` and
  `tpNFCredito`, the entities B31, BB01, BB02, D, UB, W03 and W04, the address of
  the tax of the recipient's state in W02, and the fields `Unread` lists; an item without
  a product leaves what it had to the next one.

## Proofs

`Complement_proofs` has three lemmas about the joining operators: the first
match of a loop is a match with nothing before it (`FirstIsFirst`), a joined
`nfeProc` has a protocol with the document's own digest and key and an accepted
status (`AttachedIsOwn`), and an appended event is a registered cancellation of
the protocol's key (`MarkedIsOwn`).

`Issuance_proofs` proves for every value of the constants, thus any number of
tasks, documents, requests and retries:
- `TypeCorrect`, `ProcsAreGenuine`, `MarksAreGenuine`: `TypeOK`, `ProcGenuine`
  and `MarkGenuine` always hold;
- `ImplementsArchive`: Issuance implements Archive (safety): initial states map
  to initial states (`ArchiveInit`), SEFAZ's steps to registrations and
  cancellations (`SefazArchiveStep`), joining to filing and marking
  (`FilingArchiveStep`), all others to stutters (`ArchiveStep`).

`ProcGenuine` is not inductive. It becomes so (`IInv`) with: the answers held by
tasks speak of what is registered, or at least was when they were given
(`AnswersGenuine`); registrations are for good (`LedgerGrows`, proved of each
step); and, for the cancellation, which names a key and no digest, one key
never stands for two contents over both authorizers (`KeyUnique`). The last
rests on keys being computed from the document's own fields (`DocsWellFormed`),
the emission type among them, which tells the SVC's keys from the others
(`LedgerWellFormed`), and on SEFAZ refusing a second registration of a key and
transferring the SVC's. That is where the assumptions about SEFAZ enter. The
assumptions on constants are: `SvcType` is an SVC type, `Emission` holds normal
and SVC emission only, `None` is none of the data, bounds are naturals.
`IInv` and `[][LedgerGrows]_vars` were checked by TLC before they were proved.

`EventLot_proofs` proves `EventLotTypeCorrect` and `ProcEventosAreGenuine` (`[]ProcEventoGenuine`) from
`EventInductive`: each answer answers a request of its lot id, each joined
document is a request and such an answer; if the id has one request, the two
are the same.

`Lot_proofs` proves `LotTypeCorrect` (`[]TypeOK`) and `LotImplementsArchive`
(`LotArchiveSpec`), for any set of documents, any number and size of lots: a
protocol that says "processed", wherever it is (in a lot, `LotsGenuine`; in an
answer, `AnswerGenuine`; in an nfeProc, `FiledGenuine`), tells of a registration
of the content its digest names, and each content has one (`RegistryOK`).
`AttachedIsOwn` then makes joining a filing, SEFAZ's processing registers or
stutters, everything else stutters. `LotLeavesNothingOut` (`[]NothingLeftOut`)
goes the other way, from a registration to a joined document. It adds to `IInv`
that a place of a lot that no longer waits has a protocol of its key, that a
document which occurs once has no protocol while it waits and one afterwards
(`AnsweredOnce`), and that a registration's protocol has its digest; so
`attach_protocol` has exactly one match to choose from (`OwnIsJoined`). The
assumptions: the kept documents are signed, no two have one key, `None` is no
document, and SEFAZ registers with 100 or 110.

`Routing_proofs` proves the five properties of `routing` for any states of
issuers and any number of documents held (`Types`, `Organ`, `Environment`,
`Asked`, `Elsewhere`). First the tables: but for the taxpayer register, all
services of a table are of one authority and of the environment they stand
under (`TableOf`, proved of each state's table for each model and of the
contingency tables), so an address found in one is that authority's
(`PostedToState`, `PostedToAN`, `PostedToSvc`). From this each call of the
client, one lemma per group of `Next`, puts a request on the wire that is
`Sound`: events name the organ of the address (`Served`), what is asked about a
document goes where its model is authorized (`Followed`), and so on. `Sound`
needs to know where documents are: `EnvironmentKept` is not inductive, because
an answer to a receipt makes documents known that no request of that moment
names. The invariant `RInv` adds `Kept`: what a receipt promises, and what the
application knows, is held by some authority in that environment. The
assumption is `NoneIsNoValue`: `None` is none of the texts and codes it stands
beside.

`Invoice_proofs` proves all six properties of `invoice` for any issuer, settings,
items, sections and order of calls: `TypeCorrect`, `NothingIsInvented`,
`NothingIsLost`, `SchemaIsKept`, `TotalsAreOfItems` (`TotalsMatchItems`)
and `NoteIsWorth` (`NoteIsItemsWorth`). The inductive
invariant is `BuilderInv` (`BuilderInvariant`): what was set is well formed, and
a built document is `generate_xml` of exactly that and of a number that was
drawn. It is what lets a property of a reachable state be proved of a pure
function: no setter runs between the build and the signature. The rest is about
that function. One lemma per builder of a section says what it may write:
`Fair` leaves are set by the caller (a date with the state's offset, `Restamped`),
taken from the one place named in `TakenFrom`, or named as made up, and stand in the groups of the section (`GroupsApart` says that no
two sections share one), from which `NothingInvented` and `OnlyPl010` follow.
The totals are sums over data of any length. The library's induction theorems
are out of reach, so what a sum does is proved by least counterexample: strict
inclusion of finite sets is well founded (`FS_StrictSubsetOrderingWellFounded`),
a smallest set on which the claim fails is not empty, and taking one element out
contradicts it. `TotalsAreOfItems` then cuts the leaves of the document
that a total has to count into those of each item, disjoint by item number, and
compares per item and tag what `DetResult` adds to the accumulators with what
`build_det` writes: two pieces of code that agree arm by arm of the ICMS table
(`AnIcmsArm`). `NoteIsWorth` sums the second formula, `v_item`, over items and
exchanges sum and addition. `NothingIsLost` needs to know what can be set at
all. A second invariant, `ShapeInv`, says that every leaf is a field of a struct
of `InvoiceData`, has a place exactly when its struct is in a list, and never stands
without the struct it is inside of (`Inside`): a setter that replaced a struct
and left what was inside would lose it silently. Then one lemma per builder
takes each field of each struct it is given (`IdeKept` to `TotalKept`,
`ItemProductKept` to `IcmsKept`) and finds it written or in a named case. For ICMS
that compares the two tables of a CST, the fields its variant takes and the tags its
arm writes (`ArmWithinVariant`). The assumptions are the shape of the data:
`SettingsAssumption` (models 55 and 65, emission types 1 to 9),
`DataAssumption` (a struct has finitely many of its fields and each has one value;
only what is in a list has a place; what is inside a struct comes and goes with
it; items number themselves as they like) and `BoundsAssumption`. TLC evaluates them for the data of `invoice`.

`Contingency_proofs` proves the three properties of `contingency` for
justifications of any length, made of any tokens, and any number of restarts:
`TypeCorrect`, `NeverAnotherContingency` (`NoOtherContingency`) and
`PlainSurvives` (`PlainRoundTrip`). The text is looked at position by position.
`EscapeIs` says that after escaping, every quote has a backslash right before
it, and that text with nothing to escape is left as it is; the fold that joins
the escaped pieces has any number of steps, so this too is a proof by least
counterexample. `LineIsLaid` gives the place of every token of the line. Then
each key is looked for: of the keys behind the text, the text itself can only be
taken for one where it ends with it, right before the quote that closes the
text (`EarlyHit`); the comma that follows is no colon, nothing is read and
`load` fails. In all other cases the first hit is the field's own
(`LateKeyIsFound`), and its value is the one written (`TypeIsRead`,
`NumbersAreRead`). The motive comes back up to its first quote (`MotiveIsRead`).
A text that is nothing but a key would be hit too, by the quotes around the
text, so the inductive invariant (`IInv`, `Inductive`) has to say that no
reason is that short: what `activate` accepts is longer than a key, and what a
restart leaves of a reason that was cut at a quote ends with the quote's backslash
(`GoodReason`). It also says that the manager is what `activate`, `deactivate` or
`load` make of one, and the line on disk `to_json` of such a manager. The
assumptions: the limit is longer than a key (`LengthAssumption`: 15 characters,
and the longest key, `timestamp`, has 9), numbers are written apart and without
quotes and white space (`DecimalAssumption`), a missing value is no value
(`NoneIsNoValue`).

`TxtConvert_proofs` proves three properties of `txt` for files of any lines, any
length and any number of invoices. `TypeCorrect` (`TypeOK`): every element of
the XML of an invoice was read from a line of that invoice. The parser is
followed from line to line: `Parsers(F, V)` are its states whose fields are of
`F` and whose values are of `V`, each of its 110 arms leads from one of them to
another (`PutIs` to `StartItemIs` for what an arm may do, `HeaderIs` to `RestIs`
for the arms, `HandleIs` for a line), and so does a whole parse (`ParseIs`).
`parse` is a recursive function over the lines; that there is one
(`ReadsExists`) and that all its values are such states is again shown by least
counterexample. Taking for `V` the values of the lines of one invoice, each
builder writes only elements read from them (`BuildIdeIs` to `BuildXmlIs`).
`ValidatorAndConverterAgree` (`ValidatedConverts`): an invoice ends right before
the next capital A line (`EndIs`), so the invoices cut the file, from the first such
line on, without a gap (`LinesAreCut`), and the last A line of either case before a
line is the same one in the file and in its invoice (`SameEntities`): the validator is in
the same layout there, and an
invoice is converted exactly when the validator accepts its lines and they have
no tab, its key apart
(`SliceConverts`). There are as many invoices as such lines (`AsManyAsMarkers`). A
file may begin with any line. The lines of all invoices are good if those of the
file are; the other direction has to except the lines that are in no invoice
(`Dropped`). The
assumption on the forms is `LinesAssumption`: a file is not empty,
and what a line says is not the absent value.

`PartsAreOfTheirLines` (`InItsGroup`): what the XML says in the k-th item,
volume, payment, import declaration, referenced document or authorized person
was read from the lines of that one. This is where the buffers of the parser
have to agree with the lines, and it holds only of files in the order of the
layout. The argument has three parts.
- The order. `InOrder` says what the parser relies on: an H line is followed by
  its I line, BA10 and GA by a line that completes them, the lines of an item
  come after an H and before the totals, a seal after a volume. It is an
  invariant of the writer (`OrderAlways`, `StaysInOrder`), which knows which entity
  a line belongs to (`Under`) and which lines may follow (`Fits`).
- The lines, one by one. Parts are counted by the lines that start them
  (`Starts`): the k-th part is read from the lines after which k of them had been
  started (`Group`). `InvoiceAt` says after each line where everything read so far
  stands: a list has as many elements as parts were started and its m-th one was
  read from the m-th group (`Counted`, `Placed`, in `ListsAt`), the volumes with
  the seals still set aside (`VolumesAt`), the finished items and the one that
  is open, which holds what an item without a product left (`ItemsAt`). Each arm of
  the parser is reduced to what it does to lists, slots and items (`PutDoes` to
  `OtherLineDoes`), a group is shown to rest when a line of another kind comes and to grow
  or to begin when one of its own does (`Stays`, `Grows`, `PushesStart`), and
  `InvoiceStays` is the step; `AllIsRead` is the least counterexample over the
  lines, up to the flush at the end (`finalize_current_item`).
- The XML. Every builder writes the m-th element of a list at the place m
  (`PlaceIs` to `XmlThere`), which with `AllIsRead` gives the property
  (`GroupsHold`).

`InOrder` is inductive with `FileInv`; `InItsGroup` is not an invariant of the parse but
of its result, and says nothing of what the buffers hold between two lines,
which is what `InvoiceAt` is for. The proof corrected the property once: a line
that names nothing (BA02 and BA19 without a key, I05A without an NVE, Z04 and Z07
without a field name) starts no part, because the code passes over it, so
`Starts` asks for `Said`, and `txt` has forms with such lines. The assumptions on
the forms are `LayoutAssumption` (they place all their entities, items before the
totals, and begin in order) and `RecordsAssumption` (what is read of a line is not the
absent value).

Only model-checked: everything about liveness (`Recovery`,
`CancellationRecovery`, `LotRecovery`), which TLAPS does not reach, and one
property of `txt`, `FieldsArrive`. The two directions differ: what stands in the
XML has one origin, and the places of a builder are few; that nothing is lost needs, for
each of the fields of five layouts, the arm that reads it, the lines that may
come before it is written and do not replace it, and the builder that writes it,
and that builder's condition. It is a case analysis over the layout tables themselves,
with the conditions of the builders as named exceptions (`CardLeftOut`,
`TaxLeftOut`, `Incomplete`, `SaidAgain`, `SealOfLastVolume`). TLC goes through
these tables, each entity with all its fields, and those of a builder with a
condition also without what it asks for; each exception is needed there.

## Not modelled, and why

SHA-1, RSA, C14N and PKCS#12 (a signature is the content it covers), TLS, gzip
and the layout of SOAP envelopes, the wording and layout of every text,
logging, bindings, generated tables. Contingency adjustment refuses an NFC-e.
A panic is the end of a call. `validate.rs` is a list of checks of
single fields of a text, each of which a model could only repeat. CT-e, MDF-e and NFS-e are builders
of one text each and a constant registry; nothing is kept or joined. The XSD
crate calls libxml2, with a lock around the one map that threads share. QR
codes are layout.

## Plan

Done: the core, `Contingency`, `Lot`, `EventLot`, `Routing`, `Invoice` and
`TxtConvert`, each with its proofs, but for one property of the last
(`FieldsArrive`).

Next, in this order: number ranges made void (`inutilize`,
`attach_inutilizacao`) and documents racing for the same numbers;
distribution of documents by NSU; `sefaz_validate` against a cancelled document; the
modulo 11 digits as a pure function.
