# TLA+ models of air-service-locator-server

The modules beside this file describe, in TLA+, the parts of the annuaire that
are hard to test: what its two roots do to each other's state when they
replicate, cut, restart and lag, how the records of the registry merge, who
speaks on a connection and when it must be closed, how a root keeps the
announcements of daemons alive while probes report from other threads, and how
it reads the state that local directories report to it.  TLC explores small
instances completely; TLAPS proves the theorems for every set of roots,
connections, members or machines and every bound.  Names of definitions follow
the source (French); `src/…` paths are the repository's.

- [The system](#the-system) — inventory of the components
- [Modules](#modules) — what is modelled, and how it corresponds to the code
- [Runs](#runs) — what TLC checks, with which bounds
- [Fairness](#fairness)
- [Proofs](#proofs) — what is proved, from what, and along which argument
- [Divergences](#divergences) — where the code does not do what its documents say
- [Not modelled](#not-modelled)
- [Plan](#plan) — what is left, in its order

## The system

One process (`asl-server`) is an annuaire: it keeps a registry (accounts,
devices, machines, services, rights, domains, groups) in one redb file, and the
live announcements of daemons in memory.  Everything is served by **one event
loop** over QUIC/HTTP-3 (`asl-loop-tokio/src/h3.rs`, `au_tour`,
`a_la_reception`, `a_la_fermeture`).  Beside the loop run tasks: the puller of
the peer root (`tireur.rs`), the probes, the wake-ups and a one-minute sweep.

Two annuaires, `nitrogen` and `argon`, are **roots**: both accept writes, and
each pulls from the other what the other wrote.  There is no consensus: every
operation carries a Lamport stamp `(compteur, racine)` and conflicts are decided
by rules meant to depend on the *set* of operations, not on their order of
arrival (`docs/replication.md`).

| Component (source) | State it keeps | Operations | Interacts with | Hard behaviour | What makes it correct |
|---|---|---|---|---|---|
| **Path between two roots** (`asl-store/src/lib.rs` 1300–3900, `tireur.rs`, `h3.rs` streams) | clock, `ecrit`, journal `OPERATIONS`, `CLEF_DES_RETIREES`, cursor; per connection the held stream and the rest of a snapshot | write, expire, serve operations / 410 / snapshot, cut in parts, apply, restart | everything that writes; QUIC | retention under a held stream, parts, cuts, restarts, notice after commit | no hole below the cursor; clock ahead; honest frames never refused; everything arrives |
| **Enrolment codes and machine keys** (`lib.rs` 2440–3250, 4735–4860; `h3.rs enroler`) | `ENROLEMENTS`, `ENROLEMENTS_PAR_MACHINE`, key in `MACHINES` | issue, consume, bind, revoke, sweep, apply | path, loop | two transactions with the puller between; codes on both roots; snapshot without memory | one consumption per code; revocation wins; index = table |
| Accounts, aliases, erasure (`lib.rs`) | `COMPTES`, `ALIAS`, marks | create, claim, erase, orphan sweep, apply | all records of the account | erasure crossing additions; claim on both sides | holder is a function of the set; nothing survives erasure |
| Devices (`lib.rs`) | `APPAREILS`, four stamps | enrol, revoke, attest, describe, push point | accounts, wake-ups | facts of one device crossing | both roots agree field by field |
| Machines (`lib.rs`) | name and capabilities, a stamp each | create, PATCH, apply | enrolment | a creation or a snapshot taking a field back | last writer per field |
| Invitations, services (`lib.rs`) | codes; service ids | emit, consume, declare, merge | announcements (`renommer`) | same service declared twice | same winner on both sides |
| Domains, groups, rights (`domaines.rs`, `groupes.rs`, `droits.rs`) | marks and facts | create, delete, add, remove | accounts | both domains deleted; removal crossing addition | reading is a function of the facts |
| Directories, inscriptions (`annuaires.rs`) | facts of each inscription: declared, presented, accepted, refused, withdrawn; hosts, locators | declare, present, decide, withdraw, entrust | roots, federated state | decisions crossing; two codes of one directory presented at once | the state read is a function of the facts; a pair has two members at most |
| Connections and proofs (`asl-session`, `quic.rs`, `h3.rs`, `tireur.rs`) | per connection: challenge, who is proved, by which key; orders of closing in the loop, in the channel, in the puller | challenge, proof, attestation, management, revocation, erasure, close | store, puller, loop | the puller commits between two transactions of a request; the answer leaves before the close | one acceptance per challenge; the rights of the last proof; no connection under a withdrawn key |
| Live announcements (`asl-annuaire`, `vivier.rs`, `sonde.rs`, `h3.rs`) | sessions with leases, verdict per point, probes in flight | announce, keepalive, close, verdict, expire, rename | probes (channel), services | late verdicts, saturation, expiry before the sweep | an announcement belongs to its connection; probes are bounded and counted |
| Federated state (`federation.rs`, `h3/federation.rs`, `asl-store/federation.rs`) | at a root: reports by member, path of each member with its last word; at a member: the table of federated machines, what it publishes, its sessions | pull machines by parts, push the state, refuse, cut, replace the table | inscriptions, announcements | two members report one service; a late report or close of a connection that was left | what runs is read alive; what does not leaves |
| Wake-ups (`asl-reveil`, `reveil.rs`) | brakes: per device, per host, in flight, dead points | ask, start, finish | devices | slot leak; dead point replaced | bounded in flight; new point not blocked |
| Decisions (`asl-auth`) | none | authorise | every route | — | decision table |
| Grammars and formats (`asl-api`, `asl-proto`, `asl-registre`, `asl-id`) | none | parse, print | all | — | round trips (unit tests, fuzz) |
| Cryptography and attestation (`asl-cle`, `asl-attest`, `asl-apple`, `asl-keystore`, `asl-racines`, `asl-echo`) | none | sign, verify | sessions | — | out of a model checker's reach |

## Modules

| Module | Role |
|---|---|
| `Rattrapage` | the abstract promise of replication: growing sets of stamped records and a cursor that acknowledges |
| `Voie` | the path between two roots as the code does it; instantiates `Rattrapage` (`R`) |
| `VoieInvariant` | the inductive invariant of `Voie`, by named parts |
| `VoiePerte` | `Voie` plus the loss of a store |
| `Enrolement` | codes and key of one machine on two replicating roots |
| `Replique` | what the records below share: stamps, clock, the path of `Voie` seen from above, the snapshot |
| `Comptes` | accounts, alias, devices and their erasure, with the two transactions of a request |
| `Domaines`, `Groupes`, `Droits` | domains and places, groups and members, rights; `Droits` composes the three |
| `Machines`, `Invitations`, `Inscriptions`, `Registre` | machines and services, invitations, directories; `Registre` composes the three |
| `Sessions` | connections, challenges, proofs, and the orders of closing |
| `Annonces` | the live announcements of one annuaire, its loop and its probes |
| `Federation` | the sessions of the members of a local directory with the roots, and what a root reads of them |
| `MCVoie`, `MCVoiePerte`, `MCEnrolement`, `MCComptes`, `MCDroits`, `MCRegistre`, `MCSessions`, `MCAnnonces`, `MCFederation` | instances for TLC |
| `RegistreInvariant` | the inductive invariant of `Registre`, by named parts |
| `LiensPreuves`, `EnrolementPreuves`, `RepliquePreuves`, `ComptesPreuves`, `RegistrePreuves`, `DroitsPreuves`, `DroitsAccordPreuves`, `VivantPreuves` | theorems and proofs; `RepliquePreuves` holds what the three registers share; `LiensPreuves` is about `Voie` and `Sessions`, `VivantPreuves` about `Annonces` and `Federation`: the `Init`, `Next` and `Spec` of `Sessions` and of `Federation` carry the name of their module (`InitSessions`, ...) so that one module extends both |

How the levels fit: `Voie` shows that what a root journals reaches its peer in
order and without hole, or is replaced by a snapshot.  `Enrolement` and
`Replique` take exactly that as their path, and ask what the operations do to the
records when they cross.  `Sessions`, `Annonces` and `Federation` are the tasks
of one process: the loop, the puller, the probes, the sessions of a member.

### Voie

A record is known by its stamp and every operation inserts its own record, so
the model says *which operations reach whom*, not how two operations on one
record merge (that is the business of `Enrolement` and of the modules on
`Replique`).  `r` is a puller and `Pair[r]` the root it pulls from; both directions
run at once.

| State | Code |
|---|---|
| `compteur`, `ecrit`, `operations`, `retirees`, `curseur` | `CLEF_DU_COMPTEUR`, `CLEF_DE_L_ECRIT`, `OPERATIONS`, `CLEF_DES_RETIREES`, `CURSEURS`: all durable, written in the transaction of the operation |
| `derniere` | the position published to the held streams after the commit (a `watch` in memory) |
| `phase`, `lus` | `Tireur`: cut / connected / reading operations / to be primed / snapshot being prepared / reading a snapshot |
| `aVenir`, `portes`, `servi`, `vu`, `clos` | `FluxPair` on the served side; `aVenir` of a snapshot is also the rest that `ParConnexion` keeps between two parts |
| `transit`, `fin`, `coupe` | frames on the stream, and the end frame with the clock of the cut |

`Ecrire`, `Prevenir`, `Expirer` are the store; `OuvrirLesOperations`,
`RepondreHorsJournal`, `OuvrirLInstantane`, `LireLInstantane`, `EchouerALire`
the answers of the served side; `Cadrer`, `Clore`, `SuivreLeJournal` its turns;
`AppliquerUneOperation`, `AppliquerDeLInstantane`, `AppliquerLaFin`,
`FinirLeFlux` the puller; `Couper`, `Redemarrer` failures.  The commit of a
write and its notice are two actions, because other commits, reads and turns
come between them.

Abstractions, all of them widening or neutral: a batch of one transaction is
applied one frame at a time (the cursor moves with each frame in the same
transaction as its record, so a batch is a sequence of such steps); the part is
counted in frames rather than octets; the order of the records inside a
snapshot is left open; the thirty days are "some prefix of the journal leaves at
any time".  The transactions of `LireLInstantane` are one: the code reads one
`ReadTransaction` (`lib.rs` 3110).  The periodic comparison of keys and the
refusal of a wrong peer are not there: the peer is the right one.

### VoiePerte

Adds `Perdre`, the only thing no code does: the file is gone.  What follows is
`Voie` unchanged, since the code has no other path for it.

### Enrolement

The path of `Voie` is seen from above: `enRoute[r]` is what the peer journaled
and `r` has not applied, in order (`Voie` shows it arrives in order and without
hole), and `Amorcer` replaces it by a snapshot.  `Consommer` and `Lier` are two
actions because `enroler` runs two transactions (`h3.rs` 1818 and 1837), and
`Recevoir` may come between: the puller is another task.  `Libre(r)` is the
loop: it serves one request to its end, so nothing else *of its own* comes
between them; a restart does (`Redemarrer`), and loses the code in hand.

A code is the stamp of its emission; each consumption brings a fresh key, known
by the stamp of its binding.  `acceptes` and `revoquees` are history, they guide
no action except through the bound `RevocationsMax`.  Expiration of a code is an
action enabled at any time: each root looks at its own clock, and a code
received has its own date.

### Replique

`compteur` is the Lamport clock; `enRoute[r]` is what `r` has still to apply, in
order; `amorcages` counts the snapshots.  `Journaliser` is `estampiller` and
`journaliser_l_operation` in one transaction; `Retirer` is the clock raised in
the transaction that applies; `AmorcerPar` replaces the queue by the snapshot of
the peer and its end frame, at any time the queue is not empty (the retention
may have passed over it at any time).  A record is known by the stamp of its
creation, an order that is the derived `Ord` of `Estampille` (`Avant`).

The snapshots are whole: every table of the peer, in the order the code reads
them, as operations that are applied by the same handlers.  That is where most
of what these models found comes from: a snapshot is a state, and carries no
memory of what was removed.

### Comptes

| State | Code |
|---|---|
| `comptes`, `reclamations`, `appareils`, `descriptions`, `points` | `COMPTES`, `ALIAS` (the claims), `APPAREILS` with its index, `DESCRIPTIONS`, `POINTS` |
| `demande` | the device and account `compte_de_la_connexion` has found (`h3.rs` 1186), before the writing transaction |
| `surpris` | history: accounts erased by the puller between these two transactions |

A request is identified, and then written: `Tarder(r)` is "the puller commits in
between", and the write that follows uses what was found before.  Without it the
two are one step.  `CreerCompte` leaves its request open, because the first
device is another transaction.  `EffacerUnOrphelin` is the sweep, for an account
whose devices, at least one, are all revoked; the delay the code gives it is "at
any time".  `Init` has three starts: the first account with one device; with two
devices each revoked by the other, one revocation on its way - the orphan of one
root and not yet of the other; and two accounts with a device each, one opened on
each root, which may claim one alias at once.

An account erased between the two transactions of a request gets a device that
stays: the code does not look at the account again.  `RienNeSurvit` and
`RacinesDAccord` are about the others, and name the exception by `surpris`: they
do not say that this race is harmless (Divergences, 11).

### Domaines, Groupes, Droits

`Domaines` holds accounts (as a row and a mark), domains, and `poses`: the last
writer for the alias of a machine, the name of a domain, the place of a machine.
The domain that survives when all are deleted is not written anywhere: it is
computed when read (`Vivant`, `domaines.rs` 137), as are the place of a machine,
the members of a group and what a right is worth.  `Groupes` holds groups by
domain, their marks, and the additions with the removal that names each of them.
`Droits` holds the rights, withdrawn in place, and says who may do what: the
handlers of `h3/domaines.rs`, `h3/groupes.rs`, `h3/droits.rs` are guards of
`EcrireUnDomaine`, `EcrireUnGroupe`, `SupprimerUnGroupe`, `AccorderDroit`,
`RetirerDroit`.  `EffacerDans` is `effacer_dans` for all three.

A request is one step here: the writing transactions of these handlers read again
what they depend on.  The administrators of a domain and the personal group of an account
are groups that exist without being written, as in the code.  Left out: the domain and the groups
of the roots themselves, services as elements of a right, and the old route
`accorder_autorisation`, which is a right given to a personal group.

### Machines, Invitations, Inscriptions, Registre

| State | Code |
|---|---|
| `machines`, `services`, `effaces` | `MACHINES`, `SERVICES` with `SERVICES_PAR_NOM`, the mark of `COMPTES` |
| `invitations`, `ouverts` | the codes; the accounts opened on one |
| `declarations`, `presentations`, `marques`, `hebergements`, `locateurs` | the facts of the inscriptions |
| `demande` | the request of each root between the transaction that reads and the one that writes |
| `surpris` | history: the requests whose account or machine was erased by the puller between the two |

They share the clock, the path, the snapshot and the erasure of an account, and no
table: `Registre` composes them, and a behaviour writes in one of them (`part`),
while the snapshot and the application are always of all.  In `Machines` the name
and the capabilities are their stamps, so that "the last writer" is visible.  In
`Invitations` a consumed code is a mark that is already expired (date 0), and
`balayees` is history: the marks a root has swept.  In `Inscriptions` only facts
are kept, and the state of a member is read from them (`Etat`): a withdrawal wins
over all, a refusal over an acceptance, the code presented first is the one that
counts, and a directory has one second at most.

Three writes do not read again what allowed them: `creer_machine` (`lib.rs` 1746)
does not look at the account that `compte_de_la_connexion` found (`h3.rs` 1186),
`declarer_service` (`lib.rs` 2855) does not look at the machine of the
announcement (`h3.rs` 2390), `confier_domaine` writes what its handler has judged.
They are two steps: what a request reads is `Lues(r)`, `Tarder(r)` keeps it in
`demande` while the puller commits, and `Demander(r)` writes for it whatever came
(`Rendre(r)` when the handler fails).  When nothing comes between, both are one
step.  The other writes read what they depend on in their own transaction
(`EcrireDesMachines`, `EcrireDesInvitations`, `EcrireDesInscriptions`,
`EffacerUnCompte`).

An erasure applied between the two leaves the row of the request: a machine of an
erased account, or a service without machine, which the peer refuses (`lib.rs`
4583 and 4892) and nothing removes.  So `TablesJustes` says that nothing outlives
its account *but* the row of such a request, and `RacinesDAccord` compares what is
held for the accounts that are there: after an erasure the roots may differ for
good on such a row, and on nothing else.  That the row should not be there at all
is `EffacementLEmporte`, which does not hold (Divergences, 11).

### Sessions

| State | Code |
|---|---|
| `cle`, `connues`, `clesRetirees`, `proprietaire`, `effaces` | what the store answers about keys and owners; `connues` and `clesRetirees` are history |
| `session[c]` | `Session`: `defi`, `pair`, the key it was proved with, `annuaire_local` |
| `etat[c]` | absent, open, closed and not forgotten (`oublier_les_eteintes`) |
| `demande` | the request in hand, between the transaction that reads and the one that writes |
| `revoques`, `canal`, `enMain` | `Annuaire.revoques`; the channel of `Fermetures`; what the puller has committed and not sent |
| `lue` | `lue_ce_tour`: the connection spared for its answer to leave |
| `tires`, `actes` | history: challenges drawn, and how often each was accepted |

A turn is `AuTour` (orphans, orders of the puller, closes), requests, then
`ApresLaLecture` (orders of the requests, but for the connection just read),
then `OublierLesEteintes`.  The puller's `Appliquer…` commit at any time, in
particular between a request's reading and its writing, and `EnvoyerUnOrdre`
comes later: two steps, as in `tireur.rs`.  A key is a number and a signature is
a key with the challenge it signs; nothing is said of cryptography.  `servir`
(`quic.rs` 744–786) walks over all the connections that have something to read;
the model lets any of them be read in any order in one turn, and spares the last
one read, as the code does.

### Annonces

| State | Code |
|---|---|
| `annonces` | `Vivier.annonces`: the session (last sign of life, points, verdicts) and its connection |
| `sondes`, `rapports`, `enVol` | the tasks of `lancer_les_sondes`, their unbounded channel, `Annuaire.en_vol` |
| `tenu`, `consignes` | `SERVICES_PAR_NOM` for the name of the daemon; the channel by which the puller asks for a renaming |
| `ouvertes`, `muettes` | connections of the QUIC machine; those whose daemon is gone without a close |
| `tour` | where `servir_quic` is in its turn |

One turn of the loop is, in this order, `AppliquerUnVerdict` until the channel
is empty, `OublierLesExpirees`, `Renommer` until no order is left, then one of
`Recevoir`, `Annoncer` or `NeRienLire`, then `Fermer` for the connections that
ended.  A probe (`Dater`, then `Rapporter`), the commit of a merge (`Fusionner`)
and time (`Passer`) come between any two of these, because they are tasks of a
multi-threaded runtime.  `Dater` and `Rapporter` are two steps: the verdict takes
its date in the task of the probe, and the loop reads it at its next turn at best.

Time is relative: each session carries its silence, each report its age, and
`avancer` compares the two (`Avance`).  A date that a real clock puts anywhere in
a millisecond is here a natural.  The date of the code is the clock of the wall
(`quic.rs` 924); a step of it forward is `Passer` several times, a step back is
not modelled.

`numero` and the field `par` of a verdict are not in the code: they say which
announcement is which.  All points are TCP.  The points of an announcement that
are probed when the bound is near are any of the right number of them, in place
of the first ones.  Left out: the probes of echoes (signed datagrams, re-probed
every quarter of an hour), the pushes to the daemon, and `Session::reannoncer`,
which the loop never calls.

### Federation

| State | Code |
|---|---|
| `rattachees`, `hebergees[r]` | the machines of the domains the directory hosts, and what a root knows of it yet |
| `tenus`, `voies` | `EtatFedere`: the last report of each member; `VoieDeMembre`: the connection each spoke on last, whether it closed there, and the age of that word (`mot`, for `dernier_mot`) |
| `ancienne` | a connection the member has left and the root holds open, with a request that may still be served |
| `federees`, `aFermer`, `vivier`, `publies` | at a member: `MACHINES_FEDEREES`, the closes that follow, what is announced, `ServicesPublies` |
| `session`, `neuve`, `prochaine` | where the session of a member with a root is, whether what it pushed is still true, whether its cadence came |

A session pulls part by part (`TirerUnePart`: the rank is counted in what the root
hosts *now*), replaces the table (`RangerLesMachines`), pushes body after body
(`PousserLEtat`, `PousserLaSuite`) and again on a change (`PousserUnChangement`).
`EtreRefuse` is the `403` of a body that names a machine that is not hosted;
`Perdre` leaves the request on its way: `ServirUneTardive` may serve it after the
member is back on another connection, and `FermerAuxRacines` sees the close.
Time is counted in cadences: `PasserUneCadence` ages the reports when no exchange is in the
middle (an exchange takes less than a cadence), and the last word of each member with
them; the code's expiry is three cadences (30 s for 10 s), a bound here.  A path is
shown fallen for two reasons (`VoieDe`, for `voie_de`, `federation.rs` 406): its
connection closed, or the member has said nothing there for the expiration,
although the root still holds it.  A machine has one service.  A session
`Eteinte` is of a member or a root that is not run.

Where two roots replace one table in turn, a machine that one of them does not
know yet may be cut for one cadence; reports of one same instant are chosen by
the order of a hash table (`PeutEtreLuVivant`); and a late word on a connection
that was left makes the path look fallen, until the next word.  `VivantLu` and
`RienNeReste` say what holds in the end, whatever happened.

## Runs

Every run is exhaustive within its bounds.  Deadlock is checked for `Annonces`,
`Sessions` and `Federation`, whose loops never rest, and not for the others:
writes and failures are bounded, and the system rests once everything is
delivered.

| Run | Instance | Distinct states | Question |
|---|---|---|---|
| `voie_deux_sens` | both pull, parts of 1 frame, clocks ≤ 2, no failure, symmetric | 501,816 | does retention overtaking a held stream, or a snapshot in parts while both write, ever make a hole, a late clock, a refusal or a step back? (`TypeOK`, `SansTrou`, `RienNeManque`, `HorlogeDevant`, `RienNEstRefuse`, `RienNeRecule`) |
| `voie_vivacite` | argon pulls, clocks ≤ 2, 2 failures, fair | 48,083 | does everything arrive once failures stop (`ToutArrive`)? do streams, journal, retention, snapshots and failures implement `Rattrapage` (`Rattrape`)? and is `Inv` invariant? |
| `enrolement_suivi` | both issue, clocks ≤ 3, 1 revocation, 1 snapshot, 1 restart | 1,135,864 | do table and index agree always, and without a snapshot is a code consumed once per root and a revoked key never held again? |
| `comptes` | three starts (an account with one device; with two devices whose revocations cross; two accounts, whose claims of the alias may cross), clocks ≤ 5, 2 accounts, 1 alias, one snapshot or one request with the peer in its middle | 377,204 | do both roots hold the same accounts, holders of an alias and devices once all is received; does anything survive an erasure; is an irreversible fact undone? (`TablesJustes`, `RacinesDAccord`, `RienNeSurvit`, `Irreversible`) |
| `partage` | two accounts, two domains of the first, a group and a right; each root writes for the first account, root 2 once more for the second; right `administrer`, 2 rights, one snapshot read by root 2 | 576,810 | has an account always a domain, and exactly one when both its last were deleted? do removals reach the other root whatever crosses them? does anything hang? do the roots agree? (`TablesJustes`, `ToujoursUnDomaine`, `RacinesDAccord`, `RetraitsEnEffet`, `Irreversible`) |
| `registre` | 3 writes in machines, 4 in invitations, or 3 in inscriptions, one part per behaviour, the erasure of an account included; one snapshot, or one request of root 2 that the peer comes between | 806,645 | are fields merged one by one, does anything outlive its account but the row of a request that the erasure came between, does a code open one account per root, has a directory one second at most, do the roots agree on all that is alive? (`TablesJustes`, `RacinesDAccord`, `InvitationUneFois`, `PaireBornee`, `ChampJamaisRepris`) |
| `sessions` | 2 connections, 2 devices, a machine with 2 keys, a local member, the other root; 2 challenges, 1 withdrawal; fair | 444,089 | is a challenge accepted once, are the rights those of the last proof, is an order of closing never lost and is the connection closed? (`SessionsJustes`, `DefiUneFois`, `OrdreTenu`, `CondamneeFermee`) |
| `annonces_vivantes` | 1 point, 2 identifiers, 2 connections, 1 probe in flight, 2 announcements, lease 1, delay 1, fair | 91,538 | is the count of probes exact and bounded, does an announcement live exactly with its connection, its lease, or until a later one? do slots come back, is a silent daemon forgotten? (`TypeOK`, `EnVolJuste`, `AnnonceTenue`, `RienNeDisparait`, `EnVolRetombe`, `MuetOublie`) |
| `federation` | four starts: one root and a pair of members, with a machine that comes or a member that is withdrawn; the same, with a daemon that moves and a session cut; one member with two machines, one of which may leave, and a cut; two roots and one member, with a machine that comes; parts of 1, expiry of 1 cadence, fair | 209,591 | is what runs read alive in the end and what does not run or is not hosted gone? is a path shown as it is? (`FederationJuste`, `VivantLu`, `RienNeReste`) |
| `voie_perdue`, `enrolement_course`, `droits_retrait` | see each `.cfg` | — | counterexamples to statements of the documents, below |

**Why the bounds are enough to meet the cases.**  `PartMax = 1` cuts every
stream after one frame, so every operation after the first needs a new stream
and every snapshot of two records comes in three parts; two writes on a side are
enough for the retention to remove one and keep one, which is what makes a
cursor "outside the journal" while something is still in it.  Three clocks let
one root write, receive and write again above what it received.  Two failures
let a session be cut during the recovery from a cut.  In `Enrolement`, three
clock values allow emission, binding and a second emission or a revocation on
top, with the same counter used by the other root.

In the modules on `Replique`, two or three writes that cross are enough for a
disagreement: one on each side and a third one, or a snapshot, between them.  The
starts are states the roots reached together before (a group with a member, a
right, a revocation on its way), so that these writes are about something.  In
`registre` the clock is bounded by the writes; `CompteurMax = 20` never binds.  A
request is surprised by one write of the peer that is on its way: `EcartsMax` counts
the requests that wait and the snapshots together, and 1 gives one of the two.  In
`comptes`, the third start leaves one write to each root: both claim the alias, or
one claims it while the other account is erased.
In `Sessions`, one withdrawal suffices because what may be lost is one order, and
two connections of one identity are what makes one of them spared.  Two
challenges let one be replaced by another.

In `Annonces`, two announcements on two connections give a replacement, a late
close, and a renaming onto a live session, one point and one probe in flight a
saturated bound, and a lease and a delay of one unit make each comparison of
`avancer` go both ways; several points of one announcement are covered by the
theorem `EnVolTenu`.  In `Federation`, each start meets one difficulty, since all of
them at once do not fit in one run: two members whose reports of one service
differ, and one that is refused; the report of the member a daemon left that comes
after a cut; the list of two machines that comes in three parts, each of one, while
one of them leaves; the list of one root that replaces that of the other, which
does not host the machine yet.  A start says in `Departs` which roots and members
run and which events may happen, one of each kind.  With an expiry of one cadence,
a path falls silent as soon as its member has missed a turn.

No proof depends on any bound: they are `CONSTANTS` with the assumption `\in Nat`.

`RienNeManque` is the operator's reading of `applique` and `ecrit`
(`docs/replication.md` § 8): a root whose `applique` reaches the `ecrit` of its
peer misses nothing of it.  The converse reading, that `applique` never exceeds
`ecrit` (line 768), does not hold: the end of a snapshot moves the cursor to the
clock of the cut, which also counts what the peer received.

Each property of a passing run comes with a mutant of the code it is about,
defined next to the original (for instance `RangerSansHorloge` for `Ranger`,
`EmettreSansRetirer` for `Emettre`), for which TLC finds a violation.

## Fairness

`SpecEquitable` of `Voie` (used by `voie_vivacite`) assumes

- `WF(Prevenir(r))`: a commit is followed by its notice, in the same function;
- `WF(Tirer(r))` for each root that pulls: `tirer_sans_fin` retries without end
  with a backoff, and the served loop looks at its streams at each turn.

`Tirer` is one fair action, not one per step: nothing in the code gives each step a
claim of its own.  Nothing obliges anyone to write, to expire or to fail, and
failures are bounded by `PannesMax`: a connection that is cut for ever is not
claimed to deliver.

`SpecEquitable` of `Annonces` (used by `annonces_vivantes`) assumes that the loop
goes on (`WF(Boucle)`: it has a timer, `prochain_delai`), that probes end and
report (`WF(Sonder)`: three seconds at most, `ATTENTE`, then an unbounded
channel), and that time passes (`WF(Passer)`).  It does not assume that a
connection is ever closed, that a daemon speaks, nor that the loop reads one
thing rather than another.

`SpecSessionsEquitable` assumes that a request in hand is answered
(`WF(Repondre)`: the handler has no wait in it), that the puller sends each order
of a batch it has committed (`WF(EnvoyerUnOrdre(x))`), and `SF(Avancer)`: a turn
reads a bounded number of datagrams (`LECTURES_MAX`) and then ends, however many
requests come.  Strong, because each request in hand disables the end of the turn
for its time.

`SpecFederationEquitable` assumes that each session goes on or is opened again
(`WF(Avancer(p))`: the sessions are tasks that retry without end), that a root
sees the close of a connection that was left (`WF(FermerAuxRacines(p))`: the idle
time of QUIC), that roots replicate, daemons announce or leave, the loop of a
member publishes and closes (`WF` each), and that time passes
(`SF(PasserUneCadence)`: strong, because each exchange in the middle disables it,
and an exchange is shorter than a cadence). Cuts and events are bounded and owed
to nobody; a late request is owed to nobody either.

## Proofs

All proofs are machine-checked with TLAPS, for any set of roots in pairs, any
pullers and any bounds (`VoieAssumption`, `EnrolementAssumption`: the pair is
symmetric and without fixed point, the bounds are naturals), for any services,
connections and finite set of points (`AnnoncesAssumption`), for any connections,
devices, machines and accounts (`SessionsAssumption`: identities of different
kinds differ), for any roots, members and set of machines
(`FederationAssumption`), and, for the records, any aliases, accounts, names,
directories and owners of domains (`RepliqueAssumption`: a root is a natural
number other than 0, since `Aucune` is the stamp of nobody;
`RegistreAssumption`: there is an account and there are two directories, the
ones the initial states speak of).  The proofs about domains, groups and rights
hold for every initial state of the form the code reaches (`DroitsAssumption`:
its stamps are given, its accounts are alive and have a domain, no two domains
have the same stamp, nothing hangs, and an owner was never added to the
administrators of his domain, of whom he is one without it: `AjouterMembre`
refuses it), and for roots that both start from it (`Neuves = {}`, as in
`partage`): no account is created later, which is what a root that knew nothing
would see.

| Theorem (module) | Statement |
|---|---|
| `TypeCorrect` (`LiensPreuves`) | `Spec => []TypeOK` |
| `Surete` (`LiensPreuves`) | `Spec => []Inv`, the inductive invariant |
| `SansTrouTenu`, `RienNeManqueTenu`, `HorlogeDevantTenue`, `RienNEstRefuseTenu` (`LiensPreuves`) | the four safety invariants of `voie_deux_sens` |
| `RienNeReculeTenu` (`LiensPreuves`) | the action property |
| `Raffinement` (`LiensPreuves`) | `Spec => R!Spec`: `Voie` implements `Rattrapage` |
| `TypeCorrect`, `IndexTenu`, `RevocationTenue` (`EnrolementPreuves`) | the type invariant, `IndexJuste`, `RevoqueeTenueParLaSuite` |
| `CodeUneFoisTenu` (`EnrolementPreuves`) | `CodeUneFoisParLaSuite` |
| `TypeCorrect`, `EnVolTenu`, `AnnonceTenueToujours`, `RienNeDisparaitJamais` (`VivantPreuves`) | the type invariant, `EnVolJuste`, `AnnonceTenue`, the action property `RienNeDisparait` |
| `TypeTenu`, `RolesTenus`, `DefiUneFoisTenu`, `OrdreTenuToujours` (`LiensPreuves`) | types, `SessionsJustes`, `DefiUneFois`, `OrdreTenu` |
| `FederationTenue` (`VivantPreuves`) | `FederationJuste` |
| `ComptesTablesJustes`, `ComptesRienNeSurvit`, `ComptesIrreversible`, `ComptesRacinesDAccord` (`ComptesPreuves`) | `TablesJustes`, `RienNeSurvit`, the action property `Irreversible`, `RacinesDAccord` |
| `RegistreTablesJustes`, `RegistreInvitationUneFois`, `RegistrePaireBornee`, `RegistreChampJamaisRepris`, `RegistreRacinesDAccord` (`RegistrePreuves`) | `TablesJustes`, `InvitationUneFois`, `PaireBornee`, the action property `ChampJamaisRepris`, `RacinesDAccord` |
| `DroitsTablesJustes`, `DroitsToujoursUnDomaine`, `DroitsIrreversible` (`DroitsPreuves`) | `TablesJustes`, `ToujoursUnDomaine`, the action property `Irreversible`, when `Neuves = {}` |
| `DroitsRetraitsEnEffet`, `DroitsRacinesDAccord` (`DroitsAccordPreuves`) | `RetraitsEnEffet`, `RacinesDAccord`, when `Neuves = {}` |

**Why `SansTrou` needs a strengthening.**  That the cursor passes over nothing
follows, at each frame, from facts about frames that are not applied yet:
`SuiteDe` says that what the peer wrote up to the last frame on the wire, and up
to `servi` while the stream is open, is applied, on the wire or to be framed, and
that frames on the wire precede the others; `JournalDe` says that the journal is
exactly the writes of the root above the retention floor, so that a stream that
reads "what follows `servi`" after having checked that the journal reaches back
to it skips nothing; `InstantaneDe` says that the writes up to the cut are held
or on their way as long as the end frame is; `FluxDe` says where frames may be
in each phase; `HorlogeDe` says that what a root writes next is above
everything that was promised by a cut.  Each part is preserved only with the
others; one lemma per action proves it, one step per part it disturbs.

**Refinement.**  The mapping is the identity on `rangees` and `curseur`, with
`Horloge <- 0..CompteurMax`.  A write maps to `R!Ecrire`; applying a frame or the
end frame maps to `R!Apprendre`; every other step stutters.

**Enrolment.**  `IndexJuste` is inductive with the fact that stamps on the way
are not `Aucune`.  `RevoqueeTenueParLaSuite` needs `Suite`: what is on the way
to a root is in the order of its author's clock, every revocation on the way
names a key stamped before it, and whatever a root holds or knows to be revoked
is below what still comes from its author - so the key that arrives is new.
A snapshot breaks exactly that, hence the hypothesis `amorcages = 0`.
`CodeUneFoisParLaSuite` adds `Frais` to `Suite`: every code a root has or has
consumed is below its own clock, or below what its author still sends (`VusDe`),
so a code that arrives or is emitted is not one that was consumed; and the
consumed codes are gone from the table and without repetition (`UneFoisDe`).

**Announcements.**  The invariant has two independent halves.  `VivierJuste`:
types, `AnnonceTenue`, and every announcement is numbered at most `numero`; the
last makes a replacement a *later* announcement, which `RienNeDisparait` needs.
`Comptees`: `EnVolJuste`, and the probes in flight are finitely many and were
launched for announcements already made; so those of a new announcement are
none of them, and the counter grows by exactly their number.

**Sessions.**  Four invariants, each on top of the types.  `TypeJuste`: a request
in hand is of an open connection and in the reading part of a turn
(`DemandeJuste`), which is what makes its answer well-typed.  `RolesJustes` is
inductive alone.  `DefisFrais`: a challenge that is still on a connection was
never accepted, no two connections have the same, and the one in hand is the one
of its connection - so accepting it counts once.  `OrdreJuste`, for `OrdreTenu`:
withdrawn keys were given (`ClesJustes`), an absent connection has no session
(`AbsentesNeuves`), and the clause that carries the proof, `OrdreDeLaDemande`: if
the key that a proof in hand was checked with is withdrawn meanwhile, the order
is already on its way, and the turn cannot have drained it, since it does not end
while a request is in hand.

**Federation.**  `VoieJuste` says of the path of a member that it is shown open
exactly when the connection it spoke on last is held and it spoke there within the
expiration, and that a session which spoke last on its connection is never shown
fallen as long as it goes on.  The first half is inductive with the types and the
connections: the word `courante` is said of a session that is open or was just left
to `ancienne`, so each of `Quitte`, `Delaissee` and `Fermee` keeps the two sides of
the equivalence in step.  The second half needs `VoieVive`: the last word of a
session that goes on is at most one cadence old, and when it is that old the turn
of the session has come, so that no other cadence passes before it speaks.

**Records: what the proofs share** (`RepliquePreuves`).  Every proof about
records bounds each stamp by the clock of the root that gave it (`Emise`): the
stamp of the next write is then new in every table and on every path, and what a
root receives raises its clock above it.  A table stays a table when a row is
written, kept or removed (`PoseeTable`, `GardeeTable`, `RestreinteTable`).  A
snapshot lists finite sets as sequences, of sequences for the machines: that
`SetToSeq` gives each element (`SuiteDe`) and that `FlattenSeq` gives a sequence
of the elements of its parts (`Aplatie`) are proved from the well-foundedness of
`<` (`PlusPetit`: the least index at which it would fail).

**Accounts.**  `TablesJustes` is inductive only with the types: the index of
aliases is made of the claims of the rows (`AliasDe`), so each write of a row
must move the index with it.  `RienNeSurvit` speaks of devices that are there;
its invariant (`SurvieDe`) adds what a request in hand believes between its two
transactions: unless its account was erased meanwhile (`surpris`), the account
is not erased and its device is there.

**Convergence of the accounts.**  `RacinesDAccord` says nothing until everything
is received; `Accord` says what holds meanwhile.  It speaks of *facts*: a table
holds some (`Tenu`: this account exists, this claim, this erasure, this owner,
this revocation...), an operation says some (`Dit`) and carries some more in the
record it creates a row with (`Porte`), a root knows a fact when its table holds
it, a later one of the kind, or a reason why it no longer counts (`Su`: an erased
account knows every claim of it, an erased owner every fact about its device).
Then: what a root holds is known to the other one, or said on its way to it
(`Couverture`); what is on its way is known to the root that sent it (`Verite`);
an account precedes its claims and a device what is said of it (`Precedee`); a
stamp was given to one claim, one erasure, one owner (`Unicite`); a row bears the
stamp of its claim (`Saines`); and no stamp that decides is ahead of the clock of
the root that holds it (`Datees`), so that a local write always wins.  Two lemmas
carry the rest: nothing a root knows is taken back (`SuReste`, from `Progres`), and
a local write *is* the application of the operation it journals (`Sienne`), so
that one lemma per kind of operation (`Applique...`) serves the writer and the
receiver.  A snapshot is faithful (`Fidele`): it carries nothing its root does not
hold, says all that it holds, accounts first, devices next.  `Accord` is kept
while no erasure came between the two transactions of a request: then only, a
device or a description may be written for an account that is gone.  At rest,
`Couverture` of both roots makes the tables equal (`AccordAuRepos`).

**Machines, invitations, directories.**  The invariant says what a root holds
(`Locale`) and what is on its way to it (`CheminDe`).  A machine of a snapshot
may belong to an account the reader erased, a service to a machine it does not
have: both are refused, which is what `TablesJustes` needs of what comes from the
peer.  What the root writes itself is followed by `Requetes`: the account or the
machine of a request in hand is there, or the request is in `surpris`; and so is
that of every row whose account or machine is gone (`Tenues`).  A presentation, on
the contrary, is applied without looking for its declaration; it finds it because
the declaration is there or earlier on the way, in a journal as in a snapshot
(`Ordonnee`), and the codes a root declares are those of its peer and those on
their way (the two inclusions of `CheminDe`).  `InvitationUneFois` needs the mark
of a code to stay until it is swept, and that an account that arrives from the
peer is one the root already has if it opened it itself.  `PaireBornee` follows
from the types: an accepted second is the one whose code is `Premiere`, a
function of the set, and a code has one member.  `ChampJamaisRepris` needs that
no field of a row is younger than the clock, so that a local change is later than
what it replaces.

**Convergence of the same records.**  `Accord` follows the form it has for the
accounts: facts that tables hold (`Tenu`) and operations say or carry (`Dit`,
`Porte`), `Couverture` and `Verite` between what a root knows (`Su`) and what is on
its way.  What a value stays against depends on its kind (`Vaut`): the first one for
a presentation's decision and whatever is given once, the last one for a field, a
service, a mark, a host.  A machine is a fact on its own and its name and its
capabilities are two more, so that two roots that change one field each end with
both.  None of this needs an exception for the requests that an erasure came
between, because a row written for an account that is erased says a fact that both
roots already know not to count.  The service of a machine that is gone is the
difficult one: that its account is erased has to be known to *both* roots, or the
service would stay on one and, its machine being alive, be missing on the other.
That is `Attaches`: the machine that a service, or a request in hand, names is held,
or its account is known to both as erased (`Abandonnee`); it is known to the peer
because an erasure only comes from it (`CeQuiPart`).  Everything about a machine
counts no more once its owner is erased
(`Delaisse`), and comes after the machine otherwise (`Precedee`); no field is older
than its machine, and a row bears the stamp of its last field (`Saines`).  A snapshot
says all that its root holds, machines before services, and nothing more
(`Reflet`).  The invitations that still open an account are not facts, since they
leave: `Codes` says that an emission reaches a root that never saw its code
(`Inedite`), and that a code alive on a root is alive on the other one, on its way
to it, consumed by an operation on its way back, or expired (`Suivi`).  A snapshot
lists the live codes of its root without those it has consumed, so `Codes` is
kept only while none was read (`CodesSuivis`): the hypothesis `amorcages = 0` of
the clause on codes of `RacinesDAccord`.  `AccordDesRacines` draws the theorem from
them, over the machines and services of the accounts that are there.  The
definitions are in `RegistreInvariant`, the proofs in `RegistrePreuves`.

**Domains, groups, rights.**  The invariant says what a root holds (`Locale`, one
part per table) and that the operations on the way are of their types.  What a
row hangs on is either never removed while its account lives (domains, groups:
`Croit`), or removed with everything that hangs on it in the same step
(`Marquer` and `OublierLesDroits`, `EffacerDans`); a row that comes late is
refused by the same test (`PeutRecevoir`, `PeutEntrer`), which is `RienNePend`.
For `ToujoursUnDomaine` the invariant knows the stamp that a domain has on every
root (`Naissance`): two domains never have the same, hence the oldest one of an
account is unique, and it is the survivor when all of them are marked.  The same
fact carries `Irreversible`: a request only marks a domain that has no mark
(`SuppressionPremiere`), since a marked domain that is alive is the oldest, and
the other one that must stay alive would be the oldest as well; everything else
that is dated goes through `PremiereMarque`, which never moves a date forward.

`RetraitsEnEffet` and `RacinesDAccord` take a second invariant, `Accord`
(`DroitsAccordPreuves`), about facts (`FaitDe`): that a row exists, the date of a mark, of a label, of a place,
that an account is erased.  Four things hold together.  What never changes is said
once (`DitUneFois`): the rows and the operations on the way name one owner for a
domain, one domain for a group, one content for a right, one value for a stamped
place.  A root knows what it wrote (`Ecrit`).  What its peer knows, it knows or is
about to receive (`Couvert`); here "knows" is `Su`: its tables hold the fact or a
later one (`Tient`), or the fact is closed (`Clos`), which means that what it hangs
on is gone for good on this root, such as an erased account or a deleted group.
And what an operation needs in order to be taken is known or comes before it on
the way (`Ordonne`): a member after its group, a group after its domain, a
withdrawal after its right.  Without the last part the third would not survive a
reception, since the code drops an operation whose row is missing; without the
second, the third would not survive a snapshot, which replaces what was on the way
and tells nothing of what the reading root wrote.  That a snapshot tells all of it,
in the right order, is `RaconteTout`: accounts, domains with their marks, groups,
members with their removals, rights, places.  `JamaisDOffice` is there because a
removal of the owner from the administrators is dropped when it is received.  A snapshot carries the
withdrawal of a right inside the right, which a root that has the right does not
look at again: hence `amorcages = 0` for the withdrawals of rights, and for the
answers of `Acces`.  When nothing is on its way, a row of a root is never closed on
the other (`PresentePasClose`), so each table holds what the other does
(`ToutEstDans`), and the tables are equal.

**Only model-checked.**  `ToutArrive`, `EnVolRetombe`, `MuetOublie`,
`CondamneeFermee`, `VivantLu`, `RienNeReste`: liveness under fairness is out of
reach of the prover.  Every safety property of the passing runs is a theorem, those
of `Droits` for two roots that share an initial state, as in its runs.

## Divergences

Three runs end in a counterexample TLC exhibits; each one refutes a sentence of
the documents by what the code does.

1. **A lost store is not rebuilt while the peer's journal is complete**
   (`voie_perdue`).  The puller asks for what follows 0; if nothing has expired,
   the peer serves its journal, which holds only its own writes
   (`lib.rs` 3060).  The former writes of the lost root come back only by a
   snapshot, and its clock may restart below stamps it already used.
   `docs/replication.md` 554 and 640 say otherwise.
2. **Two keys for one code** (`enrolement_course`).  The code of a machine is
   consumed on both roots; the binding of the peer is applied between the two
   transactions of `enroler`, then overwritten by `lier_cle`, which does not
   apply the rule of `appliquer_cle_machine`.  Each root ends with the key of the
   other's loser.  `docs/replication.md` 192: "à code égal, la PREMIÈRE
   consommation", "quel que soit l'ordre d'arrivée".
3. **A withdrawn right that stays** (`droits_retrait`).  A snapshot carries the
   withdrawal of a right only inside the right (`droits.rs` 299), and a root that
   holds the right already does not look at it: the cursor passes over the
   withdrawal.  `docs/replication.md` 200: "**Toujours**, comme une révocation".

Eight more statements are in the modules, with the documents they come from, and
are *not* properties of a run: each was seen violated while the model was built,
and giving it as an `INVARIANT` or a `PROPERTY` to the configuration named here
shows it again.

4. `CodesDansLOrdre` (`Enrolement`): an older code comes back to life.
   `appliquer_enrolement` (4748) compares with the code of the index; once the
   most recent code has been consumed, the index is empty and an older one that
   arrives is stored.  `docs/replication.md` 193: "Le plus récent gagne, l'autre
   meurt".
5. `RevoqueeTenue` (`Enrolement`): a snapshot of the peer taken before it learns
   of a revocation gives the key back to the root that revoked it.
   `docs/replication.md` 174 and 206.
6. `VerdictDeSonAnnonce` (`Annonces`): a verdict names a service and a point
   (`h3.rs` 4682), not the announcement it was measured for: the one of a probe
   launched for the former announcement, from another address, is given to the
   new one.  The comment above (4678) says `appliquer` refuses it.
7. `TempsJamaisRecule` (`Annonces`): a datagram handled between the date of a
   verdict and its reading makes the date older than the last sign of life;
   `avancer` refuses it as time going back (`asl-annuaire/src/lib.rs` 678),
   `appliquer` hides the fault, and the point stays `en_cours` until the next
   announcement.  `lib.rs` 109 says a monotone clock makes that impossible.
8. `MemeSurvivant` (`Droits`, with `Neuves = {2}`, `Depart <- MCDepartNeuf`,
   `Machines <- MCSansMachine`, `Butee <- MCButeeNeuve`): the stamp of an account
   moves with its alias, and the first domain is born under it on a root that
   learns of the account by a snapshot (`lib.rs` 4297), so that two roots compute
   two survivors.  `docs/replication.md` 203.
9. `InscriptionRetireeFermee` (`Sessions`): the withdrawal of a directory pushes
   no order of closing (`h3/annuaires.rs` 164–191), and its connection stays.
   `docs/protocole.md` 2396–2400: "Une inscription retirée ferme la connexion".
10. `InvitationFinitExpiree` (`Registre`): a code consumed on a root while its
    emission is replaced by a snapshot on the other ends up usable there once the
    mark is swept.  `lib.rs` 4700 says it ends expired whatever the order.
11. `EffacementLEmporte` (`Registre`): the request that creates a machine or declares
    a service reads the account or the machine in one transaction and writes in
    another, which looks only for the identifier it is about to write (`lib.rs` 1746,
    2855).  When the erasure of the account is applied by the puller between the two,
    the row stays on that root alone, and nothing removes it.  `docs/replication.md`
    175: "**L'effacement l'emporte toujours**", and what comes after it is "**refusée,
    le compte est effacé**".  `creer_appareil` (`lib.rs` 2031) leaves a device in the
    same way (`surpris` in `Comptes`).

Smaller things met on the way, that no document denies: a swept mark and a
snapshot bring a code back on the root that consumed it (`balayees` in `Invitations`); `attester_un_appareil` may prove a device that was
revoked between its reads, whose connection the pending order then closes; a
machine enrolled again over a key it holds keeps the connections of the former
key; `docs/replication.md` 194 says the double use of an invitation is logged,
and the code logs nothing.

## Not modelled

- **Wake-ups** (`asl-reveil`, `reveil.rs`): the brakes are a small machine of
  their own, first in the plan below; the call itself is I/O.  What is on the way
  to it, `Annuaire.a_reveiller` and the streams of `GET /v1/nouvelles`, is not
  there either.
- **Decisions of `asl-auth`**: pure functions of the facts read.
- **In `Federation`**: the judgement of the pair, the published locators, the IPv4
  visits, the echoes, the services that wait for their machine, and the
  declaration of services at the first report.
- **In `Droits`**: the domain and the groups of the roots, a service as the element
  of a right, an erasure between the two transactions of `accorder_autorisation`.
- **In `Annonces`**: the probes of echoes, the pushes to the daemon, and
  `Session::reannoncer`, which the loop never calls.
- **Refusals by address** (`EchecsParAdresse`, `h3.rs` 495–530) and the other
  limits of the served loop that only slow a client down.
- **The QUIC and HTTP/3 machine** — a vendored library; a connection is a FIFO
  stream that is open or lost.
- **Cryptography, attestation chains, encodings, grammars** — pure functions
  without state, covered by the repository's unit tests and fuzz targets.
- **Octets, durations and clocks of the wall** — a part is counted in frames, a
  retention or an expiry may happen at any time; a property that held only
  because of a duration would not be claimed.
- **Errors of redb** — a failed transaction changes nothing; the only one that is
  modelled is the failed reading of a snapshot, which the code turns into an
  empty stream.
- **The migrations at start** (identifiers derived from names, rights made of
  former authorisations): functions of a table, run once before anything else.

## Plan

What is left, in its order.

1. `Reveils` — the brakes of `asl-reveil` with the tasks of `reveil.rs`: the bound
   in flight, a point that is dead and replaced while its last call is in flight
   (which relies on a call being shorter than the minute of the brake), and who is
   woken when a right is granted on one root while a member is added on the other.
2. The services that wait for their machine (`asl-store/src/federation.rs`) and the
   judgement of the pair, on top of `Federation`.
3. The echoes of `Annonces`, the pushes to the daemon.
4. The decisions of `asl-auth` as operators, against the tables of `docs/`.
5. The domain and the groups of the roots in `Droits`.
6. The theorems of `Droits` for a root that knows nothing yet (`Neuves # {}`): accounts
   that appear, and the stamp of their first domain, which differs between the roots.
