SPECIFICATION Spec
CONSTANTS
  Calls = {c1, c2, c3}
  Apps = {a1}
  Policies = {p1, p2}
  AppOf <- OneApp
  Hosts = {h1}
  Urls = {u1}
  NoCall = NoCall
  NoUrl = NoUrl
  MaxClock = 5
SYMMETRY CallSymmetry
INVARIANTS TablesAgree NoLostUpdate LaterPublicationWins
PROPERTIES PublishesCurrentDraft ImplementsSource
