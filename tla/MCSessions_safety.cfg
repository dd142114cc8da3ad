\* Two tabs of one browser, an artist and a rival, failing calls and lost answers.
SPECIFICATION Spec
CONSTANTS
    artist = artist
    rival = rival
    hidden = hidden
    Users = {artist, rival}
    Role <- Roles
    Owner = artist
    NoUser = nobody
    Sids = {s1, s2}
    Tabs = {t1, t2}
    TTL = 1
    Fields = {hidden}
    Changes <- Bodies
    Requests = {e1, e2}
    Faults = {"db", "net"}
SYMMETRY Symmetric
INVARIANTS
    ActsAsShown
    LogoutEndsOwn
    ActsInSession
    ModerationsStand
