CONSTANTS
    Groups = {g1}
    BadName = BadName
    Users = {u1, u2, u3}
    Anon = Anon
    Secrets = {s1}
    NoSecret = NoSecret
    TwitchChans = {c1}
    OtherChan = OtherChan
    NoAnchor = NoAnchor
    MaxSends = 1

SPECIFICATION Spec

INVARIANT
    SentAsShown
