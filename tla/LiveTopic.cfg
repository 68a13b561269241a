SPECIFICATION TopicSpec
CONSTANTS
    Notifiers = {event}
    Pages = {page}
    Sampler = sampler
    MaxChanges = 2
    MaxErrors = 1
    Nothing = Nothing
INVARIANTS
    ReadsAreFresh
    NoFallBack
    

    
